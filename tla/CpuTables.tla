------------------------------- MODULE CpuTables -------------------------------
(***************************************************************************)
(* The opcode tables of core/src/cpu.c: row and column are the two hex     *)
(* digits of the opcode.                                                   *)
(***************************************************************************)
EXTENDS Naturals

Opcode == 0 .. 255

(* addrtable: the addressing mode.                                         *)
AddrRows == <<
  <<"IMP", "INDX", "IMP", "INDX", "ZP", "ZP", "ZP", "ZP", "IMP", "IMM", "ACC", "IMM", "ABSO", "ABSO", "ABSO", "ZPREL">>,
  <<"REL", "INDY", "INDZ", "INDY", "ZP", "ZPX", "ZPX", "ZP", "IMP", "ABSY", "ACC", "ABSY", "ABSO", "ABSX", "ABSX", "ZPREL">>,
  <<"ABSO", "INDX", "IMP", "INDX", "ZP", "ZP", "ZP", "ZP", "IMP", "IMM", "ACC", "IMM", "ABSO", "ABSO", "ABSO", "ZPREL">>,
  <<"REL", "INDY", "INDZ", "INDY", "ZPX", "ZPX", "ZPX", "ZP", "IMP", "ABSY", "ACC", "ABSY", "ABSX", "ABSX", "ABSX", "ZPREL">>,
  <<"IMP", "INDX", "IMP", "INDX", "ZP", "ZP", "ZP", "ZP", "IMP", "IMM", "ACC", "IMM", "ABSO", "ABSO", "ABSO", "ZPREL">>,
  <<"REL", "INDY", "INDZ", "INDY", "ZPX", "ZPX", "ZPX", "ZP", "IMP", "ABSY", "IMP", "ABSY", "ABSX", "ABSX", "ABSX", "ZPREL">>,
  <<"IMP", "INDX", "IMP", "INDX", "ZP", "ZP", "ZP", "ZP", "IMP", "IMM", "ACC", "IMM", "IND", "ABSO", "ABSO", "ZPREL">>,
  <<"REL", "INDY", "INDZ", "INDY", "ZPX", "ZPX", "ZPX", "ZP", "IMP", "ABSY", "IMP", "ABSY", "ABIN", "ABSX", "ABSX", "ZPREL">>,
  <<"REL", "INDX", "IMM", "INDX", "ZP", "ZP", "ZP", "ZP", "IMP", "IMM", "IMP", "IMM", "ABSO", "ABSO", "ABSO", "ZPREL">>,
  <<"REL", "INDY", "INDZ", "INDY", "ZPX", "ZPX", "ZPY", "ZP", "IMP", "ABSY", "IMP", "ABSY", "ABSO", "ABSX", "ABSX", "ZPREL">>,
  <<"IMM", "INDX", "IMM", "INDX", "ZP", "ZP", "ZP", "ZP", "IMP", "IMM", "IMP", "IMM", "ABSO", "ABSO", "ABSO", "ZPREL">>,
  <<"REL", "INDY", "INDZ", "INDY", "ZPX", "ZPX", "ZPY", "ZP", "IMP", "ABSY", "IMP", "ABSY", "ABSX", "ABSX", "ABSY", "ZPREL">>,
  <<"IMM", "INDX", "IMM", "INDX", "ZP", "ZP", "ZP", "ZP", "IMP", "IMM", "IMP", "IMP", "ABSO", "ABSO", "ABSO", "ZPREL">>,
  <<"REL", "INDY", "INDZ", "INDY", "ZPX", "ZPX", "ZPX", "ZP", "IMP", "ABSY", "IMP", "ABSY", "ABSX", "ABSX", "ABSX", "ZPREL">>,
  <<"IMM", "INDX", "IMM", "INDX", "ZP", "ZP", "ZP", "ZP", "IMP", "IMM", "IMP", "IMM", "ABSO", "ABSO", "ABSO", "ZPREL">>,
  <<"REL", "INDY", "INDZ", "INDY", "ZPX", "ZPX", "ZPX", "ZP", "IMP", "ABSY", "IMP", "ABSY", "ABSX", "ABSX", "ABSX", "ZPREL">>
>>

(* optable: the handler function.                                          *)
OpRows == <<
  <<"brk", "ora", "nop", "nop", "tsb", "ora", "asl", "rmb", "ph_", "ora", "asl", "nop", "tsb", "ora", "asl", "bbr">>,
  <<"bxx", "ora", "ora", "nop", "trb", "ora", "asl", "rmb", "clc", "ora", "inc", "nop", "trb", "ora", "asl", "bbr">>,
  <<"jsr", "and", "nop", "nop", "bit", "and", "rol", "rmb", "pl_", "and", "rol", "nop", "bit", "and", "rol", "bbr">>,
  <<"bxx", "and", "and", "nop", "bit", "and", "rol", "rmb", "sec", "and", "dec", "nop", "bit", "and", "rol", "bbr">>,
  <<"rti", "eor", "nop", "nop", "nop", "eor", "lsr", "rmb", "ph_", "eor", "lsr", "nop", "jmp", "eor", "lsr", "bbr">>,
  <<"bxx", "eor", "eor", "nop", "nop", "eor", "lsr", "rmb", "cli", "eor", "ph_", "nop", "nop", "eor", "lsr", "bbr">>,
  <<"rts", "adc", "nop", "nop", "stz", "adc", "ror", "rmb", "pl_", "adc", "ror", "nop", "jmp", "adc", "ror", "bbr">>,
  <<"bxx", "adc", "adc", "nop", "stz", "adc", "ror", "rmb", "sei", "adc", "pl_", "nop", "jmp", "adc", "ror", "bbr">>,
  <<"bra", "sta", "nop", "nop", "sty", "sta", "stx", "smb", "dey", "bit", "txa", "nop", "sty", "sta", "stx", "bbs">>,
  <<"bxx", "sta", "sta", "nop", "sty", "sta", "stx", "smb", "tya", "sta", "txs", "nop", "stz", "sta", "stz", "bbs">>,
  <<"ldy", "lda", "ldx", "nop", "ldy", "lda", "ldx", "smb", "tay", "lda", "tax", "nop", "ldy", "lda", "ldx", "bbs">>,
  <<"bxx", "lda", "lda", "nop", "ldy", "lda", "ldx", "smb", "clv", "lda", "tsx", "nop", "ldy", "lda", "ldx", "bbs">>,
  <<"cpy", "cmp", "nop", "nop", "cpy", "cmp", "dec", "smb", "iny", "cmp", "dex", "wai", "cpy", "cmp", "dec", "bbs">>,
  <<"bxx", "cmp", "cmp", "nop", "nop", "cmp", "dec", "smb", "cld", "cmp", "ph_", "nop", "nop", "cmp", "dec", "bbs">>,
  <<"cpx", "sbc", "nop", "nop", "cpx", "sbc", "inc", "smb", "inx", "sbc", "nop", "nop", "cpx", "sbc", "inc", "bbs">>,
  <<"bxx", "sbc", "sbc", "nop", "nop", "sbc", "inc", "smb", "sed", "sbc", "pl_", "nop", "nop", "sbc", "inc", "bbs">>
>>

addrtable(o) == AddrRows[(o \div 16) + 1][(o % 16) + 1]
optable(o)   == OpRows[(o \div 16) + 1][(o % 16) + 1]

(* addr_lengths: how long an instruction of the mode is.                    *)
addr_lengths(mode) ==
  CASE mode \in {"IMP", "ACC"} -> 1
    [] mode \in {"ABSO", "ABSX", "ABSY", "IND", "ABIN", "ZPREL"} -> 3
    [] OTHER -> 2

(* disassemble_opcode: what it returns for an opcode in a buffer of which   *)
(* avail bytes are left, and 0 if the instruction is cut off; the text is  *)
(* left out.                                                               *)
disassemble_opcode(avail, o) ==
  LET length == addr_lengths(addrtable(o))
  IN IF avail < length THEN 0 ELSE length
================================================================================
