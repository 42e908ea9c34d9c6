------------------------------- MODULE CpuProofs -------------------------------
(***************************************************************************)
(* Proofs about the 65C02 core, for every size of a byte, every program,    *)
(* all vectors and whatever the devices do to the pins.                    *)
(*                                                                         *)
(* Typed is the type invariant.  Proceeds says of every op_state how many  *)
(* cycles the instruction has taken by then, how many bus operations the   *)
(* tick has made, where pc stands and what the page flag is; the timing,   *)
(* the bus operations and the lengths are what it says at "OPCODE".        *)
(* StackIsLifo is inductive.  Returns adds what the frames on the stack    *)
(* hold and how far the sequence has come that pushes or pulls one.  For   *)
(* each of them there is one lemma for each action.                        *)
(*                                                                         *)
(* The last part is about the arithmetic of Alu, which Cpu leaves out.     *)
(***************************************************************************)
EXTENDS Cpu, SequenceTheorems, TLAPS

(* Arithmetic of bytes and addresses.                                       *)
LEMMA Sizes == ByteSize \in Nat /\ ByteSize >= 8
  BY CpuAssumption, Zenon

(* A register that wraps around at most once.                              *)
LEMMA Modulo ==
  ASSUME NEW M \in Nat, M > 0, NEW n \in Nat, n < 2 * M
  PROVE  n % M = IF n < M THEN n ELSE n - M
  <1>1. CASE n < M
    BY <1>1
  <1>2. CASE n >= M
    <2>1. n = M * 1 + (n - M) /\ 0 <= n - M /\ n - M < M /\ n - M \in Nat
      BY <1>2
    <2>q. QED BY <1>2, <2>1
  <1>q. QED BY <1>1, <1>2

LEMMA Around ==
  ASSUME NEW x \in Byte, NEW n \in 0 .. ByteSize
  PROVE  (x + n) % ByteSize = IF x + n < ByteSize THEN x + n ELSE x + n - ByteSize
  BY Sizes, Modulo DEF Byte

LEMMA Rest == \A n \in Nat : n % ByteSize \in Byte
  BY Sizes DEF Byte

LEMMA Memory == ByteSize * ByteSize \in Nat /\ ByteSize * ByteSize >= 64
  <1>1. ByteSize * ByteSize \in Nat /\ ByteSize * ByteSize >= 8 * ByteSize
    BY Sizes
  <1>q. QED BY <1>1, Sizes

LEMMA PlusIs ==
  ASSUME NEW a \in Address, NEW n \in 0 .. 3
  PROVE  /\ Plus(a, n) \in Address
         /\ Plus(a, n) = IF a + n < ByteSize * ByteSize THEN a + n ELSE a + n - ByteSize * ByteSize
  <1> DEFINE M == ByteSize * ByteSize
  <1>1. M \in Nat /\ M >= 64 /\ a \in 0 .. M - 1
    BY Memory DEF Address
  <1>2. Plus(a, n) = (a + n) % M
    BY DEF Plus
  <1> HIDE DEF M
  <1>3. a + n \in Nat /\ a + n < 2 * M /\ M > 0
    BY <1>1
  <1>4. Plus(a, n) = IF a + n < M THEN a + n ELSE a + n - M
    BY <1>1, <1>2, <1>3, Modulo
  <1>5. Plus(a, n) \in 0 .. M - 1
    BY <1>1, <1>4
  <1>q. QED BY <1>4, <1>5 DEF M, Address

LEMMA PlusPlus ==
  ASSUME NEW a \in Address
  PROVE  /\ Plus(Plus(a, 1), 1) = Plus(a, 2)
         /\ Plus(Plus(a, 2), 1) = Plus(a, 3)
  <1> DEFINE M == ByteSize * ByteSize
  <1>1. M \in Nat /\ M >= 64 /\ a \in 0 .. M - 1
    BY Memory DEF Address
  <1>2. \A b \in Address, n \in 0 .. 3 :
          Plus(b, n) \in Address /\ Plus(b, n) = IF b + n < M THEN b + n ELSE b + n - M
    BY PlusIs
  <1>3. Plus(a, 1) \in Address /\ Plus(a, 2) \in Address
    BY <1>2
  <1> HIDE DEF M
  <1>4. /\ Plus(a, 1) = IF a + 1 < M THEN a + 1 ELSE a + 1 - M
        /\ Plus(a, 2) = IF a + 2 < M THEN a + 2 ELSE a + 2 - M
        /\ Plus(a, 3) = IF a + 3 < M THEN a + 3 ELSE a + 3 - M
        /\ Plus(Plus(a, 1), 1) = IF Plus(a, 1) + 1 < M THEN Plus(a, 1) + 1 ELSE Plus(a, 1) + 1 - M
        /\ Plus(Plus(a, 2), 1) = IF Plus(a, 2) + 1 < M THEN Plus(a, 2) + 1 ELSE Plus(a, 2) + 1 - M
    BY <1>2, <1>3
  <1>q. QED BY <1>1, <1>4

LEMMA Division ==
  ASSUME NEW a \in Nat, NEW m \in Nat, m > 0
  PROVE  /\ a % m \in 0 .. m - 1 /\ a \div m \in Nat
         /\ a = m * (a \div m) + (a % m)
  <1>1. a % m \in 0 .. m - 1
    OBVIOUS
  <1>2. a \div m \in Int
    OBVIOUS
  <1>3. a = m * (a \div m) + (a % m)
    <2>1. (a \div m) * m + (a % m) = a
      OBVIOUS
    <2>2. (a \div m) * m = m * (a \div m)
      BY <1>2
    <2>q. QED BY <2>1, <2>2
  <1>4. a \div m >= 0
    OBVIOUS
  <1>q. QED BY <1>1, <1>2, <1>3, <1>4

(* An address is its two bytes.                                             *)
LEMMA Bytes ==
  ASSUME NEW a \in Address
  PROVE  Lo(a) \in Byte /\ Hi(a) \in Byte /\ Lo(a) + ByteSize * Hi(a) = a
  <1>1. a \in Nat /\ a < ByteSize * ByteSize
    BY Memory DEF Address
  <1>2. a % ByteSize \in Nat /\ a % ByteSize < ByteSize /\ a \div ByteSize \in Nat
        /\ a = ByteSize * (a \div ByteSize) + (a % ByteSize)
    BY <1>1, Sizes, Division
  <1>3. a \div ByteSize < ByteSize
    <2> DEFINE d == a \div ByteSize
    <2>1. ASSUME d >= ByteSize PROVE FALSE
      <3> HIDE DEF d
      <3>1. \A m, n \in Nat : m >= n => n * m >= n * n
        <4>1. \A k, n \in Nat : n * (n + k) = n * n + n * k /\ n * k \in Nat /\ n * n \in Nat
          OBVIOUS
        <4>2. \A m, n \in Nat : m >= n => m - n \in Nat /\ n + (m - n) = m
          OBVIOUS
        <4>q. QED BY <4>1, <4>2
      <3>2. d \in Nat
        BY <1>2 DEF d
      <3>3. ByteSize * d >= ByteSize * ByteSize
        BY <2>1, <3>1, <3>2, Sizes
      <3>4. a = ByteSize * d + (a % ByteSize) /\ a % ByteSize \in Nat
        BY <1>2 DEF d
      <3>5. ByteSize * d \in Nat
        BY <3>2, Sizes
      <3>q. QED BY <1>1, <3>3, <3>4, <3>5, Memory
    <2>q. QED BY <1>2, <2>1, Sizes
  <1> DEFINE l == a % ByteSize
             h == a \div ByteSize
  <1>4. l \in Nat /\ l < ByteSize /\ h \in Nat /\ h < ByteSize /\ l + ByteSize * h = a
    BY <1>1, <1>2, <1>3, Sizes
  <1>5. Lo(a) = l /\ Hi(a) = h
    BY DEF Lo, Hi
  <1> HIDE DEF l, h
  <1>q. QED BY <1>4, <1>5, Sizes DEF Byte

LEMMA Joined ==
  ASSUME NEW l \in Byte, NEW h \in Byte
  PROVE  l + ByteSize * h \in Address
  <1>1. l \in Nat /\ h \in Nat /\ l <= ByteSize - 1 /\ h <= ByteSize - 1
    BY Sizes DEF Byte
  <1>2. ByteSize * h <= ByteSize * (ByteSize - 1) /\ ByteSize * h \in Nat
    BY <1>1, Sizes
  <1>3. ByteSize * (ByteSize - 1) = ByteSize * ByteSize - ByteSize
    BY Sizes
  <1>q. QED BY <1>1, <1>2, <1>3, Sizes, Memory DEF Address

(* A status that is pushed and pulled again has the same I and D.           *)
LEMMA StatusBytes ==
  ASSUME NEW s \in Status, NEW brk_flag \in BOOLEAN
  PROVE  /\ StatusByte(s, brk_flag) \in Byte
         /\ ByteStatus(StatusByte(s, brk_flag)).i = s.i
         /\ ByteStatus(StatusByte(s, brk_flag)).d = s.d
  <1> DEFINE i == Bit(s.i)
             d == Bit(s.d)
             b == Bit(s.b \/ brk_flag)
             v == i + 2 * d + 4 * b
  <1>1. i \in 0 .. 1 /\ d \in 0 .. 1 /\ b \in 0 .. 1
    BY DEF Bit
  <1>2. /\ s.i \in BOOLEAN /\ s.d \in BOOLEAN
        /\ ((i = 1) <=> s.i) /\ ((d = 1) <=> s.d)
    BY DEF Bit, Status
  <1>3. StatusByte(s, brk_flag) = v
    BY DEF StatusByte
  <1> HIDE DEF i, d, b
  <1>4. v \in 0 .. 7 /\ v % 2 = i /\ (v \div 2) % 2 = d
    BY <1>1
  <1>5. ByteStatus(v).i = (i = 1) /\ ByteStatus(v).d = (d = 1)
    BY <1>4 DEF ByteStatus
  <1>6. StatusByte(s, brk_flag) \in Byte
    BY <1>3, <1>4, Sizes DEF Byte
  <1> HIDE DEF v
  <1>q. QED BY <1>2, <1>3, <1>5, <1>6

LEMMA StatusOfByte == \A v : ByteStatus(v) \in Status
  BY DEF ByteStatus, Status

-----------------------------------------------------------------------------
(* The opcode tables: which handler goes with which addressing modes.       *)
Addressed == {"ZP", "ZPX", "ZPY", "ABSO", "ABSX", "ABSY", "INDX", "INDY", "INDZ"}

FlagOps   == {"cld", "cli", "sed", "sei"}
Registers == {"clc", "clv", "sec", "dex", "dey", "inx", "iny",
              "tax", "tay", "tsx", "txa", "tya", "wai"}
BitOps    == {"trb", "tsb", "rmb", "smb"}

GoesWith(h, m) ==
  \/ h \in Registers \cup FlagOps \cup {"txs", "brk", "ph_", "pl_", "rti", "rts"} /\ m = "IMP"
  \/ h \in {"bxx", "bra"} /\ m = "REL"
  \/ h \in {"bbr", "bbs"} /\ m = "ZPREL"
  \/ h = "jsr" /\ m = "ABSO"
  \/ h = "jmp" /\ m \in {"ABSO", "IND", "ABIN"}
  \/ h \in ReadOps /\ m \in Addressed \cup {"IMM"}
  \/ h = "sta" /\ m \in Addressed
  \/ h \in {"stx", "sty", "stz"} /\ m \in {"ZP", "ZPX", "ZPY", "ABSO", "ABSX", "ABSY"}
  \/ h \in Shifts \cup {"inc", "dec"} /\ m \in {"ACC", "ZP", "ZPX", "ABSO", "ABSX"}
  \/ h \in BitOps /\ m \in {"ZP", "ABSO"}
  \/ h = "nop" /\ m \in Addressed \cup {"IMP", "IMM"}

Fits(r, c) ==
  /\ GoesWith(OpRows[r][c], AddrRows[r][c])
  /\ OpRows[r][c] = "jsr" <=> r = 3 /\ c = 1
  /\ OpRows[r][c] = "jmp" /\ AddrRows[r][c] = "ABSO" <=> r = 5 /\ c = 13

LEMMA Rows == \A r \in 1 .. 16, c \in 1 .. 16 : Fits(r, c)
  <1> SUFFICES ASSUME NEW r \in 1 .. 16, NEW c \in 1 .. 16
               PROVE  Fits(r, c)
    OBVIOUS
  <1> USE DEF AddrRows, OpRows, Fits, GoesWith, ReadOps, Shifts, Addressed, FlagOps, Registers, BitOps
  <1>1. CASE r = 1
    BY <1>1, SMTT(60)
  <1>2. CASE r = 2
    BY <1>2, SMTT(60)
  <1>3. CASE r = 3
    BY <1>3, SMTT(60)
  <1>4. CASE r = 4
    BY <1>4, SMTT(60)
  <1>5. CASE r = 5
    BY <1>5, SMTT(60)
  <1>6. CASE r = 6
    BY <1>6, SMTT(60)
  <1>7. CASE r = 7
    BY <1>7, SMTT(60)
  <1>8. CASE r = 8
    BY <1>8, SMTT(60)
  <1>9. CASE r = 9
    BY <1>9, SMTT(60)
  <1>10. CASE r = 10
    BY <1>10, SMTT(60)
  <1>11. CASE r = 11
    BY <1>11, SMTT(60)
  <1>12. CASE r = 12
    BY <1>12, SMTT(60)
  <1>13. CASE r = 13
    BY <1>13, SMTT(60)
  <1>14. CASE r = 14
    BY <1>14, SMTT(60)
  <1>15. CASE r = 15
    BY <1>15, SMTT(60)
  <1>16. CASE r = 16
    BY <1>16, SMTT(60)
  <1> HIDE DEF AddrRows, OpRows, Fits, GoesWith, ReadOps, Shifts, Addressed, FlagOps, Registers, BitOps
  <1>q. QED BY <1>1, <1>2, <1>3, <1>4, <1>5, <1>6, <1>7, <1>8,
               <1>9, <1>10, <1>11, <1>12, <1>13, <1>14, <1>15, <1>16

LEMMA Decoded ==
  \A o \in Opcode :
    /\ GoesWith(optable(o), addrtable(o))
    /\ optable(o) = "jsr" <=> o = JSR
    /\ optable(o) = "jmp" /\ addrtable(o) = "ABSO" <=> o = JMP
  <1> SUFFICES ASSUME NEW o \in Opcode
               PROVE  /\ GoesWith(optable(o), addrtable(o))
                      /\ optable(o) = "jsr" <=> o = JSR
                      /\ optable(o) = "jmp" /\ addrtable(o) = "ABSO" <=> o = JMP
    OBVIOUS
  <1>1. PICK r \in 1 .. 16, c \in 1 .. 16 :
          o = 16 * (r - 1) + c - 1 /\ (o \div 16) + 1 = r /\ (o % 16) + 1 = c
    BY DEF Opcode
  <1>2. optable(o) = OpRows[r][c] /\ addrtable(o) = AddrRows[r][c]
    BY <1>1 DEF optable, addrtable
  <1>3. /\ o = JSR <=> r = 3 /\ c = 1
        /\ o = JMP <=> r = 5 /\ c = 13
    BY <1>1 DEF JSR, JMP
  <1>4. /\ GoesWith(OpRows[r][c], AddrRows[r][c])
        /\ OpRows[r][c] = "jsr" <=> r = 3 /\ c = 1
        /\ OpRows[r][c] = "jmp" /\ AddrRows[r][c] = "ABSO" <=> r = 5 /\ c = 13
    BY Rows, Zenon DEF Fits
  <1>5. GoesWith(optable(o), addrtable(o))
    BY <1>2, <1>4, Zenon
  <1>q. QED BY <1>2, <1>3, <1>4, <1>5

-----------------------------------------------------------------------------
(* What a turn of the loop does, by the kind of its handler.               *)
ReadsOperand == Get("OPCODE") /\ Same

Decimal ==
  \/ At("OP0") /\ ~status.d /\ Get("OPCODE") /\ Same
  \/ At("OP0") /\ status.d /\ Get("OP1") /\ Same
  \/ ~At("OP0") /\ Idle("OPCODE") /\ Same

OpShape ==
  \/ Handler \in ReadOps \ {"adc", "sbc"} /\ ReadsOperand
  \/ Handler \in {"adc", "sbc"} /\ Decimal
  \/ Handler \in Shifts /\ (ModifyAccumulator \/ (Mode # "ACC" /\ ModifyMemory))
  \/ Handler \in BitOps /\ ModifyMemory
  \/ Handler \in {"inc", "dec"} /\ inc
  \/ Handler = "sta" /\ Store(Indexed)
  \/ Handler \in {"stx", "sty", "stz"} /\ Store({"ABSX", "ABSY"})
  \/ Handler \in {"bxx", "bbr", "bbs"} /\ Branch
  \/ Handler = "bra" /\ bra
  \/ Handler \in Registers \cup {"nop"} /\ Idle("OPCODE") /\ Same
  \/ Handler \in FlagOps /\ Idle("OPCODE") /\ \E s \in Status : SetStatus(s)
  \/ Handler = "txs" /\ txs
  \/ Handler = "jmp" /\ jmp
  \/ Handler = "jsr" /\ jsr
  \/ Handler = "rts" /\ rts
  \/ Handler = "rti" /\ rti
  \/ Handler = "ph_" /\ ph_
  \/ Handler = "pl_" /\ pl_
  \/ Handler = "brk" /\ brk

LEMMA OpShapes ==
  ASSUME status \in Status, optable_handlers
  PROVE  OpShape
  <1>1. CASE \/ (Handler = "and" /\ and) \/ (Handler = "bit" /\ bit) \/ (Handler = "cmp" /\ cmp)
             \/ (Handler = "cpx" /\ cpx) \/ (Handler = "cpy" /\ cpy) \/ (Handler = "eor" /\ eor)
             \/ (Handler = "lda" /\ lda) \/ (Handler = "ldx" /\ ldx) \/ (Handler = "ldy" /\ ldy)
             \/ (Handler = "ora" /\ ora)
    BY <1>1 DEF OpShape, ReadOps, ReadsOperand, and, bit, cmp, cpx, cpy, eor, lda, ldx, ldy, ora
  <1>2. CASE \/ (Handler = "adc" /\ adc) \/ (Handler = "sbc" /\ sbc)
    BY <1>2 DEF OpShape, Decimal, adc, sbc
  <1>3. CASE \/ (Handler = "asl" /\ asl) \/ (Handler = "lsr" /\ lsr) \/ (Handler = "rol" /\ rol)
             \/ (Handler = "ror" /\ ror)
    BY <1>3 DEF OpShape, Shifts, asl, lsr, rol, ror
  <1>4. CASE \/ (Handler = "rmb" /\ rmb) \/ (Handler = "smb" /\ smb) \/ (Handler = "trb" /\ trb)
             \/ (Handler = "tsb" /\ tsb)
    BY <1>4 DEF OpShape, BitOps, rmb, smb, trb, tsb
  <1>5. CASE \/ (Handler = "dec" /\ dec) \/ (Handler = "inc" /\ inc)
    BY <1>5 DEF OpShape, dec, inc
  <1>6. CASE \/ (Handler = "sta" /\ sta) \/ (Handler = "stx" /\ stx) \/ (Handler = "sty" /\ sty)
             \/ (Handler = "stz" /\ stz)
    BY <1>6 DEF OpShape, sta, stx, sty, stz, Indexed
  <1>7. CASE \/ (Handler = "bxx" /\ bxx) \/ (Handler = "bbr" /\ bbr) \/ (Handler = "bbs" /\ bbs)
    BY <1>7 DEF OpShape, bxx, bbr, bbs
  <1>8. CASE \/ (Handler = "clc" /\ clc) \/ (Handler = "clv" /\ clv) \/ (Handler = "sec" /\ sec)
             \/ (Handler = "dex" /\ dex) \/ (Handler = "dey" /\ dey) \/ (Handler = "inx" /\ inx)
             \/ (Handler = "iny" /\ iny) \/ (Handler = "nop" /\ nop) \/ (Handler = "tax" /\ tax)
             \/ (Handler = "tay" /\ tay) \/ (Handler = "tsx" /\ tsx) \/ (Handler = "txa" /\ txa)
             \/ (Handler = "tya" /\ tya) \/ (Handler = "wai" /\ wai)
    BY <1>8 DEF OpShape, Registers, clc, clv, sec, dex, dey, inx, iny, nop, tax, tay, tsx, txa, tya,
               wai
  <1>9. CASE \/ (Handler = "cld" /\ cld) \/ (Handler = "cli" /\ cli) \/ (Handler = "sed" /\ sed)
             \/ (Handler = "sei" /\ sei)
    <2>1. \A c \in BOOLEAN : [status EXCEPT !.d = c] \in Status /\ [status EXCEPT !.i = c] \in Status
      BY DEF Status
    <2>2. Handler \in FlagOps
      BY <1>9 DEF FlagOps
    <2>3. Idle("OPCODE") /\ \E s \in Status : SetStatus(s)
      BY <1>9, <2>1 DEF cld, cli, sed, sei
    <2>q. QED BY <2>2, <2>3 DEF OpShape
  <1>10. CASE \/ (Handler = "txs" /\ txs) \/ (Handler = "jmp" /\ jmp) \/ (Handler = "jsr" /\ jsr)
             \/ (Handler = "rts" /\ rts) \/ (Handler = "rti" /\ rti) \/ (Handler = "ph_" /\ ph_)
             \/ (Handler = "pl_" /\ pl_) \/ (Handler = "brk" /\ brk) \/ (Handler = "bra" /\ bra)
    BY <1>10 DEF OpShape
  <1>q. QED BY <1>1, <1>2, <1>3, <1>4, <1>5, <1>6, <1>7, <1>8, <1>9, <1>10 DEF optable_handlers

-----------------------------------------------------------------------------
(* The type invariant.  A tick that is to fetch has work to do.             *)
PushedItem == [byte : Byte, role : Role, pc : Address, status : Status]

RegsTyped ==
  /\ pc \in Address /\ sp \in Byte /\ status \in Status
  /\ stack \in [Byte -> Byte]
  /\ page \in BOOLEAN /\ vecSrc \in Source /\ tmpval \in Byte
  /\ pushed \in Seq(PushedItem)
  /\ expect \in [known : BOOLEAN, pc : Address, status : Status]

InstrTyped ==
  /\ opcode \in Opcode /\ pos \in Nat /\ ints \in Nat
  /\ run \in [kind : {"instr", "int"}, at : Address, stale : BOOLEAN,
              cross : BOOLEAN, cond : BOOLEAN]

MovesTyped ==
  /\ opState \in OpState /\ consumed \in BOOLEAN
  /\ accesses \in Nat /\ cycles \in Nat

PinsTyped == irq \in BOOLEAN /\ rdy \in BOOLEAN /\ nmiPending \in BOOLEAN

FetchHasWork == Turn /\ At("OPCODE") => HasWork

Typed == RegsTyped /\ InstrTyped /\ MovesTyped /\ PinsTyped /\ inTick \in BOOLEAN

LEMMA TypedIs == Typed <=> TypeOK
  BY DEF Typed, RegsTyped, InstrTyped, MovesTyped, PinsTyped, TypeOK, PushedItem

Moves(next) == Read(next) \/ Write(next) \/ Peek(next) \/ Idle(next) \/ Skip(next)

LEMMA MovesAre ==
  ASSUME MovesTyped, NEW next \in OpState, Moves(next)
  PROVE  MovesTyped' /\ opState' = next
  <1>1. cycles \in Nat /\ accesses \in Nat
    BY DEF MovesTyped
  <1>2. PICK mc \in BOOLEAN : Advance(next, mc)
    BY DEF Moves, Read, Write, Peek, Idle, Skip
  <1>3. Bit(mc) \in 0 .. 1
    BY DEF Bit
  <1>4. opState' = next /\ consumed' \in BOOLEAN /\ cycles' \in Nat
    BY <1>1, <1>2, <1>3 DEF Advance
  <1>5. accesses' \in Nat
    <2>1. accesses' = accesses + 1 \/ accesses' = accesses
      BY DEF Moves, Read, Write, Peek, Idle, Skip, Advance
    <2>q. QED BY <1>1, <2>1
  <1>q. QED BY <1>4, <1>5 DEF MovesTyped

LEMMA AddressMoves ==
  ASSUME MovesTyped, addr_handlers, At("PARAM0") \/ At("PARAM1") \/ At("PARAM2") \/ At("PARAM3") \/ At("PARAM4")
  PROVE  /\ \E next \in {"PARAM1", "PARAM2", "PARAM3", "PARAM4", "OP0"} : Moves(next)
         /\ Same \/ NextPc \/ CrossPage
  BY DEF addr_handlers, imp, acc, imm, zp, zpx, zpy, rel, abso, absx, absy, ind, indx, indy, indz,
         abin, zprel, Moves

LEMMA OpMoves ==
  ASSUME OpShape
  PROVE  \/ \E next \in {"OP1", "OP2", "OP3", "OP4", "VEC2"} : Moves(next)
         \/ Moves("OPCODE") /\ consumed'
  <1>1. CASE Handler \in ReadOps \ {"adc", "sbc"} /\ ReadsOperand
    BY <1>1 DEF ReadsOperand, Get, Moves, Read, Idle, Advance
  <1>2. CASE Decimal
    BY <1>2 DEF Decimal, Get, Moves, Read, Idle, Advance
  <1>3. CASE ModifyAccumulator \/ ModifyMemory
    BY <1>3 DEF ModifyAccumulator, ModifyMemory, Put, Moves, Write, Read, Idle, Advance
  <1>4. CASE inc
    BY <1>4 DEF inc, Get, Put, Moves, Write, Read, Idle, Advance
  <1>5. CASE \E modes : Store(modes)
    BY <1>5 DEF Store, Put, Moves, Write, Read, Idle, Advance
  <1>6. CASE Branch \/ bra
    BY <1>6 DEF Branch, bra, BranchTaken, Moves, Read, Idle, Advance
  <1>7. CASE Idle("OPCODE")
    BY <1>7 DEF Moves, Idle, Advance
  <1>8. CASE txs \/ jmp \/ brk
    BY <1>8 DEF txs, jmp, brk, Moves, Idle, Advance
  <1>9. CASE jsr \/ rts
    BY <1>9 DEF jsr, rts, Moves, Write, Read, Idle, Advance
  <1>10. CASE rti \/ ph_ \/ pl_
    BY <1>10 DEF rti, ph_, pl_, Moves, Write, Read, Idle, Advance
  <1>q. QED BY <1>1, <1>2, <1>3, <1>4, <1>5, <1>6, <1>7, <1>8, <1>9, <1>10 DEF OpShape

LEMMA VectorMoves ==
  ASSUME vector
  PROVE  \/ \E next \in {"VEC1", "VEC2", "VEC3", "VEC4", "VEC5", "VEC6"} : Moves(next)
         \/ Moves("OPCODE") /\ consumed'
  BY DEF vector, Moves, Write, Read, Advance

(* The registers.                                                           *)
LEMMA SmallRegs ==
  ASSUME RegsTyped,
         \/ Same \/ CrossPage
         \/ \E a \in Address : SetPc(a)
         \/ \E s \in Status : SetStatus(s)
  PROVE  RegsTyped'
  BY DEF RegsTyped, Same, regs, CrossPage, SetPc, SetStatus

LEMMA NextPcTyped == ASSUME RegsTyped, NextPc PROVE \E a \in Address : SetPc(a)
  BY PlusIs DEF RegsTyped, NextPc

LEMMA JumpTyped == ASSUME Jump PROVE \E a \in Address : SetPc(a)
  <1>1. Targets \subseteq Address
    BY CpuAssumption, Zenon
  <1>q. QED BY <1>1 DEF Jump

LEMMA PushTyped ==
  ASSUME RegsTyped, NEW v \in Byte, NEW item \in PushedItem, Push(v, item)
  PROVE  sp' \in Byte /\ stack' \in [Byte -> Byte] /\ pushed' \in Seq(PushedItem)
  <1>1. sp' \in Byte
    <2>1. sp + ByteSize - 1 \in Nat
      BY Sizes DEF RegsTyped, Byte
    <2>q. QED BY <2>1, Rest DEF Push
  <1>2. stack' \in [Byte -> Byte]
    BY DEF Push, RegsTyped
  <1>3. pushed \in Seq(PushedItem) /\ Len(pushed) \in Nat
    BY DEF RegsTyped
  <1>4. CASE Len(pushed) < ByteSize
    BY <1>1, <1>2, <1>3, <1>4 DEF Push
  <1>5. CASE ~(Len(pushed) < ByteSize)
    <2>1. pushed # <<>>
      BY <1>3, <1>5, Sizes
    <2>2. Tail(pushed) \in Seq(PushedItem)
      BY <1>3, <2>1
    <2>q. QED BY <1>1, <1>2, <1>5, <2>2 DEF Push
  <1>q. QED BY <1>1, <1>2, <1>4, <1>5

LEMMA PullTyped ==
  ASSUME RegsTyped, Pull
  PROVE  sp' \in Byte /\ stack' = stack /\ pushed' \in Seq(PushedItem) /\ Pulled \in Byte
  <1>1. sp + 1 \in Nat /\ pushed \in Seq(PushedItem) /\ stack \in [Byte -> Byte]
    BY Sizes DEF RegsTyped, Byte
  <1>2. (sp + 1) % ByteSize \in Byte
    BY <1>1, Rest
  <1>3. pushed' \in Seq(PushedItem)
    <2>1. CASE pushed = <<>>
      BY <2>1 DEF Pull
    <2>2. CASE pushed # <<>>
      <3>1. Len(pushed) \in Nat /\ \A i \in 1 .. Len(pushed) - 1 : pushed[i] \in PushedItem
        BY <1>1
      <3>2. SubSeq(pushed, 1, Len(pushed) - 1) \in Seq(PushedItem)
        BY <3>1, SubSeqProperties
      <3>q. QED BY <2>2, <3>2 DEF Pull
    <2>q. QED BY <2>1, <2>2
  <1>q. QED BY <1>1, <1>2, <1>3 DEF Pull, Pulled

LEMMA OpRegs ==
  ASSUME RegsTyped, InstrTyped, OpShape
  PROVE  RegsTyped'
  <1>0. /\ pc \in Address /\ sp \in Byte /\ status \in Status
        /\ page \in BOOLEAN /\ vecSrc \in Source /\ tmpval \in Byte
        /\ expect \in [known : BOOLEAN, pc : Address, status : Status]
        /\ run.at \in Address
    BY DEF RegsTyped, InstrTyped
  <1>1. Data \subseteq Byte
    BY CpuAssumption, Zenon
  <1>2. CASE Same \/ (\E s \in Status : SetStatus(s)) \/ Jump \/ NextPc
    BY <1>2, SmallRegs, NextPcTyped, JumpTyped
  <1>3. CASE txs
    BY <1>1, <1>3 DEF txs, RegsTyped
  <1>4. CASE brk
    BY <1>4 DEF brk, RegsTyped, Source
  <1>5. ASSUME NEW v \in Byte, NEW role \in Role, NEW to \in Address, NEW st \in Status,
               Push(v, Item(v, role, to, st)), KeepButStack
        PROVE  RegsTyped'
    <2>1. Item(v, role, to, st) \in PushedItem
      BY DEF Item, PushedItem
    <2>2. sp' \in Byte /\ stack' \in [Byte -> Byte] /\ pushed' \in Seq(PushedItem)
      BY <1>5, <2>1, PushTyped
    <2>q. QED BY <1>0, <1>5, <2>2 DEF KeepButStack, RegsTyped
  <1>6. CASE jsr
    <2>1. Hi(pc) \in Byte /\ Lo(pc) \in Byte /\ Plus(run.at, 3) \in Address
      BY <1>0, Bytes, PlusIs
    <2>2. "jsrHi" \in Role /\ "jsrLo" \in Role
      BY DEF Role
    <2>3. \/ Same \/ NextPc \/ Jump
          \/ KeepButStack /\ Push(Hi(pc), Item(Hi(pc), "jsrHi", Plus(run.at, 3), status))
          \/ KeepButStack /\ Push(Lo(pc), Item(Lo(pc), "jsrLo", Plus(run.at, 3), status))
      BY <1>6 DEF jsr
    <2>q. QED BY <1>0, <1>2, <1>5, <2>1, <2>2, <2>3
  <1>7. CASE ph_
    <2>1. StatusByte(status, TRUE) \in Byte /\ 0 \in Address /\ "data" \in Role
      <3>1. StatusByte(status, TRUE) \in Byte
        BY <1>0, StatusBytes
      <3>2. 0 \in Address
        BY Memory DEF Address
      <3>q. QED BY <3>1, <3>2 DEF Role
    <2>2. \/ Same
          \/ KeepButStack /\ \E v \in Data \cup {StatusByte(status, TRUE)} :
                               Push(v, Item(v, "data", 0, status))
      BY <1>7 DEF ph_
    <2>3. Data \cup {StatusByte(status, TRUE)} \subseteq Byte
      BY <1>1, <2>1
    <2>q. QED BY <1>0, <1>2, <1>5, <2>1, <2>2, <2>3
  <1>8. ASSUME Pull PROVE /\ sp' \in Byte /\ stack' \in [Byte -> Byte]
                          /\ pushed' \in Seq(PushedItem) /\ Pulled \in Byte
    BY <1>8, PullTyped DEF RegsTyped
  <1>9. ASSUME NEW known, ExpectReturn(known), known => Len(pushed) > 0
        PROVE  expect' \in [known : BOOLEAN, pc : Address, status : Status]
    <2>1. NoReturn \in [known : BOOLEAN, pc : Address, status : Status]
      BY StatusOfByte, Memory DEF NoReturn, Address
    <2>2. ASSUME known PROVE pushed[Len(pushed)] \in PushedItem
      BY <1>9, <2>2 DEF RegsTyped
    <2>q. QED BY <1>9, <2>1, <2>2 DEF ExpectReturn, PushedItem
  <1>10. \A n \in Nat, role \in {"jsrLo", "intSt"} : TopRole(n) = role => Len(pushed) > 0
    BY DEF TopRole, RegsTyped
  <1>11. ASSUME PullLo, expect' \in [known : BOOLEAN, pc : Address, status : Status]
         PROVE  RegsTyped'
    <2>1. Pull /\ tmpval' = Pulled /\ pc' = pc /\ status' = status /\ page' = page /\ vecSrc' = vecSrc
      BY <1>11 DEF PullLo
    <2>q. QED BY <1>0, <1>8, <1>11, <2>1 DEF RegsTyped
  <1>12. ASSUME PullHi PROVE RegsTyped'
    <2>1. /\ Pull /\ pc' = tmpval + ByteSize * Pulled /\ status' = status /\ page' = page
          /\ vecSrc' = vecSrc /\ tmpval' = tmpval /\ expect' = expect
      BY <1>12 DEF PullHi
    <2>2. pc' \in Address
      BY <1>0, <1>8, <2>1, Joined
    <2>q. QED BY <1>0, <1>8, <2>1, <2>2 DEF RegsTyped
  <1>13. CASE rts
    <2>1. \/ Same \/ NextPc \/ PullHi
          \/ PullLo /\ ExpectReturn(TopRole(0) = "jsrLo" /\ TopRole(1) = "jsrHi")
      BY <1>13 DEF rts
    <2>q. QED BY <1>2, <1>9, <1>10, <1>11, <1>12, <2>1
  <1>14. CASE rti
    <2>1. \/ Same \/ PullHi \/ (PullLo /\ UNCHANGED expect)
          \/ /\ Pull /\ status' = ByteStatus(Pulled) /\ UNCHANGED <<pc, page, vecSrc, tmpval>>
             /\ ExpectReturn(TopRole(0) = "intSt" /\ TopRole(1) = "intLo" /\ TopRole(2) = "intHi")
      <3> DEFINE whole == TopRole(0) = "intSt" /\ TopRole(1) = "intLo" /\ TopRole(2) = "intHi"
      <3>1. \/ At("OP0") /\ Idle("OP1") /\ Same
            \/ At("OP1") /\ Read("OP2") /\ Same
            \/ /\ At("OP2") /\ Read("OP3") /\ Pull
               /\ status' = ByteStatus(Pulled)
               /\ ExpectReturn(whole)
               /\ UNCHANGED <<pc, page, vecSrc, tmpval>>
            \/ At("OP3") /\ Read("OP4") /\ PullLo /\ UNCHANGED expect
            \/ At("OP4") /\ Read("OPCODE") /\ PullHi
        BY <1>14, Zenon DEF rti
      <3> HIDE DEF whole
      <3>2. \/ Same \/ PullHi \/ (PullLo /\ UNCHANGED expect)
            \/ /\ Pull /\ status' = ByteStatus(Pulled) /\ UNCHANGED <<pc, page, vecSrc, tmpval>>
               /\ ExpectReturn(whole)
        BY <3>1, Zenon
      <3>q. QED BY <3>2, Zenon DEF whole
    <2>2. CASE /\ Pull /\ status' = ByteStatus(Pulled) /\ UNCHANGED <<pc, page, vecSrc, tmpval>>
               /\ ExpectReturn(TopRole(0) = "intSt" /\ TopRole(1) = "intLo" /\ TopRole(2) = "intHi")
      <3>1. expect' \in [known : BOOLEAN, pc : Address, status : Status]
        BY <1>9, <1>10, <2>2
      <3>q. QED BY <1>0, <1>8, <2>2, <3>1, StatusOfByte DEF RegsTyped
    <2>q. QED BY <1>0, <1>2, <1>11, <1>12, <2>1, <2>2
  <1>15. CASE pl_
    <2>1. \/ Same
          \/ /\ Pull /\ status' \in {ByteStatus(Pulled), status}
             /\ UNCHANGED <<pc, page, vecSrc, tmpval, expect>>
      BY <1>15 DEF pl_
    <2>2. status' \in {ByteStatus(Pulled), status} => status' \in Status
      BY <1>0, StatusOfByte
    <2>q. QED BY <1>0, <1>2, <1>8, <2>1, <2>2 DEF RegsTyped
  <1>16. \/ Same \/ (\E s \in Status : SetStatus(s)) \/ Jump
         \/ txs \/ brk \/ jsr \/ ph_ \/ rts \/ rti \/ pl_
    BY DEF OpShape, ReadsOperand, Decimal, ModifyAccumulator, ModifyMemory, inc, Store,
           Branch, bra, BranchTaken, jmp
  <1>q. QED BY <1>2, <1>3, <1>4, <1>6, <1>7, <1>13, <1>14, <1>15, <1>16

LEMMA FrameTyped ==
  ASSUME RegsTyped, InstrTyped, NEW v \in Byte, NEW role \in {"intHi", "intLo", "intSt"}
  PROVE  Frame(v, role) \in PushedItem
  <1>1. Resume \in Address
    BY PlusIs DEF Resume, InstrTyped
  <1>2. (IF vecSrc = "RST" THEN "data" ELSE role) \in Role
    BY DEF Role
  <1>q. QED BY <1>1, <1>2 DEF Frame, Item, PushedItem, RegsTyped

LEMMA VectorRegs ==
  ASSUME RegsTyped, InstrTyped, vector
  PROVE  RegsTyped'
  <1>0. /\ pc \in Address /\ sp \in Byte /\ status \in Status
        /\ page \in BOOLEAN /\ vecSrc \in Source /\ tmpval \in Byte
        /\ expect \in [known : BOOLEAN, pc : Address, status : Status]
    BY DEF RegsTyped
  <1>1. ASSUME NEW v \in Byte, NEW role \in {"intHi", "intLo", "intSt"}, Push(v, Frame(v, role))
        PROVE  sp' \in Byte /\ stack' \in [Byte -> Byte] /\ pushed' \in Seq(PushedItem)
    BY <1>1, FrameTyped, PushTyped
  <1>2. CASE Same
    BY <1>2, SmallRegs
  <1>3. CASE KeepButStack /\ \E v \in Byte, role \in {"intHi", "intLo"} : Push(v, Frame(v, role))
    BY <1>0, <1>1, <1>3 DEF KeepButStack, RegsTyped
  <1>4. CASE /\ Push(StatusByte(status, vecSrc = "BRK"), Frame(StatusByte(status, vecSrc = "BRK"), "intSt"))
             /\ status' = [status EXCEPT !.i = TRUE, !.d = @ /\ vecSrc # "RST"]
             /\ UNCHANGED <<pc, page, vecSrc, tmpval, expect>>
    <2>1. StatusByte(status, vecSrc = "BRK") \in Byte
      <3>1. (vecSrc = "BRK") \in BOOLEAN
        OBVIOUS
      <3>q. QED BY <1>0, <3>1, StatusBytes
    <2>2. sp' \in Byte /\ stack' \in [Byte -> Byte] /\ pushed' \in Seq(PushedItem)
      BY <1>1, <1>4, <2>1
    <2>3. status' \in Status
      <3>1. (status.d /\ vecSrc # "RST") \in BOOLEAN
        OBVIOUS
      <3>2. status' = [status EXCEPT !.i = TRUE, !.d = (status.d /\ vecSrc # "RST")]
        BY <1>4
      <3>q. QED BY <1>0, <3>1, <3>2 DEF Status
    <2>q. QED BY <1>0, <1>4, <2>2, <2>3 DEF RegsTyped
  <1>5. CASE \E s \in {"IRQ", "NMI", "RST"} : SetPc(Vectors[s])
    <2>1. Vectors \in [{"IRQ", "NMI", "RST"} -> Address]
      BY CpuAssumption, Zenon
    <2>2. \E a \in Address : SetPc(a)
      BY <1>5, <2>1
    <2>q. QED BY <2>2, SmallRegs
  <1>6. CASE At("VEC2") \/ At("VEC3")
    <2>1. Hi(pc) \in Byte /\ Lo(pc) \in Byte
      BY <1>0, Bytes
    <2>2. KeepButStack /\ (Push(Hi(pc), Frame(Hi(pc), "intHi")) \/ Push(Lo(pc), Frame(Lo(pc), "intLo")))
      BY <1>6 DEF vector, At
    <2>q. QED BY <1>3, <2>1, <2>2
  <1>7. CASE At("VEC4")
    BY <1>4, <1>7 DEF vector, At
  <1>8. CASE At("VEC6")
    <2>1. SetPc(Vectors[IF vecSrc = "BRK" THEN "IRQ" ELSE vecSrc])
      BY <1>8 DEF vector, At
    <2>2. (IF vecSrc = "BRK" THEN "IRQ" ELSE vecSrc) \in {"IRQ", "NMI", "RST"}
      BY <1>0 DEF Source
    <2>q. QED BY <1>5, <2>1, <2>2
  <1>q. QED BY <1>2, <1>6, <1>7, <1>8 DEF vector

-----------------------------------------------------------------------------
(* The steps.                                                              *)
LEMMA AddressTurnTyped ==
  ASSUME Typed, AddressTurn
  PROVE  Typed' /\ opState' # "OPCODE"
  <1>1. /\ \E next \in {"PARAM1", "PARAM2", "PARAM3", "PARAM4", "OP0"} : Moves(next)
        /\ Same \/ NextPc \/ CrossPage
    BY AddressMoves DEF AddressTurn, Typed, At
  <1>2. MovesTyped' /\ opState' # "OPCODE"
    BY <1>1, MovesAre DEF OpState, Typed
  <1>3. RegsTyped'
    BY <1>1, NextPcTyped, SmallRegs DEF Typed
  <1>4. UNCHANGED <<instr, inTick, pins>>
    BY DEF AddressTurn
  <1>q. QED BY <1>2, <1>3, <1>4 DEF Typed, InstrTyped, PinsTyped, instr, pins

LEMMA OpTurnTyped ==
  ASSUME Typed, OpTurn
  PROVE  Typed' /\ (opState' = "OPCODE" => consumed')
  <1>1. OpShape
    BY OpShapes DEF OpTurn, Typed, RegsTyped
  <1>2. \/ \E next \in {"OP1", "OP2", "OP3", "OP4", "VEC2"} : Moves(next)
        \/ Moves("OPCODE") /\ consumed'
    BY <1>1, OpMoves
  <1>3. MovesTyped' /\ (opState' = "OPCODE" => consumed')
    BY <1>2, MovesAre DEF OpState, Typed
  <1>4. RegsTyped'
    BY <1>1, OpRegs DEF Typed
  <1>5. UNCHANGED <<instr, inTick, pins>>
    BY DEF OpTurn
  <1>q. QED BY <1>3, <1>4, <1>5 DEF Typed, InstrTyped, PinsTyped, instr, pins

LEMMA VectorTurnTyped ==
  ASSUME Typed, VectorTurn
  PROVE  Typed' /\ (opState' = "OPCODE" => consumed')
  <1>1. \/ \E next \in {"VEC1", "VEC2", "VEC3", "VEC4", "VEC5", "VEC6"} : Moves(next)
        \/ Moves("OPCODE") /\ consumed'
    BY VectorMoves DEF VectorTurn
  <1>2. MovesTyped' /\ (opState' = "OPCODE" => consumed')
    BY <1>1, MovesAre DEF OpState, Typed
  <1>3. RegsTyped'
    BY VectorRegs DEF Typed, VectorTurn
  <1>4. UNCHANGED <<instr, inTick, pins>>
    BY DEF VectorTurn
  <1>q. QED BY <1>2, <1>3, <1>4 DEF Typed, InstrTyped, PinsTyped, instr, pins

LEMMA InterruptTyped ==
  ASSUME Typed, TakeNmi \/ TakeIrq
  PROVE  Typed' /\ opState' # "OPCODE"
  <1>1. /\ \E src \in {"NMI", "IRQ"} : EnterVector(src)
        /\ nmiPending' \in {nmiPending, FALSE}
    BY DEF TakeNmi, TakeIrq
  <1>2. /\ vecSrc' \in Source /\ opState' = "VEC0" /\ cycles' = 0
        /\ run' = Begin("int", pc, FALSE, FALSE) /\ ints' = ints + 1 /\ expect' = NoReturn
        /\ UNCHANGED <<pc, sp, status, stack, page, tmpval, pushed, opcode, pos,
                       inTick, consumed, irq, rdy, accesses>>
    BY <1>1 DEF EnterVector, Source
  <1>3. RegsTyped'
    <2>1. NoReturn \in [known : BOOLEAN, pc : Address, status : Status]
      BY StatusOfByte, Memory DEF NoReturn, Address
    <2>q. QED BY <1>2, <2>1 DEF Typed, RegsTyped
  <1>4. InstrTyped'
    BY <1>2 DEF Typed, RegsTyped, InstrTyped, Begin
  <1>5. MovesTyped'
    BY <1>2 DEF Typed, MovesTyped, OpState
  <1>q. QED BY <1>1, <1>2, <1>3, <1>4, <1>5 DEF Typed, PinsTyped

LEMMA FetchTyped ==
  ASSUME Typed, FetchHasWork, FetchOpcode
  PROVE  Typed' /\ opState' # "OPCODE"
  <1>1. opcode' \in Opcode
    <2>1. pos < Len(Program)
      BY DEF FetchOpcode, FetchHasWork, HasWork
    <2>2. Program \in Seq(SUBSET Opcode)
      BY CpuAssumption, Zenon
    <2>3. pos + 1 \in 1 .. Len(Program)
      BY <2>1, <2>2 DEF Typed, InstrTyped
    <2>4. Program[pos + 1] \subseteq Opcode
      BY <2>2, <2>3
    <2>q. QED BY <2>4 DEF FetchOpcode
  <1>2. /\ pos' = pos + 1 /\ pc' = Plus(pc, 1) /\ opState' = "PARAM0" /\ consumed' = TRUE
        /\ cycles' = 1 /\ accesses' = accesses + 1 /\ expect' = NoReturn
        /\ UNCHANGED <<sp, status, stack, page, vecSrc, tmpval, pushed, ints, inTick, pins>>
    BY DEF FetchOpcode
  <1>3. PICK cross \in Draws, cond \in Draws : run' = Begin("instr", pc, cross, cond)
    BY DEF FetchOpcode
  <1>4. Draws \subseteq BOOLEAN
    BY CpuAssumption, Zenon
  <1>5. InstrTyped'
    BY <1>1, <1>2, <1>3, <1>4 DEF Typed, RegsTyped, InstrTyped, Begin
  <1>6. RegsTyped'
    <2>1. NoReturn \in [known : BOOLEAN, pc : Address, status : Status]
      BY StatusOfByte, Memory DEF NoReturn, Address
    <2>2. pc' \in Address
      BY <1>2, PlusIs DEF Typed, RegsTyped
    <2>q. QED BY <1>2, <2>1, <2>2 DEF Typed, RegsTyped
  <1>7. MovesTyped'
    BY <1>2 DEF Typed, MovesTyped, OpState
  <1>q. QED BY <1>2, <1>5, <1>6, <1>7 DEF Typed, PinsTyped, pins

LEMMA EdgeTyped ==
  ASSUME Typed, HeldTick \/ BeginTick \/ EndTick \/ DrivePins \/ UNCHANGED vars
  PROVE  Typed'
  <1>1. /\ UNCHANGED <<pc, sp, status, stack, page, vecSrc, tmpval, pushed, expect,
                       opcode, run, pos, ints, opState, cycles>>
        /\ inTick' \in {inTick, TRUE, FALSE} /\ consumed' \in {consumed, FALSE}
        /\ accesses' \in {accesses, 0, 1}
    BY DEF HeldTick, BeginTick, EndTick, DrivePins, vars, regs, instr
  <1>2. UNCHANGED <<irq, rdy, nmiPending>> \/ DrivePins
    BY DEF HeldTick, BeginTick, EndTick, vars, pins
  <1>3. PinsTyped'
    BY <1>2 DEF Typed, PinsTyped, DrivePins
  <1>4. RegsTyped'
    BY <1>1 DEF Typed, RegsTyped
  <1>5. InstrTyped'
    <2>1. opcode' = opcode /\ run' = run /\ pos' = pos /\ ints' = ints
      BY <1>1
    <2>2. InstrTyped
      BY DEF Typed
    <2>q. QED BY <2>1, <2>2 DEF InstrTyped
  <1>6. MovesTyped'
    <2>1. opState' = opState /\ cycles' = cycles
      BY <1>1
    <2>2. MovesTyped
      BY DEF Typed
    <2>3. consumed' = consumed \/ consumed' = FALSE
      BY <1>1
    <2>4. consumed' \in BOOLEAN
      BY <2>2, <2>3 DEF MovesTyped
    <2>5. accesses' = accesses \/ accesses' = 0 \/ accesses' = 1
      BY <1>1
    <2>6. accesses' \in Nat
      BY <2>2, <2>5 DEF MovesTyped
    <2>q. QED BY <2>1, <2>2, <2>4, <2>6 DEF MovesTyped
  <1>7. inTick' \in BOOLEAN
    BY <1>1 DEF Typed
  <1>q. QED BY <1>3, <1>4, <1>5, <1>6, <1>7 DEF Typed

LEMMA StepTyped ==
  ASSUME Typed, FetchHasWork, [Next]_vars
  PROVE  Typed' /\ FetchHasWork'
  <1>1. CASE AddressTurn
    BY <1>1, AddressTurnTyped DEF FetchHasWork, At
  <1>2. CASE OpTurn
    BY <1>2, OpTurnTyped DEF FetchHasWork, At, Turn
  <1>3. CASE VectorTurn
    BY <1>3, VectorTurnTyped DEF FetchHasWork, At, Turn
  <1>4. CASE TakeNmi \/ TakeIrq
    BY <1>4, InterruptTyped DEF FetchHasWork, At
  <1>5. CASE FetchOpcode
    BY <1>5, FetchTyped DEF FetchHasWork, At
  <1>6. CASE HeldTick \/ EndTick \/ DrivePins
    <2>1. ~Turn'
      BY <1>6 DEF HeldTick, EndTick, DrivePins, Turn
    <2>q. QED BY <1>6, <2>1, EdgeTyped DEF FetchHasWork
  <1>7. CASE BeginTick
    <2>1. HasWork' <=> HasWork
      BY <1>7 DEF BeginTick, HasWork, At, TakesInterrupt, TakesNmi, TakesIrq, regs, instr, pins
    <2>q. QED BY <1>7, <2>1, EdgeTyped DEF FetchHasWork, BeginTick
  <1>8. CASE UNCHANGED vars
    <2>1. FetchHasWork' <=> FetchHasWork
      BY <1>8 DEF vars, FetchHasWork, Turn, HasWork, At, TakesInterrupt, TakesNmi, TakesIrq,
                  regs, instr, pins
    <2>q. QED BY <1>8, <2>1, EdgeTyped
  <1>q. QED BY <1>1, <1>2, <1>3, <1>4, <1>5, <1>6, <1>7, <1>8 DEF Next, CpuStep

LEMMA InitTyped == Init => Typed /\ FetchHasWork
  <1> SUFFICES ASSUME Init PROVE Typed /\ FetchHasWork
    OBVIOUS
  <1>1. 0 \in Byte /\ 0 \in Address /\ 0 \in Opcode
    BY Sizes, Memory DEF Byte, Address, Opcode
  <1>2. NoReturn \in [known : BOOLEAN, pc : Address, status : Status]
    BY <1>1, StatusOfByte DEF NoReturn
  <1>3. RegsTyped
    BY <1>1, <1>2, StatusOfByte DEF Init, RegsTyped, Source
  <1>4. InstrTyped
    BY <1>1 DEF Init, InstrTyped
  <1>5. MovesTyped /\ PinsTyped /\ inTick = FALSE
    BY DEF Init, MovesTyped, PinsTyped, OpState
  <1>q. QED BY <1>3, <1>4, <1>5 DEF Typed, FetchHasWork, Turn

LEMMA AlwaysTyped == Spec => [](Typed /\ FetchHasWork)
  <1>1. Typed /\ FetchHasWork /\ [Next]_vars => (Typed /\ FetchHasWork)'
    BY StepTyped
  <1>q. QED BY <1>1, InitTyped, PTL DEF Spec

(* The type invariant holds.                                               *)
THEOREM Typing == Spec => []TypeOK
  <1>1. Typed => TypeOK
    BY TypedIs
  <1>q. QED BY <1>1, AlwaysTyped, PTL

-----------------------------------------------------------------------------
(* The stack: what is on page 1 above sp is what was pushed.               *)
LEMMA PushKeepsLifo ==
  ASSUME RegsTyped, StackIsLifo,
         NEW v \in Byte, NEW item \in PushedItem, item.byte = v, Push(v, item)
  PROVE  StackIsLifo'
  <1> DEFINE n == Len(pushed)
             m == Len(pushed')
  <1>1. /\ sp \in 0 .. ByteSize - 1 /\ ByteSize \in Nat /\ ByteSize >= 8
        /\ pushed \in Seq(PushedItem) /\ n \in Nat /\ n <= ByteSize
        /\ stack \in [Byte -> Byte]
    BY Sizes DEF RegsTyped, Byte, StackIsLifo
  <1>2. /\ stack' = [stack EXCEPT ![sp] = v]
        /\ sp' = IF sp = 0 THEN ByteSize - 1 ELSE sp - 1
    <2>1. (sp + ByteSize - 1) % ByteSize = IF sp = 0 THEN ByteSize - 1 ELSE sp - 1
      <3>1. sp + ByteSize - 1 \in Nat /\ sp + ByteSize - 1 < 2 * ByteSize /\ ByteSize > 0
        BY <1>1
      <3>2. (sp + ByteSize - 1) % ByteSize = IF sp + ByteSize - 1 < ByteSize
                                            THEN sp + ByteSize - 1 ELSE sp + ByteSize - 1 - ByteSize
        BY <1>1, <3>1, Modulo
      <3>q. QED BY <1>1, <3>2
    <2>q. QED BY <2>1 DEF Push
  <1>3. /\ m <= ByteSize /\ m \in Nat \ {0}
        /\ pushed'[m] = item
        /\ \A j \in 1 .. m - 1 : pushed'[m - j] = pushed[n + 1 - j] /\ j <= n
    <2>1. CASE n < ByteSize
      <3>1. pushed' = Append(pushed, item) /\ m = n + 1
        BY <1>1, <2>1 DEF Push
      <3>q. QED BY <1>1, <2>1, <3>1
    <2>2. CASE n = ByteSize
      <3>1. pushed' = Append(Tail(pushed), item)
        BY <1>1, <2>2 DEF Push
      <3>2. pushed # <<>>
        BY <1>1, <2>2
      <3>3. /\ Tail(pushed) \in Seq(PushedItem) /\ Len(Tail(pushed)) = n - 1
            /\ \A i \in 1 .. n - 1 : Tail(pushed)[i] = pushed[i + 1]
        BY <1>1, <3>2
      <3>4. m = n /\ pushed'[m] = item /\ \A i \in 1 .. n - 1 : pushed'[i] = pushed[i + 1]
        BY <1>1, <2>2, <3>1, <3>3
      <3>q. QED BY <1>1, <2>2, <3>4
    <2>q. QED BY <1>1, <2>1, <2>2
  <1> HIDE DEF n, m
  <1>4. ASSUME NEW k \in 1 .. m
        PROVE  stack'[(sp' + k) % ByteSize] = pushed'[m + 1 - k].byte
    <2>1. k \in Nat /\ k >= 1 /\ k <= m /\ k <= ByteSize
      BY <1>1, <1>3
    <2>2. sp' \in Byte /\ k \in 0 .. ByteSize
      BY <1>1, <1>2, <2>1 DEF Byte
    <2>3. (sp' + k) % ByteSize = IF sp' + k < ByteSize THEN sp' + k ELSE sp' + k - ByteSize
      BY <2>2, Around
    <2>4. CASE k = 1
      <3>1. (sp' + k) % ByteSize = sp
        BY <1>1, <1>2, <2>3, <2>4
      <3>2. stack'[sp] = v
        BY <1>1, <1>2 DEF Byte
      <3>3. m + 1 - k = m
        BY <1>3, <2>4
      <3>q. QED BY <1>3, <3>1, <3>2, <3>3
    <2>5. CASE k > 1
      <3> DEFINE j == k - 1
      <3>1. j \in 1 .. m - 1 /\ m + 1 - k = m - j /\ k = j + 1
        BY <1>3, <2>1, <2>5
      <3> HIDE DEF j
      <3>a. pushed'[m - j] = pushed[n + 1 - j] /\ j <= n
        BY <1>3, <3>1
      <3>b. j \in Int /\ j >= 1
        BY <1>3, <3>1
      <3>2. pushed'[m - j] = pushed[n + 1 - j] /\ j \in 1 .. n /\ j <= ByteSize - 1
        BY <1>1, <2>1, <3>1, <3>a, <3>b
      <3>3. stack[(sp + j) % ByteSize] = pushed[n + 1 - j].byte
        BY <3>2 DEF StackIsLifo, n
      <3>4. (sp + j) % ByteSize = IF sp + j < ByteSize THEN sp + j ELSE sp + j - ByteSize
        BY <1>1, <3>2, Around DEF Byte
      <3>c. /\ sp \in Int /\ 0 <= sp /\ sp < ByteSize /\ ByteSize \in Int
            /\ j \in Int /\ 1 <= j /\ j < ByteSize /\ k = j + 1
        BY <1>1, <3>1, <3>2, <3>b
      <3> DEFINE old == (sp + j) % ByteSize
                 new == (sp' + k) % ByteSize
      <3>d. old = IF sp + j < ByteSize THEN sp + j ELSE sp + j - ByteSize
        BY <3>4
      <3>e. new = IF sp' + k < ByteSize THEN sp' + k ELSE sp' + k - ByteSize
        BY <2>3
      <3> HIDE DEF old, new
      <3>f. new = old
        BY <1>2, <3>c, <3>d, <3>e
      <3>g. old # sp
        BY <3>c, <3>d
      <3>5. (sp' + k) % ByteSize = (sp + j) % ByteSize /\ (sp + j) % ByteSize # sp
        BY <3>f, <3>g DEF old, new
      <3>6. stack'[(sp + j) % ByteSize] = stack[(sp + j) % ByteSize]
        <4>1. (sp + j) % ByteSize \in Byte
          BY <1>1, <3>2, <3>4 DEF Byte
        <4>q. QED BY <1>1, <1>2, <3>5, <4>1
      <3>q. QED BY <3>1, <3>2, <3>3, <3>5, <3>6
    <2>q. QED BY <2>1, <2>4, <2>5
  <1>q. QED BY <1>3, <1>4 DEF StackIsLifo, m

LEMMA PullKeepsLifo ==
  ASSUME RegsTyped, StackIsLifo, Pull
  PROVE  StackIsLifo'
  <1> DEFINE n == Len(pushed)
  <1>1. /\ sp \in 0 .. ByteSize - 1 /\ ByteSize \in Nat /\ ByteSize >= 8
        /\ pushed \in Seq(PushedItem) /\ n \in Nat /\ n <= ByteSize
    BY Sizes DEF RegsTyped, Byte, StackIsLifo
  <1>2. CASE pushed = <<>>
    <2>1. pushed' = <<>>
      BY <1>2 DEF Pull
    <2>2. Len(pushed') = 0
      BY <2>1
    <2>q. QED BY <1>1, <2>2 DEF StackIsLifo
  <1>3. CASE pushed # <<>>
    <2>1. pushed' = SubSeq(pushed, 1, n - 1) /\ stack' = stack /\ sp' = (sp + 1) % ByteSize
      BY <1>3 DEF Pull
    <2>2. n > 0 /\ \A i \in 1 .. n - 1 : pushed[i] \in PushedItem
      BY <1>1, <1>3
    <2>3. /\ Len(SubSeq(pushed, 1, n - 1)) = IF 1 <= n - 1 THEN n - 1 - 1 + 1 ELSE 0
          /\ \A i \in 1 .. n - 1 - 1 + 1 : SubSeq(pushed, 1, n - 1)[i] = pushed[1 + i - 1]
      BY <1>1, <2>2, SubSeqProperties
    <2>a. n - 1 - 1 + 1 = n - 1 /\ (\A i \in 1 .. n - 1 : 1 + i - 1 = i)
          /\ (IF 1 <= n - 1 THEN n - 1 ELSE 0) = n - 1
      <3> HIDE DEF n
      <3>1. n \in Nat /\ n >= 1
        BY <1>1, <2>2
      <3>q. QED BY <3>1
    <2>4. Len(pushed') = n - 1 /\ \A i \in 1 .. n - 1 : pushed'[i] = pushed[i]
      <3>1. Len(pushed') = n - 1
        BY <2>1, <2>3, <2>a
      <3>2. \A i \in 1 .. n - 1 : pushed'[i] = pushed[1 + i - 1]
        BY <2>1, <2>3, <2>a
      <3>3. \A i \in 1 .. n - 1 : pushed[1 + i - 1] = pushed[i]
        BY <2>a
      <3>q. QED BY <3>1, <3>2, <3>3
    <2>5. ASSUME NEW k \in 1 .. n - 1
          PROVE  stack'[(sp' + k) % ByteSize] = pushed'[n - k].byte
      <3>1. k + 1 \in 1 .. n /\ n - k \in 1 .. n - 1 /\ n + 1 - (k + 1) = n - k
        BY <1>1
      <3>2. stack[(sp + (k + 1)) % ByteSize] = pushed[n - k].byte
        BY <3>1 DEF StackIsLifo
      <3>3. sp' = IF sp + 1 < ByteSize THEN sp + 1 ELSE sp + 1 - ByteSize
        BY <1>1, <2>1, Around DEF Byte
      <3>4. sp' \in Byte /\ k \in 0 .. ByteSize /\ k + 1 \in 0 .. ByteSize
        BY <1>1, <3>3 DEF Byte
      <3>5. (sp' + k) % ByteSize = IF sp' + k < ByteSize THEN sp' + k ELSE sp' + k - ByteSize
        BY <3>4, Around
      <3>6. (sp + (k + 1)) % ByteSize =
              IF sp + (k + 1) < ByteSize THEN sp + (k + 1) ELSE sp + (k + 1) - ByteSize
        BY <1>1, <3>4, Around DEF Byte
      <3>7. (sp' + k) % ByteSize = (sp + (k + 1)) % ByteSize
        BY <1>1, <3>3, <3>5, <3>6
      <3>q. QED BY <2>1, <2>4, <3>1, <3>2, <3>7
    <2>6. \A k \in 1 .. Len(pushed') :
            stack'[(sp' + k) % ByteSize] = pushed'[Len(pushed') + 1 - k].byte
      <3>1. \A k \in 1 .. n - 1 : Len(pushed') + 1 - k = n - k
        BY <1>1, <2>4
      <3>q. QED BY <2>4, <2>5, <3>1
    <2>7. Len(pushed') <= ByteSize
      BY <1>1, <2>4
    <2>q. QED BY <2>6, <2>7 DEF StackIsLifo
  <1>q. QED BY <1>2, <1>3

(* Every step leaves the stack alone, pushes one byte, pulls one, or (TXS)  *)
(* forgets what was pushed.                                                *)
LEMMA StackSteps ==
  ASSUME Typed, [Next]_vars
  PROVE  \/ UNCHANGED <<sp, stack, pushed>>
         \/ \E v \in Byte, item \in PushedItem : item.byte = v /\ Push(v, item)
         \/ Pull
         \/ pushed' = <<>>
  <1>0. RegsTyped /\ InstrTyped /\ status \in Status
    BY DEF Typed, RegsTyped
  <1>1. CASE AddressTurn
    BY <1>1, AddressMoves DEF AddressTurn, At, Typed, Same, regs, NextPc, SetPc, CrossPage
  <1>2. CASE OpTurn
    <2>1. OpShape
      BY <1>0, <1>2, OpShapes DEF OpTurn
    <2>2. \/ Same \/ (\E s \in Status : SetStatus(s)) \/ Jump \/ NextPc
          \/ txs \/ brk \/ jsr \/ ph_ \/ rts \/ rti \/ pl_
      BY <2>1 DEF OpShape, ReadsOperand, Decimal, ModifyAccumulator, ModifyMemory, inc, Store,
           Branch, bra, BranchTaken, jmp
    <2>3. CASE Same \/ (\E s \in Status : SetStatus(s)) \/ Jump \/ NextPc
      BY <2>3 DEF Same, regs, SetStatus, Jump, NextPc, SetPc
    <2>4. CASE txs \/ brk
      BY <2>4 DEF txs, brk
    <2>5. CASE jsr
      <3>1. pc \in Address /\ run.at \in Address
        BY <1>0 DEF RegsTyped, InstrTyped
      <3>2. Hi(pc) \in Byte /\ Lo(pc) \in Byte /\ Plus(run.at, 3) \in Address
        BY <3>1, Bytes, PlusIs
      <3>3. \A v \in Byte, role \in {"jsrHi", "jsrLo"} :
              /\ Item(v, role, Plus(run.at, 3), status) \in PushedItem
              /\ Item(v, role, Plus(run.at, 3), status).byte = v
        BY <1>0, <3>2 DEF Item, PushedItem, Role
      <3>4. \/ Same \/ NextPc \/ Jump
            \/ Push(Hi(pc), Item(Hi(pc), "jsrHi", Plus(run.at, 3), status))
            \/ Push(Lo(pc), Item(Lo(pc), "jsrLo", Plus(run.at, 3), status))
        BY <2>5 DEF jsr
      <3>5. CASE Same \/ NextPc \/ Jump
        BY <3>5 DEF Same, regs, Jump, NextPc, SetPc
      <3>q. QED BY <3>2, <3>3, <3>4, <3>5
    <2>6. CASE ph_
      <3>1. Data \subseteq Byte
        BY CpuAssumption, Zenon
      <3>2. StatusByte(status, TRUE) \in Byte
        BY <1>0, StatusBytes
      <3>3. 0 \in Address
        BY Memory DEF Address
      <3>4. \A v \in Byte : Item(v, "data", 0, status) \in PushedItem
                            /\ Item(v, "data", 0, status).byte = v
        BY <1>0, <3>3 DEF Item, PushedItem, Role
      <3>5. Same \/ \E v \in Data \cup {StatusByte(status, TRUE)} : Push(v, Item(v, "data", 0, status))
        BY <2>6 DEF ph_
      <3>6. CASE Same
        BY <3>6 DEF Same, regs
      <3>q. QED BY <3>1, <3>2, <3>4, <3>5, <3>6
    <2>7. CASE rts \/ rti \/ pl_
      <3>1. Same \/ NextPc \/ Pull
        BY <2>7 DEF rts, rti, pl_, PullLo, PullHi
      <3>q. QED BY <3>1 DEF Same, regs, NextPc, SetPc
    <2>q. QED BY <2>2, <2>3, <2>4, <2>5, <2>6, <2>7
  <1>3. CASE VectorTurn
    <2>1. vector
      BY <1>3 DEF VectorTurn
    <2>2. Hi(pc) \in Byte /\ Lo(pc) \in Byte
      BY <1>0, Bytes DEF RegsTyped
    <2>3. StatusByte(status, vecSrc = "BRK") \in Byte
      BY <1>0, StatusBytes
    <2>4. \A v \in Byte, role \in {"intHi", "intLo", "intSt"} :
            Frame(v, role) \in PushedItem /\ Frame(v, role).byte = v
      BY <1>0, FrameTyped DEF Frame, Item
    <2>5. \/ Same
          \/ \E v \in Byte, role \in {"intHi", "intLo", "intSt"} : Push(v, Frame(v, role))
          \/ \E a : SetPc(a)
      BY <2>1, <2>2, <2>3 DEF vector
    <2>6. CASE Same \/ \E a : SetPc(a)
      BY <2>6 DEF Same, regs, SetPc
    <2>q. QED BY <2>4, <2>5, <2>6
  <1>4. CASE TakeNmi \/ TakeIrq \/ FetchOpcode
    BY <1>4 DEF TakeNmi, TakeIrq, FetchOpcode, EnterVector
  <1>5. CASE HeldTick \/ BeginTick \/ EndTick \/ DrivePins \/ UNCHANGED vars
    BY <1>5 DEF HeldTick, BeginTick, EndTick, DrivePins, vars, regs
  <1>q. QED BY <1>1, <1>2, <1>3, <1>4, <1>5 DEF Next, CpuStep

LEMMA LifoStep ==
  ASSUME Typed, StackIsLifo, [Next]_vars
  PROVE  StackIsLifo'
  <1>1. CASE UNCHANGED <<sp, stack, pushed>>
    BY <1>1 DEF StackIsLifo
  <1>2. CASE pushed' = <<>>
    <2>1. Len(pushed') = 0
      BY <1>2
    <2>q. QED BY <2>1, Sizes DEF StackIsLifo
  <1>q. QED BY <1>1, <1>2, StackSteps, PushKeepsLifo, PullKeepsLifo DEF Typed

LEMMA AlwaysLifo == Spec => [](Typed /\ FetchHasWork /\ StackIsLifo)
  <1>1. Init => StackIsLifo
    <2>1. ASSUME Init PROVE Len(pushed) = 0
      BY <2>1 DEF Init
    <2>q. QED BY <2>1, Sizes DEF StackIsLifo
  <1>2. Typed /\ StackIsLifo /\ [Next]_vars => StackIsLifo'
    BY LifoStep
  <1>q. QED BY <1>1, <1>2, AlwaysTyped, PTL DEF Spec

(* Page 1 and sp are a stack: push8, pull8 and all that use them.           *)
THEOREM StackIsAStack == Spec => []StackIsLifo
  BY AlwaysLifo, PTL
-----------------------------------------------------------------------------
(* How an instruction proceeds: which op_states a handler reaches, ...      *)
Branches == {"bxx", "bbr", "bbs"}
Params == {"PARAM0", "PARAM1", "PARAM2", "PARAM3", "PARAM4"}
Later  == {"OP1", "OP2", "OP3", "OP4"}

Reached ==
  /\ At("OP1") => Handler \in {"adc", "sbc", "inc", "dec", "jsr", "rts", "rti", "ph_", "pl_", "bra"}
                                \cup Shifts \cup BitOps \cup Stores \cup Branches
  /\ At("OP2") => Handler \in {"inc", "dec", "jsr", "rts", "rti", "pl_", "bra"}
                                \cup Shifts \cup BitOps \cup Branches
  /\ At("OP3") => Handler \in {"inc", "dec", "jsr", "rts", "rti"}
  /\ At("OP4") => Handler \in {"jsr", "rts", "rti"}
  /\ opState \in Later => /\ Handler \in {"adc", "sbc"} => status.d
                          /\ Handler \in Branches => run.cond
                          /\ Handler \in Shifts => Mode # "ACC"
                          /\ Handler \in Stores => Mode \in Indexed /\ ~page
  /\ At("OP2") /\ Handler \in Branches \cup {"bra"} => run.cross
  /\ opState \in {"OP2", "OP3"} /\ Handler \in {"inc", "dec"} => Mode # "ACC"
  /\ Mode \in {"ZPX", "ZPY", "ABSO"} /\ opState \in Params => At("PARAM0") \/ At("PARAM1")
  /\ opState \in Params /\ (Mode \in {"IMP", "ACC", "IMM", "ZP", "REL"} \/ (Mode = "ABSO" /\ opcode = JSR)) =>
       At("PARAM0")
  /\ Mode \in {"ABSX", "ABSY"} /\ At("PARAM2") => run.cross
  /\ Mode = "INDY" /\ At("PARAM3") => run.cross
  /\ opState \in Params \cup Later \cup {"OP0"} => run.kind = "instr"
  /\ run.kind = "instr" =>
       opState \in Params \cup Later \cup {"OP0", "OPCODE"} \/ Handler = "brk"

(* ... how many cycles that has taken, ...                                 *)
Arrived ==
  CASE Mode \in {"IMP", "ACC", "IMM", "REL"} -> 1
    [] Mode = "ZP" -> 2
    [] Mode \in {"ZPX", "ZPY"} -> 3
    [] Mode = "ABSO" -> IF opcode = JSR THEN 1 ELSE IF opcode = JMP THEN 2 ELSE 3
    [] Mode \in {"ABSX", "ABSY"} -> 3 + Bit(run.cross)
    [] Mode = "INDY" -> 4 + Bit(run.cross)
    [] Mode \in {"INDZ", "ZPREL"} -> 4
    [] OTHER -> 5

Skipped == Handler \in {"inc", "dec"} /\ (Mode # "ABSX" \/ page)

Counted ==
  /\ At("PARAM0") => cycles = 1
  /\ At("PARAM1") => cycles = 2
  /\ At("PARAM2") => cycles = 3
  /\ At("PARAM3") => cycles = 4
  /\ At("PARAM4") => cycles = 5
  /\ At("OP0") => cycles = Arrived
  /\ At("OP1") => cycles = Arrived + 1 - Bit(Skipped)
  /\ At("OP2") => cycles = Arrived + 2 - Bit(Skipped)
  /\ At("OP3") => cycles = Arrived + 3 - Bit(Skipped)
  /\ At("OP4") => cycles = Arrived + 4
  /\ At("VEC0") => cycles = 0
  /\ At("VEC1") => cycles = 1
  /\ At("VEC2") => cycles = 2
  /\ At("VEC3") => cycles = 3
  /\ At("VEC4") => cycles = 4
  /\ At("VEC5") => cycles = 5
  /\ At("VEC6") => cycles = 6

(* ... what CPU_PAGE_BOUNDARY says, ...                                     *)
Paged ==
  /\ opState \in Params =>
       page = (run.stale \/ (Mode \in {"ABSX", "ABSY"} /\ At("PARAM2"))
                         \/ (Mode = "INDY" /\ At("PARAM3")))
  /\ opState \in Later \cup {"OP0"} =>
       page = (run.stale \/ (Mode \in Indexed /\ run.cross))

(* ... and where pc is.                                                     *)
Stepped ==
  CASE Mode \in {"IMP", "ACC"} -> 1
    [] Mode = "ABSO" -> IF opcode = JSR THEN 1 ELSE 3
    [] Mode \in {"ABSX", "ABSY", "ZPREL"} -> 3
    [] OTHER -> 2

Placed ==
  /\ At("PARAM0") => pc = Plus(run.at, 1)
  /\ At("PARAM1") => pc = Plus(run.at, IF Mode \in {"ZPX", "ZPY", "INDX"} THEN 1 ELSE 2)
  /\ opState \in {"PARAM2", "PARAM3", "PARAM4"} => pc = Plus(run.at, 2)
  /\ opState \in Later \cup {"OP0"} /\ (Handler \in {"jsr", "rts", "rti"} => At("OP0")) =>
       pc = Plus(run.at, Stepped)

(* The bus operations of a tick: some handlers look at the operand and do   *)
(* not consume the cycle, what follows consumes it without an operation.   *)
Peeked ==
  \/ At("OP0") /\ (Mode \in {"IMP", "ACC", "REL", "IND", "ABIN", "ZPREL"} \/ opcode = JMP)
  \/ At("OP1") /\ Mode = "ACC"

Accessed ==
  /\ consumed => inTick
  /\ accesses \in {0, 1}
  /\ Peeked => Turn
  /\ Turn => accesses = Bit(Peeked)

LEMMA AddressReaches ==
  ASSUME Reached, AddressTurn
  PROVE  Reached'
  <1>1. /\ opState \in Params /\ opcode' = opcode /\ run' = run /\ addr_handlers
        /\ Mode' = Mode /\ Handler' = Handler
    BY DEF AddressTurn, instr, Params, Mode, Handler
  <1>2. run.kind = "instr"
    BY <1>1 DEF Reached
  <1>3. \/ opState' = "OP0"
        \/ opState' = "PARAM1" /\ Mode \notin {"IMP", "ACC", "IMM", "ZP", "REL"}
           /\ ~(Mode = "ABSO" /\ opcode = JSR)
        \/ Mode \in {"ABSX", "ABSY"} /\ opState' = "PARAM2" /\ run.cross
        \/ Mode = "INDY" /\ opState' = "PARAM2"
        \/ Mode = "INDY" /\ opState' = "PARAM3" /\ run.cross
        \/ Mode \in {"IND", "ABIN", "INDX", "INDZ", "ZPREL"} /\ opState' \in Params
    BY <1>1 DEF addr_handlers, imp, acc, imm, zp, zpx, zpy, rel, abso, absx, absy, ind, indx, indy,
                indz, abin, zprel, Read, Peek, Skip, Advance, Params
  <1>4. opState' \in Params \cup {"OP0"}
    BY <1>3 DEF Params
  <1>q. QED BY <1>1, <1>2, <1>3, <1>4 DEF Reached, At, Params, Later

LEMMA AddressCounts ==
  ASSUME MovesTyped, Reached, Counted, AddressTurn
  PROVE  Counted'
  <1>1. /\ opState \in Params /\ opcode' = opcode /\ run' = run /\ addr_handlers
        /\ Mode' = Mode /\ Handler' = Handler /\ Arrived' = Arrived
    BY DEF AddressTurn, instr, Params, Mode, Handler, Arrived
  <1>2. opState' \in Params \cup {"OP0"}
    BY <1>1 DEF addr_handlers, imp, acc, imm, zp, zpx, zpy, rel, abso, absx, absy, ind, indx, indy,
                indz, abin, zprel, Read, Peek, Skip, Advance, Params
  <1>3. /\ opState' = "PARAM1" => cycles' = 2
        /\ opState' = "PARAM2" => cycles' = 3
        /\ opState' = "PARAM3" => cycles' = 4
        /\ opState' = "PARAM4" => cycles' = 5
        /\ opState' # "PARAM0"
    BY <1>1 DEF addr_handlers, imp, acc, imm, zp, zpx, zpy, rel, abso, absx, absy, ind, indx, indy,
                indz, abin, zprel, Read, Peek, Skip, Advance, Params, At, Counted, Bit
  <1>4. opState' = "OP0" => cycles' = Arrived
    <2>1. CASE Mode \in {"IMP", "ACC", "IMM", "ZP", "REL", "ZPX", "ZPY"}
      BY <1>1, <2>1 DEF addr_handlers, imp, acc, imm, zp, zpx, zpy, rel, Read, Peek, Skip, Advance, Params,
               At, Counted, Reached, Bit, Arrived
    <2>3. CASE Mode = "ABSO"
      BY <1>1, <2>3 DEF addr_handlers, abso, Read, Peek, Skip, Advance, Params,
               At, Counted, Reached, Bit, Arrived, JSR, JMP
    <2>2. CASE Mode \notin {"IMP", "ACC", "IMM", "ZP", "REL", "ZPX", "ZPY", "ABSO"}
      BY <1>1, <2>2 DEF addr_handlers, absx, absy, ind, indx, indy, indz, abin, zprel, Read, Peek, Skip, Advance, Params,
               At, Counted, Reached, Bit, Arrived
    <2>q. QED BY <2>1, <2>2, <2>3
  <1>q. QED BY <1>1, <1>2, <1>3, <1>4 DEF Counted, At, Params

LEMMA AddressPages ==
  ASSUME RegsTyped, InstrTyped, Reached, Paged, AddressTurn
  PROVE  Paged'
  <1>1. /\ opState \in Params /\ opcode' = opcode /\ run' = run /\ addr_handlers
        /\ Mode' = Mode
    BY DEF AddressTurn, instr, Params, Mode
  <1>2. /\ page = (run.stale \/ (Mode \in {"ABSX", "ABSY"} /\ At("PARAM2"))
                            \/ (Mode = "INDY" /\ At("PARAM3")))
        /\ page \in BOOLEAN /\ run.stale \in BOOLEAN /\ run.cross \in BOOLEAN
    BY <1>1 DEF Paged, RegsTyped, InstrTyped
  <1>3. opState' \in Params => page' = (run.stale \/ (Mode \in {"ABSX", "ABSY"} /\ opState' = "PARAM2")
                            \/ (Mode = "INDY" /\ opState' = "PARAM3"))
    BY <1>1, <1>2 DEF addr_handlers, imp, acc, imm, zp, zpx, zpy, rel, abso, absx, absy, ind, indx, indy,
                indz, abin, zprel, Read, Peek, Skip, Advance, Params, At, Same, regs, NextPc, SetPc, CrossPage
  <1>4. opState' \in Later \cup {"OP0"} => page' = (run.stale \/ (Mode \in Indexed /\ run.cross))
    BY <1>1, <1>2 DEF addr_handlers, imp, acc, imm, zp, zpx, zpy, rel, abso, absx, absy, ind, indx, indy,
                indz, abin, zprel, Read, Peek, Skip, Advance, Params, At, Same, regs, NextPc, SetPc, CrossPage,
                Reached, Indexed, Later
  <1>q. QED BY <1>1, <1>3, <1>4 DEF Paged, At

LEMMA AddressPlaces ==
  ASSUME InstrTyped, Reached, Placed, AddressTurn
  PROVE  Placed'
  <1>1. /\ opState \in Params /\ opcode' = opcode /\ run' = run /\ addr_handlers
        /\ Mode' = Mode /\ Handler' = Handler /\ Stepped' = Stepped
    BY DEF AddressTurn, instr, Params, Mode, Handler, Stepped
  <1> DEFINE one   == Plus(run.at, 1)
             two   == Plus(run.at, 2)
             three == Plus(run.at, 3)
  <1>2. Plus(one, 1) = two /\ Plus(two, 1) = three
    BY PlusPlus DEF InstrTyped
  <1>3. /\ At("PARAM0") => pc = one
        /\ At("PARAM1") => pc = IF Mode \in {"ZPX", "ZPY", "INDX"} THEN one ELSE two
        /\ opState \in {"PARAM2", "PARAM3", "PARAM4"} => pc = two
    BY DEF Placed
  <1> HIDE DEF one, two, three
  <1>4. /\ opState' # "PARAM0"
        /\ opState' = "PARAM1" => pc' = IF Mode \in {"ZPX", "ZPY", "INDX"} THEN one ELSE two
        /\ opState' \in {"PARAM2", "PARAM3", "PARAM4"} => pc' = two
    BY <1>1, <1>2, <1>3 DEF addr_handlers, imp, acc, imm, zp, zpx, zpy, rel, abso, absx, absy, ind, indx, indy,
                indz, abin, zprel, Read, Peek, Skip, Advance, Params, At, Same, regs, NextPc, SetPc, CrossPage
  <1> DEFINE end == CASE Mode \in {"IMP", "ACC"} -> one
                      [] Mode = "ABSO" -> IF opcode = JSR THEN one ELSE three
                      [] Mode \in {"ABSX", "ABSY", "ZPREL"} -> three
                      [] OTHER -> two
  <1>5. opState' \in Later \cup {"OP0"} => pc' = end
    <2>1. CASE Mode \in {"IMP", "ACC", "IMM", "ZP", "REL", "ZPX", "ZPY"}
      BY <1>1, <1>2, <1>3, <2>1 DEF addr_handlers, imp, acc, imm, zp, zpx, zpy, rel,
           Read, Peek, Skip, Advance, Params, At, Same, regs, NextPc, SetPc, Reached, Later
    <2>2. CASE Mode = "ABSO"
      BY <1>1, <1>2, <1>3, <2>2 DEF addr_handlers, abso,
           Read, Peek, Skip, Advance, Params, At, Same, regs, NextPc, SetPc, Reached, Later
    <2>3. CASE Mode \in {"ABSX", "ABSY", "ZPREL"}
      BY <1>1, <1>2, <1>3, <2>3 DEF addr_handlers, absx, absy, zprel,
           Read, Peek, Skip, Advance, Params, At, Same, regs, NextPc, SetPc, CrossPage, Reached, Later
    <2>4. CASE Mode \in {"IND", "INDX", "INDY", "INDZ", "ABIN"}
      BY <1>1, <1>2, <1>3, <2>4 DEF addr_handlers, ind, indx, indy, indz, abin,
           Read, Peek, Skip, Advance, Params, At, Same, regs, NextPc, SetPc, CrossPage, Reached, Later
    <2>q. QED BY <1>1, <2>1, <2>2, <2>3, <2>4 DEF addr_handlers
  <1>6. Plus(run.at, Stepped) = end
    BY DEF Stepped, one, two, three
  <1> HIDE DEF end
  <1>q. QED BY <1>1, <1>4, <1>5, <1>6 DEF Placed, At, one, two

LEMMA AddressAccesses ==
  ASSUME Reached, Accessed, AddressTurn
  PROVE  Accessed' /\ (consumed' => accesses' = 1)
  <1>1. /\ opState \in Params /\ opcode' = opcode /\ addr_handlers /\ Turn
        /\ Mode' = Mode /\ inTick' = inTick
    BY DEF AddressTurn, instr, Params, Mode
  <1>2. accesses = 0 /\ inTick
    BY <1>1 DEF Accessed, Peeked, At, Params, Bit, Turn
  <1>3. opcode = JMP => Mode = "ABSO"
    BY DEF JMP, Mode, addrtable, AddrRows
  <1> DEFINE peeks == Mode \in {"IMP", "ACC", "REL", "IND", "ABIN", "ZPREL"} \/ opcode = JMP
  <1>4. \/ accesses' = 1 /\ consumed' = TRUE /\ opState' # "OP1" /\ (opState' = "OP0" => ~peeks)
        \/ accesses' = 1 /\ consumed' = FALSE /\ opState' = "OP0" /\ peeks
        \/ accesses' = 0 /\ consumed' = FALSE /\ opState' = "OP0" /\ ~peeks
    <2>1. CASE Mode \in {"IMP", "ACC", "IMM", "ZP", "REL", "ZPX", "ZPY"}
      BY <1>1, <1>2, <1>3, <2>1 DEF addr_handlers, imp, acc, imm, zp, zpx, zpy, rel,
           Read, Peek, Skip, Advance, Bit
    <2>2. CASE Mode = "ABSO"
      BY <1>1, <1>2, <1>3, <2>2 DEF addr_handlers, abso, Read, Peek, Skip, Advance, Bit, JSR, JMP
    <2>3. CASE Mode \in {"ABSX", "ABSY", "ZPREL"}
      BY <1>1, <1>2, <1>3, <2>3 DEF addr_handlers, absx, absy, zprel, Read, Peek, Skip, Advance, Bit
    <2>4. CASE Mode \in {"IND", "INDX", "INDY", "INDZ", "ABIN"}
      BY <1>1, <1>2, <1>3, <2>4 DEF addr_handlers, ind, indx, indy, indz, abin,
           Read, Peek, Skip, Advance, Bit
    <2>q. QED BY <1>1, <2>1, <2>2, <2>3, <2>4 DEF addr_handlers
  <1>5. Peeked' <=> (opState' = "OP0" /\ peeks) \/ (opState' = "OP1" /\ Mode = "ACC")
    BY <1>1 DEF Peeked, At
  <1>q. QED BY <1>1, <1>2, <1>4, <1>5 DEF Accessed, Turn, Bit

Once == Registers \cup FlagOps \cup {"nop", "txs", "jmp"}

ByHandler ==
  /\ Handler \in ReadOps => IF Handler \in {"adc", "sbc"} THEN Decimal ELSE ReadsOperand
  /\ Handler \in Shifts => ModifyAccumulator \/ (Mode # "ACC" /\ ModifyMemory)
  /\ Handler \in BitOps => ModifyMemory
  /\ Handler \in {"inc", "dec"} => inc
  /\ Handler \in Stores => Store(IF Handler = "sta" THEN Indexed ELSE {"ABSX", "ABSY"})
  /\ Handler \in Branches => Branch
  /\ Handler = "bra" => bra
  /\ Handler \in Once => /\ Idle("OPCODE")
                         /\ UNCHANGED <<page, vecSrc, tmpval, expect>>
                         /\ pushed' \in {pushed, <<>>}
                         /\ Handler \notin FlagOps => status' = status
                         /\ Handler # "jmp" => pc' = pc
  /\ Handler = "jsr" => jsr
  /\ Handler = "rts" => rts
  /\ Handler = "rti" => rti
  /\ Handler = "ph_" => ph_
  /\ Handler = "pl_" => pl_
  /\ Handler = "brk" => brk

Operate ==
  /\ opState \in Later \cup {"OP0"} /\ Turn
  /\ opcode' = opcode /\ run' = run /\ inTick' = inTick
  /\ Mode' = Mode /\ Handler' = Handler
  /\ GoesWith(Handler, Mode)
  /\ ByHandler

LEMMA Shapes ==
  ASSUME OpShape
  PROVE  ByHandler
  <1> USE DEF ReadOps, Shifts, BitOps, FlagOps, Registers, Stores, Branches, Once, OpShape
  <1>1. /\ Handler \in ReadOps => IF Handler \in {"adc", "sbc"} THEN Decimal ELSE ReadsOperand
        /\ Handler \in Shifts => ModifyAccumulator \/ (Mode # "ACC" /\ ModifyMemory)
        /\ Handler \in BitOps => ModifyMemory
        /\ Handler \in {"inc", "dec"} => inc
    OBVIOUS
  <1>2. /\ Handler \in Stores => Store(IF Handler = "sta" THEN Indexed ELSE {"ABSX", "ABSY"})
        /\ Handler \in Branches => Branch
        /\ Handler = "bra" => bra
    OBVIOUS
  <1>3. Handler \in Once =>
          /\ Idle("OPCODE") /\ UNCHANGED <<page, vecSrc, tmpval, expect>>
          /\ pushed' \in {pushed, <<>>}
          /\ Handler \notin FlagOps => status' = status
          /\ Handler # "jmp" => pc' = pc
    BY DEF txs, jmp, Jump, SetPc, SetStatus, Same, regs
  <1>4. /\ Handler = "jsr" => jsr
        /\ Handler = "rts" => rts
        /\ Handler = "rti" => rti
        /\ Handler = "ph_" => ph_
        /\ Handler = "pl_" => pl_
        /\ Handler = "brk" => brk
    OBVIOUS
  <1> HIDE DEF ReadOps, Shifts, BitOps, FlagOps, Registers, Stores, Branches, Once, OpShape
  <1>q. QED BY <1>1, <1>2, <1>3, <1>4 DEF ByHandler

LEMMA OpOperates ==
  ASSUME Typed, OpTurn
  PROVE  Operate
  <1>1. OpShape
    BY OpShapes DEF OpTurn, Typed, RegsTyped
  <1>2. GoesWith(Handler, Mode)
    BY Decoded DEF Typed, InstrTyped, Handler, Mode
  <1>q. QED BY <1>1, <1>2, Shapes DEF Operate, OpTurn, instr, Handler, Mode, Later

LEMMA Kinds ==
  ASSUME Operate
  PROVE  \/ Handler \in ReadOps \ {"adc", "sbc"}
         \/ Handler \in {"adc", "sbc"}
         \/ Handler \in Shifts \cup BitOps
         \/ Handler \in {"inc", "dec"}
         \/ Handler \in Stores
         \/ Handler \in Branches \cup {"bra"}
         \/ Handler \in Once
         \/ Handler = "brk"
         \/ Handler \in {"jsr", "rts", "rti", "ph_", "pl_"}
  BY DEF Operate, GoesWith, Stores, Branches, Once

LEMMA OpReaches ==
  ASSUME Reached, Operate
  PROVE  Reached'
  <1>9. \/ Handler \in ReadOps \/ Handler \in Shifts \cup BitOps \/ Handler \in {"inc", "dec"}
        \/ Handler \in Stores \/ Handler \in Branches \cup {"bra"} \/ Handler \in Once \cup {"brk"}
        \/ Handler \in {"jsr", "rts", "rti", "ph_", "pl_"}
    BY Kinds DEF ReadOps
  <1> USE DEF Operate
  <1>1. run.kind = "instr"
    BY DEF Reached
  <1>2. CASE Handler \in ReadOps
    <2>1. \/ opState' = "OPCODE"
          \/ opState' = "OP1" /\ Handler \in {"adc", "sbc"} /\ status.d /\ status' = status
      BY <1>2 DEF ByHandler, ReadsOperand, Decimal, Get, Read, Idle, Advance, Bit, Same, regs
    <2>q. QED BY <1>1, <2>1 DEF Reached, At, Params, Later, Branches, Shifts, Stores
  <1>3. CASE Handler \in Shifts \cup BitOps
    <2>1. \/ opState' = "OPCODE"
          \/ opState' \in {"OP1", "OP2"} /\ (Handler \in Shifts => Mode # "ACC")
      BY <1>3 DEF ByHandler, ModifyAccumulator, ModifyMemory, Put, Read, Write, Idle, Advance, Bit,
           Shifts, BitOps
    <2>q. QED BY <1>1, <1>3, <2>1 DEF Reached, At, Params, Later, Branches, Shifts, BitOps, Stores
  <1>4. CASE Handler \in {"inc", "dec"}
    <2>1. At("OP2") => Mode # "ACC"
      BY <1>4 DEF Reached, At
    <2>2. opState' \in {"OPCODE", "OP1"} \/ (opState' \in {"OP2", "OP3"} /\ Mode # "ACC")
      BY <1>4, <2>1 DEF ByHandler, inc, Get, Put, Read, Write, Skip, Idle, Advance, Bit
    <2>q. QED BY <1>1, <1>4, <2>2 DEF Reached, At, Params, Later, Branches, Shifts, Stores
  <1>5. CASE Handler \in Stores
    <2>1. opState' = "OPCODE" \/ (opState' = "OP1" /\ Mode \in Indexed /\ ~page /\ page' = page)
      BY <1>5 DEF ByHandler, Store, Put, Read, Write, Idle, Advance, Bit, Indexed, Same, regs
    <2>q. QED BY <1>1, <1>5, <2>1 DEF Reached, At, Params, Later, Branches, Shifts, Stores
  <1>6. CASE Handler \in Branches \cup {"bra"}
    <2>1. At("OP0") \/ Handler = "bra" \/ run.cond
      BY <1>6 DEF Reached, At, Later
    <2>2. \/ opState' = "OPCODE"
          \/ opState' = "OP1" /\ (Handler # "bra" => run.cond)
          \/ opState' = "OP2" /\ (Handler # "bra" => run.cond) /\ run.cross
      BY <1>6, <2>1 DEF ByHandler, Branch, bra, BranchTaken, At, Read, Idle, Advance, Bit
    <2>q. QED BY <1>1, <1>6, <2>2 DEF Reached, At, Params, Later, Branches, Shifts, Stores
  <1>7. CASE Handler \in Once \cup {"brk"}
    <2>1. opState' = "OPCODE" \/ (opState' = "VEC2" /\ Handler = "brk")
      BY <1>7 DEF ByHandler, brk, Idle, Advance, Bit
    <2>q. QED BY <1>1, <2>1 DEF Reached, At, Params, Later
  <1>8. CASE Handler \in {"jsr", "rts", "rti", "ph_", "pl_"}
    <2>1. \/ opState' \in {"OPCODE", "OP1"}
          \/ opState' = "OP2" /\ Handler # "ph_"
          \/ opState' \in {"OP3", "OP4"} /\ Handler \in {"jsr", "rts", "rti"}
      BY <1>8 DEF ByHandler, jsr, rts, rti, ph_, pl_, Read, Write, Idle, Advance, Bit
    <2>q. QED BY <1>1, <1>8, <2>1 DEF Reached, At, Params, Later, Branches, Shifts, Stores
  <1>q. QED BY <1>2, <1>3, <1>4, <1>5, <1>6, <1>7, <1>8, <1>9

(* The cycles of an instruction that reads an operand: the addressing mode  *)
(* leaves one of them to the handler.                                      *)
LEMMA ArrivedIs ==
  /\ Arrived \in 1 .. 5
  /\ GoesWith(Handler, Mode) /\ Handler \in ReadOps \cup Stores \cup Shifts \cup BitOps \cup {"inc", "dec"}
     /\ opcode \in Opcode /\ Mode # "ACC" =>
       /\ OperandCycles(Mode) \in 2 .. 6
       /\ Arrived + 1 = OperandCycles(Mode) + Bit(Mode \in Indexed /\ run.cross)
       /\ Handler \in Shifts \cup BitOps \cup {"inc", "dec"} =>
            (Mode \in Indexed /\ run.cross <=> Mode = "ABSX" /\ run.cross)
  <1>1. Arrived \in 1 .. 5
    BY DEF Arrived, Bit
  <1>2. ASSUME GoesWith(Handler, Mode), Mode # "ACC", opcode \in Opcode,
               Handler \in ReadOps \cup Stores \cup Shifts \cup BitOps \cup {"inc", "dec"}
        PROVE  /\ OperandCycles(Mode) \in 2 .. 6
               /\ Arrived + 1 = OperandCycles(Mode) + Bit(Mode \in Indexed /\ run.cross)
               /\ Handler \in Shifts \cup BitOps \cup {"inc", "dec"} =>
                    (Mode \in Indexed /\ run.cross <=> Mode = "ABSX" /\ run.cross)
    <2>1. Mode \in Addressed \cup {"IMM"}
      BY <1>2 DEF GoesWith, Addressed, ReadOps, Stores, Shifts, BitOps, Registers, FlagOps
    <2>2. Handler # "jsr" /\ Handler # "jmp"
      BY <1>2 DEF ReadOps, Stores, Shifts, BitOps
    <2>3. opcode # JSR /\ opcode # JMP
      <3>1. /\ Handler = "jsr" <=> opcode = JSR
            /\ Handler = "jmp" /\ Mode = "ABSO" <=> opcode = JMP
        BY <1>2, Decoded, Zenon DEF Handler, Mode
      <3>q. QED BY <2>2, <3>1
    <2>4. OperandCycles(Mode) \in 2 .. 6
      BY <2>1 DEF Addressed, OperandCycles
    <2>5. Arrived + 1 = OperandCycles(Mode) + Bit(Mode \in Indexed /\ run.cross)
      BY <2>1, <2>3 DEF Addressed, OperandCycles, Arrived, Bit, Indexed
    <2>6. Handler \in Shifts \cup BitOps \cup {"inc", "dec"} => Mode \notin {"ABSY", "INDY"}
      BY <1>2 DEF GoesWith, Addressed, ReadOps, Stores, Shifts, BitOps, Registers, FlagOps
    <2>q. QED BY <2>4, <2>5, <2>6 DEF Indexed
  <1>q. QED BY <1>1, <1>2

(* What the tests expect, kind by kind.                                     *)
TestedIs ==
  GoesWith(Handler, Mode) =>
    /\ Handler \in ReadOps =>
         TestedCycles(Handler, Mode) = OperandCycles(Mode) + Bit(Mode \in Indexed /\ run.cross)
                                         + Bit(Handler \in {"adc", "sbc"} /\ status.d)
    /\ Handler \in Stores =>
         TestedCycles(Handler, Mode) = OperandCycles(Mode) + Bit(Mode \in Indexed)
    /\ Handler \in Shifts \cup {"inc", "dec"} /\ Mode = "ACC" => TestedCycles(Handler, Mode) = 2
    /\ Handler \in Shifts /\ Mode # "ACC" =>
         TestedCycles(Handler, Mode) = OperandCycles(Mode) + 2 + Bit(Mode = "ABSX" /\ run.cross)
    /\ Handler \in {"inc", "dec"} /\ Mode # "ACC" =>
         TestedCycles(Handler, Mode) = OperandCycles(Mode) + 2 + Bit(Mode = "ABSX")
    /\ Handler \in BitOps => TestedCycles(Handler, Mode) = OperandCycles(Mode) + 2
    /\ Handler = "bra" => TestedCycles(Handler, Mode) = 3 + Bit(run.cross)
    /\ Handler \in Branches =>
         TestedCycles(Handler, Mode) =
           (IF Handler = "bxx" THEN 2 ELSE 5) + Bit(run.cond) + Bit(run.cond /\ run.cross)
    /\ Handler = "jmp" => TestedCycles(Handler, Mode) = IF Mode = "ABSO" THEN 3 ELSE 6
    /\ Handler \in {"jsr", "rts", "rti"} => TestedCycles(Handler, Mode) = 6
    /\ Handler = "brk" => TestedCycles(Handler, Mode) = 7
    /\ Handler = "ph_" => TestedCycles(Handler, Mode) = 3
    /\ Handler = "pl_" => TestedCycles(Handler, Mode) = 4
    /\ Handler \in Once \ {"jmp"} => TestedCycles(Handler, Mode) = 2

LEMMA Tested == TestedIs
  <1>1. ASSUME Handler \in ReadOps, Mode # "ACC"
        PROVE  TestedCycles(Handler, Mode) = OperandCycles(Mode) + Bit(Mode \in Indexed /\ run.cross)
                                               + Bit(Handler \in {"adc", "sbc"} /\ status.d)
    BY <1>1 DEF TestedCycles, Bit, ReadOps, Stores, Shifts
  <1>2. ASSUME Handler \in Stores, Mode # "ACC"
        PROVE  TestedCycles(Handler, Mode) = OperandCycles(Mode) + Bit(Mode \in Indexed)
    BY <1>2 DEF TestedCycles, Bit, Stores, ReadOps, Shifts
  <1>3. ASSUME Handler \in Shifts, Mode # "ACC"
        PROVE  TestedCycles(Handler, Mode) = OperandCycles(Mode) + 2 + Bit(Mode = "ABSX" /\ run.cross)
    BY <1>3 DEF TestedCycles, Stores, ReadOps, Shifts
  <1>4. ASSUME Handler \in {"inc", "dec"}, Mode # "ACC"
        PROVE  TestedCycles(Handler, Mode) = OperandCycles(Mode) + 2 + Bit(Mode = "ABSX")
    BY <1>4 DEF TestedCycles, Stores, ReadOps, Shifts
  <1>5. ASSUME Handler = "bra"
        PROVE  TestedCycles(Handler, Mode) = 3 + Bit(run.cross)
    BY <1>5 DEF TestedCycles, Stores, ReadOps, Shifts
  <1>6. ASSUME Handler \in Branches
        PROVE  TestedCycles(Handler, Mode) =
                 (IF Handler = "bxx" THEN 2 ELSE 5) + Bit(run.cond) + Bit(run.cond /\ run.cross)
    BY <1>6 DEF TestedCycles, Stores, ReadOps, Shifts, Branches
  <1>7. ASSUME Handler \in Shifts \cup {"inc", "dec"}, Mode = "ACC"
        PROVE  TestedCycles(Handler, Mode) = 2
    BY <1>7 DEF TestedCycles, Stores, ReadOps, Shifts
  <1>8. ASSUME Handler \in BitOps, Mode # "ACC"
        PROVE  TestedCycles(Handler, Mode) = OperandCycles(Mode) + 2
    BY <1>8 DEF TestedCycles, Stores, ReadOps, Shifts, BitOps
  <1>9. ASSUME Mode # "ACC"
        PROVE  /\ Handler = "jmp" => TestedCycles(Handler, Mode) = IF Mode = "ABSO" THEN 3 ELSE 6
               /\ Handler \in {"jsr", "rts", "rti"} => TestedCycles(Handler, Mode) = 6
               /\ Handler = "brk" => TestedCycles(Handler, Mode) = 7
               /\ Handler = "ph_" => TestedCycles(Handler, Mode) = 3
               /\ Handler = "pl_" => TestedCycles(Handler, Mode) = 4
    BY <1>9 DEF TestedCycles, Stores, ReadOps, Shifts
  <1>10. ASSUME Handler \in Once \ {"jmp"}
         PROVE  TestedCycles(Handler, Mode) = 2
    BY <1>10 DEF TestedCycles, Stores, ReadOps, Shifts, Once, Registers, FlagOps
  <1>11. GoesWith(Handler, Mode) /\ Handler \in BitOps \cup ReadOps \cup Stores
                                    \cup {"jmp", "jsr", "rts", "rti", "brk", "ph_", "pl_"} =>
           Mode # "ACC"
    BY DEF GoesWith, BitOps, Stores, Addressed, ReadOps, Shifts, Registers, FlagOps
  <1>q. QED BY <1>1, <1>2, <1>3, <1>4, <1>5, <1>6, <1>7, <1>8, <1>9, <1>10, <1>11 DEF TestedIs

LEMMA OpEnds ==
  ASSUME Operate
  PROVE  opState' \in Later \cup {"OPCODE", "VEC2"}
  <1>1. CASE Handler \in ReadOps \cup Shifts \cup BitOps \cup {"inc", "dec"} \cup Stores
    BY <1>1 DEF Operate, ByHandler, ReadsOperand, Decimal, ModifyAccumulator, ModifyMemory, inc, Store,
         Get, Put, Read, Write, Skip, Idle, Advance, Bit, Later
  <1>2. CASE Handler \in Branches \cup {"bra", "brk"} \cup Once
    BY <1>2 DEF Operate, ByHandler, Branch, bra, BranchTaken, brk, Read, Idle, Advance, Bit, Later
  <1>3. CASE Handler \in {"jsr", "rts", "rti", "ph_", "pl_"}
    BY <1>3 DEF Operate, ByHandler, jsr, rts, rti, ph_, pl_, Read, Write, Idle, Advance, Bit, Later
  <1>q. QED BY <1>1, <1>2, <1>3, Kinds DEF ReadOps

LEMMA OpPages ==
  ASSUME Paged, Operate
  PROVE  page' = page /\ Paged'
  <1>1. page' = page
    <2>1. CASE Handler \in ReadOps \cup Shifts \cup BitOps \cup {"inc", "dec"} \cup Stores
      BY <2>1 DEF Operate, ByHandler, ReadsOperand, Decimal, ModifyAccumulator, ModifyMemory, inc, Store,
           Same, regs
    <2>2. CASE Handler \in Branches \cup {"bra", "brk"} \cup Once
      BY <2>2 DEF Operate, ByHandler, Branch, bra, BranchTaken, brk, Same, regs, Jump, SetPc
    <2>3. CASE Handler \in {"jsr", "rts", "rti", "ph_", "pl_"}
      BY <2>3 DEF Operate, ByHandler, jsr, rts, rti, ph_, pl_, Same, regs, NextPc, Jump, SetPc,
           KeepButStack, PullLo, PullHi
    <2>q. QED BY <2>1, <2>2, <2>3, Kinds DEF ReadOps
  <1>2. opState \in Later \cup {"OP0"} /\ run' = run /\ Mode' = Mode
    BY DEF Operate
  <1>3. page = (run.stale \/ (Mode \in Indexed /\ run.cross))
    BY <1>2 DEF Paged
  <1>4. opState' \notin Params
    BY OpEnds DEF Later, Params
  <1>q. QED BY <1>1, <1>2, <1>3, <1>4 DEF Paged

CountsOn ==
  /\ opState' = "OP1" => cycles' = Arrived + 1 - Bit(Skipped)
  /\ opState' = "OP2" => cycles' = Arrived + 2 - Bit(Skipped)
  /\ opState' = "OP3" => cycles' = Arrived + 3 - Bit(Skipped)
  /\ opState' = "OP4" => cycles' = Arrived + 4
  /\ opState' = "VEC2" => cycles' = 2
  /\ opState' = "OPCODE" /\ ~Undocumented =>
       /\ ~MisreadsPageFlag => cycles' = TestedCycles(Handler, Mode)'
       /\ MisreadsPageFlag => cycles' = TestedCycles(Handler, Mode)' - 1
  /\ opState' \in Later \cup {"OPCODE", "VEC2"}

LEMMA TestedNext == TestedIs'
  BY Tested, PTL

LEMMA OpCounts ==
  ASSUME Typed, Reached, Counted, Paged, Operate
  PROVE  CountsOn
  <1> DEFINE tested == TestedCycles(Handler, Mode)'
             operand == OperandCycles(Mode)
             crossed == Bit(Mode \in Indexed /\ run.cross)
             skipped == Bit(Skipped)
  <1>1. /\ Arrived \in 1 .. 5 /\ cycles \in Nat /\ page \in BOOLEAN
        /\ run.cross \in BOOLEAN /\ run.stale \in BOOLEAN /\ run.cond \in BOOLEAN
        /\ opcode \in Opcode
    BY ArrivedIs DEF Typed, MovesTyped, RegsTyped, InstrTyped
  <1>2. /\ At("OP0") => cycles = Arrived
        /\ At("OP1") => cycles = Arrived + 1 - skipped
        /\ At("OP2") => cycles = Arrived + 2 - skipped
        /\ At("OP3") => cycles = Arrived + 3 - skipped
        /\ At("OP4") => cycles = Arrived + 4
    BY DEF Counted
  <1>3. /\ run' = run /\ Handler' = Handler /\ Mode' = Mode /\ GoesWith(Handler, Mode) /\ ByHandler
        /\ At("OP0") \/ At("OP1") \/ At("OP2") \/ At("OP3") \/ At("OP4")
    BY DEF Operate, At, Later
  <1>4. page = (run.stale \/ (Mode \in Indexed /\ run.cross)) /\ page' = page
    BY OpPages DEF Operate, Paged
  <1>5. /\ crossed \in 0 .. 1 /\ skipped \in 0 .. 1
        /\ Handler \notin {"inc", "dec"} => skipped = 0
    BY DEF Skipped, Bit
  <1>6. /\ Handler \in ReadOps \cup Stores \cup Shifts \cup BitOps \cup {"inc", "dec"} /\ Mode # "ACC" =>
             /\ operand \in 2 .. 6
             /\ Arrived + 1 = operand + crossed
        /\ Handler \in Shifts \cup BitOps \cup {"inc", "dec"} /\ Mode # "ACC" =>
             (Mode \in Indexed /\ run.cross <=> Mode = "ABSX" /\ run.cross)
    BY <1>1, <1>3, ArrivedIs
  <1>a. /\ opState' \in Later \cup {"OPCODE", "VEC2"}
        /\ opState' = "OP1" => cycles' = Arrived + 1 - skipped
        /\ opState' = "OP2" => cycles' = Arrived + 2 - skipped
        /\ opState' = "OP3" => cycles' = Arrived + 3 - skipped
        /\ opState' = "OP4" => cycles' = Arrived + 4
        /\ opState' = "VEC2" => cycles' = 2
        /\ opState' = "OPCODE" /\ ~Undocumented =>
             /\ ~MisreadsPageFlag => cycles' = tested
             /\ MisreadsPageFlag => cycles' = tested - 1
        => CountsOn
    BY DEF CountsOn
  <1>b. Handler \notin Stores \cup {"inc", "dec"} => ~MisreadsPageFlag
    BY DEF MisreadsPageFlag, LooksAtPageFlag
  <1>c. Handler \in ReadOps \cup Shifts \cup BitOps \cup Branches \cup {"bra", "brk"} \cup Once
                     \cup {"jsr", "rts", "rti", "ph_", "pl_"} => ~MisreadsPageFlag
    BY <1>b DEF ReadOps, Shifts, BitOps, Branches, Once, Registers, FlagOps, Stores
  <1>d. Mode = "ACC" => ~MisreadsPageFlag
    BY DEF MisreadsPageFlag, LooksAtPageFlag, Indexed
  <1> HIDE DEF tested, operand, crossed, skipped
  <1>7. CASE Handler \in ReadOps \ {"adc", "sbc"}
    <2>1. At("OP0") /\ Mode # "ACC"
      BY <1>3, <1>7 DEF Reached, At, GoesWith, Addressed, Shifts, BitOps, Stores, ReadOps, Branches, Registers, FlagOps
    <2>2. opState' = "OPCODE" /\ cycles' = cycles + 1
      BY <1>3, <1>7, <2>1 DEF ByHandler, ReadsOperand, Get, Read, Advance, Bit
    <2>3. tested = operand + crossed + 0
      BY <1>3, <1>7, TestedNext DEF tested, operand, crossed, TestedIs, Bit
    <2>q. QED BY <1>a, <1>c, <1>1, <1>2, <1>6, <1>7, <2>1, <2>2, <2>3
  <1>8. CASE Handler \in {"adc", "sbc"}
    <2>1. Mode # "ACC" /\ (At("OP0") \/ (At("OP1") /\ status.d))
      BY <1>3, <1>8 DEF Reached, At, Later, GoesWith, Addressed, Shifts, BitOps, Stores, ReadOps, Branches, Registers, FlagOps
    <2>2. /\ cycles' = cycles + 1 /\ status' = status
          /\ opState' = IF At("OP0") /\ status.d THEN "OP1" ELSE "OPCODE"
      BY <1>3, <1>8, <2>1 DEF ByHandler, Decimal, Get, Read, Idle, Advance, Bit, Same, regs, ReadOps, At
    <2>3. tested = operand + crossed + (IF status.d THEN 1 ELSE 0)
      BY <1>3, <1>8, <2>2, TestedNext DEF tested, operand, crossed, TestedIs, Bit, ReadOps
    <2>q. QED BY <1>a, <1>c, <1>1, <1>2, <1>5, <1>6, <1>8, <2>1, <2>2, <2>3 DEF At, Later, ReadOps
  <1>9. CASE Handler \in Shifts \cup BitOps
    <2>1. CASE Mode = "ACC"
      <3>1. Handler \in Shifts /\ At("OP0") /\ Arrived = 1
        BY <1>3, <1>9, <2>1 DEF Reached, At, Later, GoesWith, Addressed, Shifts, BitOps, ReadOps, Registers, FlagOps, Arrived
      <3>2. opState' = "OPCODE" /\ cycles' = cycles + 1
        BY <1>3, <2>1, <3>1 DEF ByHandler, ModifyAccumulator, Put, Idle, Advance, Bit
      <3>3. tested = 2
        BY <1>3, <2>1, <3>1, TestedNext DEF tested, operand, crossed, TestedIs
      <3>q. QED BY <1>a, <1>c, <1>2, <3>1, <3>2, <3>3
    <2>2. CASE Mode # "ACC"
      <3>1. /\ cycles' = cycles + 1
            /\ \/ At("OP0") /\ opState' = "OP1"
               \/ At("OP1") /\ opState' = "OP2"
               \/ At("OP2") /\ opState' = "OPCODE"
        BY <1>3, <1>9, <2>2 DEF ByHandler, ModifyAccumulator, ModifyMemory, Put, Read, Write, Advance, Bit, At
      <3>4. Handler \in BitOps => Mode \notin Indexed
        BY <1>3 DEF GoesWith, BitOps, Indexed, Shifts, ReadOps, Registers, FlagOps
      <3>2. tested = operand + 2 + crossed
        BY <1>3, <1>6, <1>9, <2>2, <3>4, TestedNext DEF tested, operand, crossed, TestedIs, Bit
      <3>3. Handler \notin {"inc", "dec"}
        BY <1>9 DEF Shifts, BitOps
      <3>q. QED BY <1>a, <1>c, <1>1, <1>2, <1>5, <1>6, <1>9, <2>2, <3>1, <3>2, <3>3 DEF At, Later
    <2>q. QED BY <2>1, <2>2
  <1>10. CASE Handler \in {"inc", "dec"}
    <2>0. Mode \in {"ACC", "ZP", "ZPX", "ABSO", "ABSX"} /\ inc
      BY <1>3, <1>10 DEF GoesWith, ByHandler, BitOps, Stores, Addressed, Shifts, ReadOps, Registers, FlagOps
    <2>1. CASE Mode = "ACC"
      <3>1. At("OP0") \/ At("OP1")
        BY <1>3, <1>10, <2>1 DEF Reached, At, Later
      <3>2. Arrived = 1 /\ skipped = 1
        BY <1>10, <2>1 DEF Arrived, Skipped, skipped, Bit
      <3>3. \/ At("OP0") /\ opState' = "OP1" /\ cycles' = cycles
            \/ At("OP1") /\ opState' = "OPCODE" /\ cycles' = cycles + 1
        BY <1>1, <2>0, <2>1, <3>1 DEF inc, Get, Skip, Idle, Advance, Bit, At
      <3>4. tested = 2
        BY <1>3, <1>10, <2>1, TestedNext DEF tested, TestedIs
      <3>q. QED BY <1>a, <1>d, <1>2, <2>1, <3>2, <3>3, <3>4 DEF Later
    <2>2. CASE Mode # "ACC"
      <3>1. \/ /\ opState' = "OP1" /\ At("OP0")
               /\ cycles' = IF Mode = "ABSX" /\ ~page THEN cycles + 1 ELSE cycles
            \/ At("OP1") /\ opState' = "OP2" /\ cycles' = cycles + 1
            \/ At("OP2") /\ opState' = "OP3" /\ cycles' = cycles + 1
            \/ At("OP3") /\ opState' = "OPCODE" /\ cycles' = cycles + 1
        BY <1>1, <2>0, <2>2 DEF inc, Get, Put, Skip, Read, Write, Advance, Bit, At
      <3>2. skipped = IF Mode = "ABSX" /\ ~page THEN 0 ELSE 1
        BY <1>1, <1>10 DEF Skipped, skipped, Bit
      <3>3. tested = operand + 2 + (IF Mode = "ABSX" THEN 1 ELSE 0)
        BY <1>3, <1>6, <1>10, <2>2, TestedNext DEF tested, operand, TestedIs, Bit
      <3>4. /\ Mode = "ABSX" => page = (run.stale \/ run.cross)
            /\ MisreadsPageFlag <=> Mode = "ABSX" /\ run.stale /\ ~run.cross
        BY <1>1, <1>4, <1>10 DEF MisreadsPageFlag, LooksAtPageFlag, Indexed, Stores
      <3>5. crossed = IF Mode = "ABSX" /\ run.cross THEN 1 ELSE 0
        BY <1>6, <1>10, <2>2 DEF crossed, Bit
      <3>6. crossed + 1 - skipped = IF Mode = "ABSX" /\ ~MisreadsPageFlag THEN 1 ELSE 0
        BY <1>1, <3>2, <3>4, <3>5
      <3>7. /\ operand \in Int /\ Arrived + 1 = operand + crossed /\ cycles \in Int
            /\ Arrived \in Int /\ skipped \in 0 .. 1 /\ crossed \in 0 .. 1
        BY <1>1, <1>5, <1>6, <1>10, <2>2
      <3>8. opState' = "OPCODE" =>
              /\ ~MisreadsPageFlag => cycles' = tested
              /\ MisreadsPageFlag => cycles' = tested - 1
        <4>1. SUFFICES ASSUME opState' = "OPCODE"
                       PROVE  /\ ~MisreadsPageFlag => cycles' = tested
                              /\ MisreadsPageFlag => cycles' = tested - 1
          OBVIOUS
        <4>2. cycles' = Arrived + 3 - skipped + 1
          BY <1>2, <3>1, <3>7, <4>1
        <4>3. CASE ~MisreadsPageFlag
          <5>1. tested = operand + 2 + crossed + 1 - skipped
            BY <3>3, <3>6, <3>7, <4>3
          <5>q. QED BY <3>7, <4>2, <4>3, <5>1
        <4>4. CASE MisreadsPageFlag
          <5>1. tested - 1 = operand + 2 + crossed + 1 - skipped
            BY <3>3, <3>4, <3>6, <3>7, <4>4
          <5>q. QED BY <3>7, <4>2, <4>4, <5>1
        <4>q. QED BY <4>3, <4>4
      <3>9. opState' = "OP1" => cycles' = Arrived + 1 - skipped
        BY <1>1, <1>2, <3>1, <3>2
      <3>10. /\ opState' \in {"OP1", "OP2", "OP3", "OPCODE"}
             /\ opState' = "OP2" => cycles' = Arrived + 2 - skipped
             /\ opState' = "OP3" => cycles' = Arrived + 3 - skipped
        BY <1>2, <3>1, <3>7
      <3>q. QED BY <1>a, <3>8, <3>9, <3>10 DEF Later
    <2>q. QED BY <2>1, <2>2
  <1>11. CASE Handler \in Stores
    <2>0. Mode # "ACC" /\ (Handler # "sta" => Mode # "INDY") /\ Handler \notin {"inc", "dec"}
      BY <1>3, <1>11 DEF GoesWith, BitOps, Stores, Addressed, Shifts, ReadOps, Registers, FlagOps
    <2>1. At("OP0") \/ At("OP1")
      BY <1>3, <1>11 DEF Reached, At, Stores, Shifts, BitOps, Branches
    <2>2. /\ cycles' = cycles + 1
          /\ \/ At("OP0") /\ opState' = "OP1" /\ Mode \in Indexed /\ ~page
             \/ At("OP0") /\ opState' = "OPCODE" /\ ~(Mode \in Indexed /\ ~page)
             \/ At("OP1") /\ opState' = "OPCODE"
      BY <1>3, <1>11, <2>0, <2>1 DEF ByHandler, Store, Put, Read, Write, Advance, Bit, At, Indexed
    <2>3. tested = operand + (IF Mode \in Indexed THEN 1 ELSE 0)
      BY <1>3, <1>6, <1>11, <2>0, TestedNext DEF tested, operand, TestedIs, Bit
    <2>4. At("OP1") => Mode \in Indexed /\ ~page
      BY <1>11 DEF Reached, At, Later
    <2>5. /\ Mode \in Indexed => page = (run.stale \/ run.cross)
          /\ MisreadsPageFlag <=> Mode \in Indexed /\ run.stale /\ ~run.cross
      BY <1>1, <1>4, <1>11, <2>0 DEF MisreadsPageFlag, LooksAtPageFlag, Indexed
    <2>6. crossed = IF Mode \in Indexed /\ run.cross THEN 1 ELSE 0
      BY DEF crossed, Bit
    <2>7. /\ operand \in Int /\ Arrived + 1 = operand + crossed /\ cycles \in Int /\ Arrived \in Int
          /\ skipped = 0
      BY <1>1, <1>5, <1>6, <1>11, <2>0
    <2>8. opState' = "OPCODE" =>
            /\ ~MisreadsPageFlag => cycles' = tested
            /\ MisreadsPageFlag => cycles' = tested - 1
      <3>1. SUFFICES ASSUME opState' = "OPCODE"
                     PROVE  /\ ~MisreadsPageFlag => cycles' = tested
                            /\ MisreadsPageFlag => cycles' = tested - 1
        OBVIOUS
      <3>2. CASE At("OP0")
        <4>1. ~(Mode \in Indexed /\ ~page)
          BY <2>2, <3>1, <3>2 DEF At
        <4>2. ~MisreadsPageFlag => crossed = IF Mode \in Indexed THEN 1 ELSE 0
          BY <1>1, <2>5, <2>6, <4>1
        <4>3. MisreadsPageFlag => crossed = 0 /\ Mode \in Indexed
          BY <2>5, <2>6
        <4>4. cycles' = Arrived + 1
          BY <1>2, <2>2, <3>2
        <4>q. QED BY <2>3, <2>7, <4>2, <4>3, <4>4
      <3>3. CASE At("OP1")
        <4>1. crossed = 0 /\ Mode \in Indexed /\ ~MisreadsPageFlag
          BY <1>1, <2>4, <2>5, <2>6, <3>3
        <4>q. QED BY <1>2, <2>2, <2>3, <2>7, <3>3, <4>1
      <3>q. QED BY <2>1, <3>2, <3>3
    <2>9. /\ opState' \in {"OP1", "OPCODE"}
          /\ opState' = "OP1" => cycles' = Arrived + 1 - skipped
      BY <1>2, <2>2, <2>7
    <2>q. QED BY <1>a, <2>8, <2>9 DEF Later
  <1>12. CASE Handler \in Branches \cup {"bra"}
    <2>1. /\ At("OP0") \/ At("OP1") \/ At("OP2")
          /\ ~At("OP0") /\ Handler # "bra" => run.cond
          /\ At("OP2") => run.cross
      BY <1>3, <1>12 DEF Reached, At, Later, Shifts, BitOps, Stores, Branches
    <2>2. Arrived = IF Handler \in {"bbr", "bbs"} THEN 4 ELSE 1
      BY <1>3, <1>12 DEF GoesWith, Arrived, Branches, BitOps, Shifts, Stores, ReadOps, Registers, FlagOps
    <2>3. /\ cycles' = cycles + 1
          /\ \/ At("OP0") /\ opState' = "OP1" /\ (Handler # "bra" => run.cond)
             \/ At("OP0") /\ opState' = "OPCODE" /\ Handler # "bra" /\ ~run.cond
             \/ At("OP1") /\ opState' = "OP2" /\ run.cross
             \/ At("OP1") /\ opState' = "OPCODE" /\ ~run.cross
             \/ At("OP2") /\ opState' = "OPCODE"
      BY <1>3, <1>12, <2>1 DEF ByHandler, Branch, bra, BranchTaken, Read, Idle, Advance, Bit, At, Branches
    <2>4. tested = IF Handler = "bra" THEN 3 + (IF run.cross THEN 1 ELSE 0)
                   ELSE (IF Handler = "bxx" THEN 2 ELSE 5) + (IF run.cond THEN 1 ELSE 0)
                          + (IF run.cond /\ run.cross THEN 1 ELSE 0)
      BY <1>3, <1>12, TestedNext DEF tested, TestedIs, Bit, Branches
    <2>5. Handler \in {"bra", "bxx", "bbr", "bbs"} /\ skipped = 0
      BY <1>5, <1>12 DEF Branches
    <2>6. opState' = "OPCODE" => cycles' = tested
      BY <1>1, <1>2, <2>1, <2>2, <2>3, <2>4, <2>5 DEF At
    <2>7. /\ opState' \in {"OP1", "OP2", "OPCODE"}
          /\ opState' = "OP1" => cycles' = Arrived + 1 - skipped
          /\ opState' = "OP2" => cycles' = Arrived + 2 - skipped
      BY <1>1, <1>2, <2>3, <2>5
    <2>q. QED BY <1>a, <1>c, <1>12, <2>6, <2>7 DEF Later
  <1>13. CASE Handler \in Once
    <2>1. At("OP0")
      BY <1>3, <1>13 DEF Reached, At, Shifts, BitOps, Stores, Branches, Once, Registers, FlagOps
    <2>2. opState' = "OPCODE" /\ cycles' = cycles + 1
      BY <1>3, <1>13 DEF ByHandler, Idle, Advance, Bit
    <2>3. Handler # "jmp" => tested = 2
      BY <1>3, <1>13, TestedNext DEF tested, TestedIs
    <2>4. Handler = "jmp" => tested = IF Mode = "ABSO" THEN 3 ELSE 6
      BY <1>3, TestedNext DEF tested, TestedIs
    <2>5. Handler = "jmp" => Arrived = IF Mode = "ABSO" THEN 2 ELSE 5
      <3>1. Handler = "jmp" /\ Mode = "ABSO" => opcode = JMP
        BY <1>1, Decoded, Zenon DEF Handler, Mode
      <3>2. Handler = "jmp" => Mode \in {"ABSO", "IND", "ABIN"}
        BY <1>3 DEF GoesWith, BitOps, Shifts, Stores, ReadOps, Registers, FlagOps
      <3>q. QED BY <3>1, <3>2 DEF Arrived, JSR, JMP
    <2>6. Handler # "jmp" /\ ~Undocumented => Arrived = 1
      <3>1. Handler # "jmp" /\ ~Undocumented => Mode = "IMP"
        BY <1>3, <1>13 DEF GoesWith, Undocumented, Once, BitOps, Shifts, Stores, ReadOps, Registers, FlagOps
      <3>q. QED BY <3>1 DEF Arrived
    <2>q. QED BY <1>a, <1>c, <1>2, <1>13, <2>1, <2>2, <2>3, <2>4, <2>5, <2>6 DEF Later
  <1>14. CASE Handler = "brk"
    <2>1. At("OP0") /\ Arrived = 1
      BY <1>3, <1>14 DEF Reached, At, Shifts, BitOps, Stores, Branches, Once, Registers, FlagOps,
            GoesWith, ReadOps, Arrived
    <2>2. opState' = "VEC2" /\ cycles' = cycles + 1
      BY <1>3, <1>14 DEF ByHandler, brk, Idle, Advance, Bit
    <2>q. QED BY <1>a, <1>c, <1>2, <2>1, <2>2 DEF Later
  <1>15. CASE Handler \in {"jsr", "rts", "rti", "ph_", "pl_"}
    <2>1. skipped = 0 /\ Arrived = 1
      <3>1. Handler = "jsr" => opcode = JSR
        BY <1>1, Decoded, Zenon DEF Handler, Mode
      <3>2. Mode = IF Handler = "jsr" THEN "ABSO" ELSE "IMP"
        BY <1>3, <1>15 DEF GoesWith, BitOps, Shifts, Stores, ReadOps, Registers, FlagOps
      <3>q. QED BY <1>5, <1>15, <3>1, <3>2 DEF Arrived
    <2>2. /\ Handler = "ph_" => At("OP0") \/ At("OP1")
          /\ Handler = "pl_" => At("OP0") \/ At("OP1") \/ At("OP2")
      BY <1>3 DEF Reached, At, Shifts, BitOps, Stores, Branches
    <2>3. /\ cycles' = cycles + 1
          /\ \/ At("OP0") /\ opState' = "OP1"
             \/ At("OP1") /\ opState' = (IF Handler = "ph_" THEN "OPCODE" ELSE "OP2")
             \/ At("OP2") /\ opState' = (IF Handler = "pl_" THEN "OPCODE" ELSE "OP3")
             \/ At("OP3") /\ opState' = "OP4" /\ Handler \in {"jsr", "rts", "rti"}
             \/ At("OP4") /\ opState' = "OPCODE" /\ Handler \in {"jsr", "rts", "rti"}
      BY <1>3, <1>15, <2>2 DEF ByHandler, jsr, rts, rti, ph_, pl_, Read, Write, Idle, Advance, Bit, At
    <2>4. tested = IF Handler = "ph_" THEN 3 ELSE IF Handler = "pl_" THEN 4 ELSE 6
      BY <1>3, <1>15, TestedNext DEF tested, TestedIs
    <2>q. QED BY <1>a, <1>c, <1>1, <1>2, <1>15, <2>1, <2>3, <2>4 DEF Later, At
  <1>q. QED BY <1>7, <1>8, <1>9, <1>10, <1>11, <1>12, <1>13, <1>14, <1>15, Kinds

(* The disassembler's length is that of the addressing mode, or none.       *)
LEMMA Lengths ==
  \A a, o : LET length == disassemble_pc_string(a, o) IN length # 0 => length = addr_lengths(addrtable(o))
  BY DEF disassemble_pc_string, disassemble_opcode

PlacesOn ==
  /\ opState' = "OPCODE" /\ ~Jumps => pc' = Plus(run.at, addr_lengths(Mode))
  /\ Placed'

LEMMA OpPlaces ==
  ASSUME Typed, Reached, Placed, Operate
  PROVE  PlacesOn
  <1>1. /\ run' = run /\ Handler' = Handler /\ Mode' = Mode /\ GoesWith(Handler, Mode) /\ ByHandler
        /\ Stepped' = Stepped
        /\ opState \in Later \cup {"OP0"} /\ opcode \in Opcode
    BY DEF Operate, Typed, InstrTyped, Stepped
  <1>2. opState' \in Later \cup {"OPCODE", "VEC2"}
    BY OpEnds
  <1>3. CASE Handler \in {"jsr", "rts", "rti"}
    <2>1. opState' # "OP0"
      BY <1>2 DEF Later
    <2>q. QED BY <1>1, <1>2, <1>3, <2>1 DEF PlacesOn, Placed, Jumps, At, Later
  <1>4. CASE Handler \notin {"jsr", "rts", "rti"}
    <2>1. pc = Plus(run.at, Stepped)
      BY <1>1, <1>4 DEF Placed
    <2>2. pc' = pc \/ (opState' = "OPCODE" /\ Jumps)
      <3>1. CASE Handler \in ReadOps \cup Shifts \cup BitOps \cup {"inc", "dec"} \cup Stores
        BY <1>1, <3>1 DEF ByHandler, ReadsOperand, Decimal, ModifyAccumulator, ModifyMemory, inc, Store,
             Same, regs
      <3>2. CASE Handler \in Branches \cup {"bra"}
        <4>1. At("OP0") \/ Handler = "bra" \/ run.cond
          BY <1>1, <3>2 DEF Reached, At, Later
        <4>2. pc' = pc \/ (opState' = "OPCODE" /\ ~At("OP0"))
          BY <1>1, <3>2 DEF ByHandler, Branch, bra, BranchTaken, Read, Advance, Bit, Same, regs, At
        <4>q. QED BY <3>2, <4>1, <4>2 DEF Jumps, Branches
      <3>3. CASE Handler \in Once \cup {"brk"}
        <4>1. Handler # "jmp" => pc' = pc
          BY <1>1, <3>3 DEF ByHandler, brk
        <4>2. Handler = "jmp" => opState' = "OPCODE"
          BY <1>1, <3>3 DEF ByHandler, Idle, Advance, Bit, Once
        <4>q. QED BY <4>1, <4>2 DEF Jumps
      <3>4. CASE Handler \in {"ph_", "pl_"}
        BY <1>1, <3>4 DEF ByHandler, ph_, pl_, Same, regs, KeepButStack
      <3>q. QED BY <1>4, <3>1, <3>2, <3>3, <3>4, Kinds DEF ReadOps
    <2>3. ~Jumps => Stepped = addr_lengths(Mode)
      <3>1. ~Jumps => Mode \notin {"IND", "ABIN"} /\ (Mode = "ABSO" => opcode # JSR)
        <4>1. Handler = "jsr" <=> opcode = JSR
          BY <1>1, Decoded, Zenon DEF Handler
        <4>q. QED BY <1>1, <4>1 DEF Jumps, GoesWith, BitOps, Shifts, Stores, ReadOps, Registers, FlagOps, Addressed
      <3>2. Mode \in {"IMP", "ACC", "IMM", "REL", "ZPREL", "IND", "ABIN"} \cup Addressed
        BY <1>1 DEF GoesWith, BitOps, Addressed
      <3>q. QED BY <3>1, <3>2 DEF Stepped, addr_lengths, Addressed
    <2>q. QED BY <1>1, <1>2, <1>4, <2>1, <2>2, <2>3 DEF PlacesOn, Placed, At, Later
  <1>q. QED BY <1>3, <1>4

AccessesOn ==
  /\ consumed' /\ ~(opState' = "OPCODE" /\ (Undocumented \/ (Handler \in {"adc", "sbc"} /\ status.d))) =>
       accesses' = 1
  /\ status' = status \/ Handler \notin {"adc", "sbc"}
  /\ Accessed'

LEMMA OpAccesses ==
  ASSUME Typed, Reached, Accessed, Operate
  PROVE  AccessesOn
  <1> DEFINE peeks == Mode \in {"IMP", "ACC", "REL", "IND", "ABIN", "ZPREL"} \/ opcode = JMP
  <1>1. /\ Handler' = Handler /\ Mode' = Mode /\ GoesWith(Handler, Mode) /\ ByHandler
        /\ opState \in Later \cup {"OP0"} /\ opcode' = opcode /\ opcode \in Opcode
        /\ inTick /\ inTick' = inTick
    BY DEF Operate, Typed, InstrTyped, Turn
  <1>2. accesses = IF (At("OP0") /\ peeks) \/ (At("OP1") /\ Mode = "ACC") THEN 1 ELSE 0
    BY DEF Operate, Accessed, Peeked, Bit
  <1>3. Peeked' <=> (opState' = "OP0" /\ peeks) \/ (opState' = "OP1" /\ Mode = "ACC")
    BY <1>1 DEF Peeked, At
  <1>4. opState' # "OP0"
    BY OpEnds DEF Later
  <1>5. Handler \notin {"jmp"} => opcode # JMP
    BY <1>1, Decoded, Zenon DEF Handler
  <1>6. SUFFICES
          /\ \/ consumed' = TRUE /\ accesses' = 1 /\ (opState' = "OP1" => Mode # "ACC")
             \/ consumed' = TRUE /\ accesses' = 0 /\ opState' = "OPCODE"
                /\ (Undocumented \/ (Handler \in {"adc", "sbc"} /\ status.d))
             \/ consumed' = FALSE /\ opState' = "OP1" /\ accesses' = (IF Mode = "ACC" THEN 1 ELSE 0)
          /\ status' = status \/ Handler \notin {"adc", "sbc"}
    BY <1>1, <1>3, <1>4 DEF AccessesOn, Accessed, Turn, Bit
  <1>7. CASE Handler \in ReadOps
    <2>1. Mode \notin {"IMP", "ACC", "REL", "IND", "ABIN", "ZPREL"} /\ Handler # "jmp"
      BY <1>1, <1>7 DEF GoesWith, Addressed, Shifts, BitOps, Stores, ReadOps, Registers, FlagOps
    <2>2. /\ accesses = 0
          /\ At("OP0") \/ (Handler \in {"adc", "sbc"} /\ status.d)
      BY <1>1, <1>2, <1>5, <1>7, <2>1 DEF Reached, At, Later, ReadOps, Shifts, BitOps, Stores, Branches
    <2>q. QED BY <1>1, <1>7, <2>1, <2>2 DEF ByHandler, ReadsOperand, Decimal, Get, Read, Idle, Advance, Bit, Same, regs
  <1>8. CASE Handler \in Shifts \cup BitOps
    <2>1. /\ Mode \in Addressed \cup {"ACC"} /\ (Handler \in BitOps => Mode # "ACC")
          /\ Handler \notin {"jmp", "adc", "sbc"}
      BY <1>1, <1>8 DEF GoesWith, Addressed, Shifts, BitOps, ReadOps, Registers, FlagOps
    <2>2. CASE Mode = "ACC"
      <3>1. At("OP0") /\ Handler \in Shifts
        BY <1>1, <1>8, <2>1, <2>2 DEF Reached, At, Later
      <3>2. consumed' = TRUE /\ opState' = "OPCODE" /\ accesses' = accesses
        BY <1>1, <2>2, <3>1 DEF ByHandler, ModifyAccumulator, Put, Idle, Advance, Bit
      <3>q. QED BY <1>2, <2>1, <2>2, <3>1, <3>2
    <2>3. CASE Mode # "ACC"
      <3>1. accesses = 0
        BY <1>2, <1>5, <2>1, <2>3 DEF Addressed
      <3>2. consumed' = TRUE /\ accesses' = accesses + 1
        BY <1>1, <1>8, <2>3 DEF ByHandler, ModifyAccumulator, ModifyMemory, Put, Read, Write, Advance, Bit
      <3>q. QED BY <2>1, <2>3, <3>1, <3>2
    <2>q. QED BY <2>2, <2>3
  <1>9. CASE Handler \in {"inc", "dec"}
    <2>1. /\ Mode \in {"ACC", "ZP", "ZPX", "ABSO", "ABSX"} /\ inc
          /\ Handler \notin {"jmp", "adc", "sbc"}
      BY <1>1, <1>9 DEF GoesWith, ByHandler, BitOps, Stores, Addressed, Shifts, ReadOps, Registers, FlagOps
    <2>2. CASE Mode = "ACC"
      <3>1. accesses = 1 /\ (At("OP0") \/ At("OP1"))
        BY <1>1, <1>2, <1>9, <2>2 DEF Reached, At, Later
      <3>2. \/ consumed' = FALSE /\ opState' = "OP1" /\ accesses' = accesses
            \/ consumed' = TRUE /\ opState' = "OPCODE" /\ accesses' = accesses
        BY <2>1, <2>2, <3>1 DEF inc, Get, Skip, Idle, Advance, Bit, At
      <3>q. QED BY <2>1, <2>2, <3>1, <3>2
    <2>3. CASE Mode # "ACC"
      <3>1. accesses = 0
        BY <1>2, <1>5, <2>1, <2>3
      <3>2. \/ consumed' = TRUE /\ accesses' = accesses + 1
            \/ consumed' = FALSE /\ opState' = "OP1" /\ accesses' = accesses
        BY <2>1, <2>3 DEF inc, Get, Put, Skip, Read, Write, Advance, Bit
      <3>q. QED BY <2>1, <2>3, <3>1, <3>2
    <2>q. QED BY <2>2, <2>3
  <1>10. CASE Handler \in Stores
    <2>1. Mode \in Addressed /\ Handler \notin {"jmp", "adc", "sbc"}
      BY <1>1, <1>10 DEF GoesWith, BitOps, Stores, Addressed, Shifts, ReadOps, Registers, FlagOps
    <2>2. accesses = 0 /\ Mode # "ACC"
      BY <1>2, <1>5, <2>1 DEF Addressed
    <2>3. consumed' = TRUE /\ accesses' = accesses + 1
      BY <1>1, <1>10, <2>2 DEF ByHandler, Store, Put, Read, Write, Advance, Bit
    <2>q. QED BY <2>1, <2>2, <2>3
  <1>11. CASE Handler \in Branches \cup {"bra"}
    <2>1. Mode \in {"REL", "ZPREL"} /\ Handler \notin {"jmp", "adc", "sbc"}
      BY <1>1, <1>11 DEF GoesWith, Branches, BitOps, Shifts, Stores, ReadOps, Registers, FlagOps
    <2>2. accesses = IF At("OP0") THEN 1 ELSE 0
      BY <1>2, <1>5, <2>1
    <2>3. consumed' = TRUE /\ accesses' = IF At("OP0") THEN accesses ELSE accesses + 1
      BY <1>1, <1>11 DEF ByHandler, Branch, bra, BranchTaken, Read, Idle, Advance, Bit, At
    <2>q. QED BY <2>1, <2>2, <2>3
  <1>12. CASE Handler \in Once \cup {"brk"}
    <2>1. At("OP0") /\ Handler \notin {"adc", "sbc"}
      BY <1>1, <1>12 DEF Reached, At, Later, Shifts, BitOps, Stores, Branches, Once, Registers, FlagOps
    <2>2. consumed' = TRUE /\ accesses' = accesses /\ opState' \in {"OPCODE", "VEC2"}
          /\ (Handler # "brk" => opState' = "OPCODE")
      BY <1>1, <1>12 DEF ByHandler, brk, Idle, Advance, Bit
    <2>3. peeks \/ Undocumented
      <3>1. Handler = "jmp" /\ Mode = "ABSO" => opcode = JMP
        BY <1>1, Decoded, Zenon DEF Handler, Mode
      <3>2. Handler # "jmp" => Mode = "IMP" \/ Handler = "nop"
        BY <1>1, <1>12 DEF GoesWith, Once, BitOps, Shifts, Stores, ReadOps, Registers, FlagOps
      <3>3. Handler = "jmp" => Mode \in {"ABSO", "IND", "ABIN"}
        BY <1>1 DEF GoesWith, BitOps, Shifts, Stores, ReadOps, Registers, FlagOps
      <3>q. QED BY <3>1, <3>2, <3>3 DEF Undocumented
    <2>4. Handler = "brk" => ~Undocumented
      BY DEF Undocumented
    <2>q. QED BY <1>2, <2>1, <2>2, <2>3, <2>4
  <1>13. CASE Handler \in {"jsr", "rts", "rti", "ph_", "pl_"}
    <2>1. /\ Mode = (IF Handler = "jsr" THEN "ABSO" ELSE "IMP")
          /\ Handler \notin {"jmp", "adc", "sbc"}
      BY <1>1, <1>13 DEF GoesWith, BitOps, Shifts, Stores, ReadOps, Registers, FlagOps
    <2>2. accesses = IF At("OP0") /\ Handler # "jsr" THEN 1 ELSE 0
      BY <1>2, <1>5, <2>1
    <2>3. consumed' = TRUE /\ accesses' = IF At("OP0") /\ Handler # "jsr" THEN accesses ELSE accesses + 1
      BY <1>1, <1>13 DEF ByHandler, jsr, rts, rti, ph_, pl_, Read, Write, Idle, Advance, Bit, At
    <2>q. QED BY <2>1, <2>2, <2>3
  <1>14. \/ Handler \in ReadOps \/ Handler \in Shifts \cup BitOps \/ Handler \in {"inc", "dec"}
         \/ Handler \in Stores \/ Handler \in Branches \cup {"bra"} \/ Handler \in Once \cup {"brk"}
         \/ Handler \in {"jsr", "rts", "rti", "ph_", "pl_"}
    BY Kinds DEF ReadOps
  <1>q. QED BY <1>7, <1>8, <1>9, <1>10, <1>11, <1>12, <1>13, <1>14

-----------------------------------------------------------------------------
(* The inductive invariant of the three properties.                         *)
Proceeds ==
  /\ Reached /\ Counted /\ Paged /\ Placed /\ Accessed
  /\ CyclesAsTested /\ OneAccessPerCycle /\ NextIsDisassembled

LEMMA Midway ==
  ASSUME Reached', Counted', Paged', Placed', Accessed', opState' # "OPCODE",
         consumed' => accesses' = 1
  PROVE  Proceeds'
  <1>1. CyclesAsTested' /\ NextIsDisassembled'
    BY DEF CyclesAsTested, NextIsDisassembled, Ended, At
  <1>2. OneAccessPerCycle'
    BY DEF OneAccessPerCycle, Accessed
  <1>q. QED BY <1>1, <1>2 DEF Proceeds

LEMMA AddressProceeds ==
  ASSUME Typed, Proceeds, AddressTurn
  PROVE  Proceeds'
  <1>1. Reached' /\ Counted' /\ Paged' /\ Placed' /\ Accessed' /\ (consumed' => accesses' = 1)
    BY AddressReaches, AddressCounts, AddressPages, AddressPlaces, AddressAccesses DEF Proceeds, Typed
  <1>2. opState' # "OPCODE"
    BY AddressTurnTyped
  <1>q. QED BY <1>1, <1>2, Midway

LEMMA OpProceeds ==
  ASSUME Typed, Proceeds, OpTurn
  PROVE  Proceeds'
  <1>1. Operate /\ run.kind = "instr" /\ run' = run /\ Handler' = Handler /\ Mode' = Mode
        /\ opcode' = opcode /\ MisreadsPageFlag' = MisreadsPageFlag /\ Undocumented' = Undocumented
        /\ Jumps' = Jumps
    <2>1. Operate
      BY OpOperates
    <2>2. run' = run /\ Handler' = Handler /\ Mode' = Mode /\ opcode' = opcode /\ run.kind = "instr"
      BY <2>1 DEF Operate, Proceeds, Reached
    <2>q. QED BY <2>1, <2>2 DEF MisreadsPageFlag, LooksAtPageFlag, Undocumented, Jumps
  <1>2. Reached' /\ Paged' /\ CountsOn /\ PlacesOn /\ AccessesOn
    BY <1>1, OpReaches, OpPages, OpCounts, OpPlaces, OpAccesses DEF Proceeds
  <1>3. Counted'
    <2>1. Arrived' = Arrived /\ Skipped' = Skipped
      BY <1>1, OpPages DEF Proceeds, Arrived, Skipped
    <2>q. QED BY <1>2, <2>1 DEF Counted, CountsOn, At, Later
  <1>4. CyclesAsTested'
    <2>1. cycles' \in Nat
      BY OpTurnTyped DEF Typed, MovesTyped
    <2>2. ASSUME opState' = "OPCODE", ~Undocumented
          PROVE  cycles' = TestedCycles(Handler, Mode)' - Bit(MisreadsPageFlag)
      <3>1. CASE MisreadsPageFlag
        BY <1>2, <2>2, <3>1 DEF CountsOn, Bit
      <3>2. CASE ~MisreadsPageFlag
        BY <1>2, <2>1, <2>2, <3>2 DEF CountsOn, Bit
      <3>q. QED BY <3>1, <3>2
    <2>3. Bit(MisreadsPageFlag)' = Bit(MisreadsPageFlag)
      BY <1>1 DEF Bit
    <2>q. QED BY <1>1, <2>2, <2>3 DEF CyclesAsTested, Ended, At
  <1>5. NextIsDisassembled'
    <2>1. ASSUME At("OPCODE")', ~Jumps PROVE pc' = Plus(run.at, addr_lengths(Mode))
      BY <1>2, <2>1 DEF PlacesOn, At
    <2>2. disassemble_pc_string(run.at, opcode) # 0 => disassemble_pc_string(run.at, opcode) = addr_lengths(Mode)
      BY Lengths, Zenon DEF Mode
    <2>3. disassemble_pc_string(run.at, opcode)' = disassemble_pc_string(run.at, opcode)
      BY <1>1 DEF disassemble_pc_string
    <2>q. QED BY <1>1, <2>1, <2>2, <2>3 DEF NextIsDisassembled, Ended
  <1>6. OneAccessPerCycle'
    BY <1>1, <1>2 DEF OneAccessPerCycle, AccessesOn, Accessed, DecimalCycle, At
  <1>q. QED BY <1>2, <1>3, <1>4, <1>5, <1>6 DEF Proceeds, PlacesOn, AccessesOn

LEMMA VectorProceeds ==
  ASSUME Typed, Proceeds, VectorTurn
  PROVE  Proceeds'
  <1>1. /\ vector /\ opcode' = opcode /\ run' = run /\ inTick' = inTick /\ inTick /\ Turn
        /\ opState \in {"VEC0", "VEC1", "VEC2", "VEC3", "VEC4", "VEC5", "VEC6"}
        /\ Mode' = Mode /\ Handler' = Handler
    BY DEF VectorTurn, instr, Turn, Mode, Handler
  <1>2. /\ accesses = 0 /\ (run.kind = "instr" => Handler = "brk") /\ cycles \in Nat
        /\ run.kind \in {"instr", "int"} /\ opcode \in Opcode
    BY <1>1 DEF Proceeds, Accessed, Peeked, At, Bit, Reached, Params, Later, Typed, MovesTyped, InstrTyped
  <1>3. /\ accesses' = 1 /\ consumed' = TRUE /\ cycles' = cycles + 1
        /\ \/ At("VEC0") /\ opState' = "VEC1"
           \/ At("VEC1") /\ opState' = "VEC2"
           \/ At("VEC2") /\ opState' = "VEC3"
           \/ At("VEC3") /\ opState' = "VEC4"
           \/ At("VEC4") /\ opState' = "VEC5"
           \/ At("VEC5") /\ opState' = "VEC6"
           \/ At("VEC6") /\ opState' = "OPCODE"
    BY <1>1, <1>2 DEF vector, Read, Write, Advance, Bit
  <1>4. Reached' /\ Paged' /\ Placed' /\ Accessed'
    <2>1. opState' \notin Params \cup Later \cup {"OP0"}
      BY <1>3 DEF Params, Later
    <2>2. Reached'
      BY <1>1, <1>2, <2>1 DEF Reached, At, Params, Later
    <2>3. Paged' /\ Placed'
      BY <2>1 DEF Paged, Placed, At, Params, Later
    <2>4. Accessed'
      BY <1>1, <1>3, <2>1 DEF Accessed, Peeked, Turn, At, Later
    <2>q. QED BY <2>2, <2>3, <2>4
  <1>5. /\ opState' = "OPCODE" => cycles' = 7
        /\ Counted'
    BY <1>2, <1>3 DEF Proceeds, Counted, At
  <1>6. CyclesAsTested'
    <2>1. Handler = "brk" => TestedCycles(Handler, Mode)' = 7
      <3>1. GoesWith(Handler, Mode)
        BY <1>2, Decoded DEF Handler, Mode
      <3>q. QED BY <1>1, <3>1, TestedNext DEF TestedIs
    <2>2. Handler = "brk" => Bit(MisreadsPageFlag)' = 0
      BY <1>1 DEF MisreadsPageFlag, LooksAtPageFlag, Stores, Bit
    <2>q. QED BY <1>1, <1>2, <1>5, <2>1, <2>2 DEF CyclesAsTested, Ended, At
  <1>7. NextIsDisassembled'
    BY <1>1, <1>2 DEF NextIsDisassembled, Ended, Jumps
  <1>8. OneAccessPerCycle'
    BY <1>3 DEF OneAccessPerCycle
  <1>q. QED BY <1>4, <1>5, <1>6, <1>7, <1>8 DEF Proceeds

LEMMA InterruptProceeds ==
  ASSUME Typed, Proceeds, TakeNmi \/ TakeIrq
  PROVE  Proceeds'
  <1>1. /\ opState' = "VEC0" /\ cycles' = 0 /\ run'.kind = "int" /\ Turn /\ At("OPCODE")
        /\ UNCHANGED <<opcode, inTick, consumed, accesses>>
    BY DEF TakeNmi, TakeIrq, EnterVector, Begin
  <1>2. accesses = 0 /\ consumed = FALSE /\ inTick
    BY <1>1 DEF Proceeds, Accessed, Peeked, At, Bit, Turn, Typed, MovesTyped
  <1>3. Reached' /\ Counted' /\ Paged' /\ Placed'
    BY <1>1 DEF Reached, Counted, Paged, Placed, At, Params, Later
  <1>4. Accessed'
    BY <1>1, <1>2 DEF Accessed, Peeked, At, Bit, Turn
  <1>q. QED BY <1>1, <1>2, <1>3, <1>4, Midway

LEMMA FetchProceeds ==
  ASSUME Typed, Proceeds, FetchOpcode
  PROVE  Proceeds'
  <1>1. /\ opState' = "PARAM0" /\ cycles' = 1 /\ consumed' = TRUE /\ accesses' = accesses + 1
        /\ pc' = Plus(pc, 1) /\ page' = page /\ inTick' = inTick /\ Turn /\ At("OPCODE")
    BY DEF FetchOpcode
  <1>2. run'.kind = "instr" /\ run'.at = pc /\ run'.stale = page
    BY DEF FetchOpcode, Begin
  <1>3. accesses = 0 /\ inTick /\ page \in BOOLEAN
    BY <1>1 DEF Proceeds, Accessed, Peeked, At, Bit, Turn, Typed, RegsTyped
  <1>4. Reached'
    BY <1>1, <1>2 DEF Reached, At, Params, Later
  <1>5. Counted'
    BY <1>1 DEF Counted, At
  <1>6. Paged'
    BY <1>1, <1>2, <1>3 DEF Paged, At, Later
  <1>7. Placed'
    BY <1>1, <1>2 DEF Placed, At, Later
  <1>8. Accessed'
    BY <1>1, <1>3 DEF Accessed, Peeked, At, Turn
  <1>q. QED BY <1>1, <1>3, <1>4, <1>5, <1>6, <1>7, <1>8, Midway

LEMMA EdgeProceeds ==
  ASSUME Typed, Proceeds, HeldTick \/ BeginTick \/ EndTick \/ DrivePins \/ UNCHANGED vars
  PROVE  Proceeds'
  <1>1. /\ opState' = opState /\ opcode' = opcode /\ run' = run /\ page' = page /\ pc' = pc
        /\ cycles' = cycles /\ status' = status
    BY DEF HeldTick, BeginTick, EndTick, DrivePins, vars, regs, instr
  <1>2. Mode' = Mode /\ Handler' = Handler
    BY <1>1 DEF Mode, Handler
  <1>3. Reached'
    BY <1>1, <1>2 DEF Proceeds, Reached, At
  <1>4. Counted'
    <2>1. Arrived' = Arrived /\ Skipped' = Skipped
      BY <1>1, <1>2 DEF Arrived, Skipped
    <2>q. QED BY <1>1, <2>1 DEF Proceeds, Counted, At
  <1>5. Paged'
    BY <1>1, <1>2 DEF Proceeds, Paged, At
  <1>6. Placed'
    <2>1. Stepped' = Stepped
      BY <1>1, <1>2 DEF Stepped
    <2>q. QED BY <1>1, <1>2, <2>1 DEF Proceeds, Placed, At
  <1>7. CyclesAsTested'
    <2>1. TestedCycles(Handler, Mode)' = TestedCycles(Handler, Mode)
      BY <1>1, <1>2 DEF TestedCycles
    <2>2. Bit(MisreadsPageFlag)' = Bit(MisreadsPageFlag) /\ (Undocumented' <=> Undocumented)
      BY <1>1, <1>2 DEF MisreadsPageFlag, LooksAtPageFlag, Undocumented
    <2>q. QED BY <1>1, <2>1, <2>2 DEF Proceeds, CyclesAsTested, Ended, At
  <1>8. NextIsDisassembled'
    <2>1. disassemble_pc_string(run.at, opcode)' = disassemble_pc_string(run.at, opcode)
      BY <1>1 DEF disassemble_pc_string
    <2>2. Jumps' <=> Jumps
      BY <1>1, <1>2 DEF Jumps
    <2>q. QED BY <1>1, <2>1, <2>2 DEF Proceeds, NextIsDisassembled, Ended, At
  <1>9. Peeked' <=> Peeked
    BY <1>1, <1>2 DEF Peeked, At
  <1>10. /\ consumed \in BOOLEAN /\ inTick \in BOOLEAN /\ accesses \in {0, 1}
         /\ consumed => inTick
         /\ Peeked => Turn
         /\ Turn => accesses = Bit(Peeked)
    BY DEF Proceeds, Accessed, Typed, MovesTyped
  <1>11. CASE UNCHANGED <<inTick, consumed, accesses>>
    <2>1. Accessed'
      BY <1>9, <1>10, <1>11 DEF Accessed, Turn, Bit
    <2>2. OneAccessPerCycle'
      BY <1>1, <1>2, <1>11 DEF Proceeds, OneAccessPerCycle, At, Undocumented, DecimalCycle
    <2>q. QED BY <1>3, <1>4, <1>5, <1>6, <1>7, <1>8, <2>1, <2>2 DEF Proceeds
  <1>12. CASE HeldTick \/ BeginTick \/ EndTick
    <2>1. /\ \/ inTick' = FALSE /\ accesses' \in {1, accesses}
             \/ inTick' = TRUE /\ accesses' = 0
          /\ consumed' = FALSE /\ ~Turn
      BY <1>10, <1>12 DEF HeldTick, BeginTick, EndTick, Turn
    <2>2. Accessed'
      BY <1>9, <1>10, <2>1 DEF Accessed, Turn, Bit
    <2>3. OneAccessPerCycle'
      BY <1>10, <2>1 DEF OneAccessPerCycle
    <2>q. QED BY <1>3, <1>4, <1>5, <1>6, <1>7, <1>8, <2>2, <2>3 DEF Proceeds
  <1>q. QED BY <1>11, <1>12 DEF DrivePins, vars

LEMMA AlwaysProceeds == Spec => [](Typed /\ FetchHasWork /\ Proceeds)
  <1>1. Init => Proceeds
    <2>1. ASSUME Init
          PROVE  /\ opState = "VEC0" /\ cycles = 0 /\ run.kind = "int" /\ inTick = FALSE
                 /\ consumed = FALSE /\ accesses = 0
      BY <2>1 DEF Init
    <2>2. ASSUME Init PROVE Reached /\ Counted /\ Paged /\ Placed
      BY <2>1, <2>2 DEF Reached, Counted, Paged, Placed, At, Params, Later
    <2>3. ASSUME Init PROVE Accessed /\ CyclesAsTested /\ NextIsDisassembled /\ OneAccessPerCycle
      BY <2>1, <2>3 DEF Accessed, Peeked, Turn, At, Bit, CyclesAsTested, NextIsDisassembled,
           OneAccessPerCycle, Ended
    <2>q. QED BY <2>2, <2>3 DEF Proceeds
  <1>2. Typed /\ Proceeds /\ [Next]_vars => Proceeds'
    BY AddressProceeds, OpProceeds, VectorProceeds, InterruptProceeds, FetchProceeds, EdgeProceeds
    DEF Next, CpuStep
  <1>q. QED BY <1>1, <1>2, AlwaysTyped, PTL DEF Spec

(* Every opcode takes the cycles that the tests give it, an interrupt 7:    *)
(* cpu_tick and the handlers of all modes and instructions.                *)
THEOREM EveryInstructionTimed == Spec => []CyclesAsTested
  <1>1. Proceeds => CyclesAsTested
    BY DEF Proceeds
  <1>q. QED BY <1>1, AlwaysProceeds, PTL

(* Each cycle that cpu_tick consumes is one bus operation, with the two     *)
(* exceptions that OneAccessPerCycle names.                                *)
THEOREM EveryCycleAnAccess == Spec => []OneAccessPerCycle
  <1>1. Proceeds => OneAccessPerCycle
    BY DEF Proceeds
  <1>q. QED BY <1>1, AlwaysProceeds, PTL

(* The lengths of the disassembler's addr_lengths are the bytes that the    *)
(* handlers of the addressing modes step over.                             *)
THEOREM DisassemblyFollowsTheCpu == Spec => []NextIsDisassembled
  <1>1. Proceeds => NextIsDisassembled
    BY DEF Proceeds
  <1>q. QED BY <1>1, AlwaysProceeds, PTL

-----------------------------------------------------------------------------
(* Calls, interrupts and returns: what a frame on the stack holds, ...      *)
Call(hi, lo) ==
  hi.role = "jsrHi" /\ lo.role = "jsrLo" => lo.pc = Plus(lo.byte + ByteSize * hi.byte, 1)

Interrupted(hi, lo, st) ==
  hi.role = "intHi" /\ lo.role = "intLo" /\ st.role = "intSt" => st.pc = lo.byte + ByteSize * hi.byte

Kept(st) ==
  st.role = "intSt" => /\ ByteStatus(st.byte).i = st.status.i
                       /\ ByteStatus(st.byte).d = st.status.d

Framed ==
  /\ \A k \in 1 .. Len(pushed) - 1 : Call(pushed[k], pushed[k + 1])
  /\ \A k \in 1 .. Len(pushed) - 2 : Interrupted(pushed[k], pushed[k + 1], pushed[k + 2])
  /\ \A k \in 1 .. Len(pushed) : Kept(pushed[k])

(* ... what the sequence that builds one has got, ...                      *)
Vec == {"VEC0", "VEC1", "VEC2", "VEC3", "VEC4", "VEC5", "VEC6"}

Framing ==
  /\ Handler = "jsr" /\ opState \in {"OP1", "OP2", "OP3"} => pc = Plus(run.at, 2)
  /\ Handler = "jsr" /\ At("OP3") => Len(pushed) >= 1 /\ pushed[Len(pushed)].byte = Hi(pc)
  /\ opState \in {"VEC0", "VEC1", "VEC2", "VEC3", "VEC4"} => Resume = pc
  /\ At("VEC3") => Len(pushed) >= 1 /\ pushed[Len(pushed)].byte = Hi(pc)
  /\ At("VEC4") => /\ Len(pushed) >= 2
                   /\ pushed[Len(pushed)].byte = Lo(pc) /\ pushed[Len(pushed) - 1].byte = Hi(pc)

(* ... and what the return that takes one apart has still to do.            *)
Returning ==
  /\ expect.known => Handler \in {"rts", "rti"} /\ opState \in {"OP3", "OP4", "OPCODE"}
  /\ expect.known /\ Handler = "rts" /\ At("OP3") =>
       Len(pushed) >= 1 /\ expect.pc = Plus(tmpval + ByteSize * pushed[Len(pushed)].byte, 1)
  /\ expect.known /\ Handler = "rts" /\ At("OP4") => expect.pc = Plus(pc, 1)
  /\ expect.known /\ Handler = "rti" /\ At("OP3") =>
       /\ Len(pushed) >= 2
       /\ expect.pc = pushed[Len(pushed)].byte + ByteSize * pushed[Len(pushed) - 1].byte
  /\ expect.known /\ Handler = "rti" /\ At("OP4") =>
       Len(pushed) >= 1 /\ expect.pc = tmpval + ByteSize * pushed[Len(pushed)].byte
  /\ expect.known /\ Handler = "rti" => status.i = expect.status.i /\ status.d = expect.status.d
  /\ expect.known /\ At("OPCODE") => pc = expect.pc

LEMMA PushTop ==
  ASSUME RegsTyped, StackIsLifo, NEW v, NEW item \in PushedItem, Push(v, item)
  PROVE  /\ Len(pushed) \in Nat /\ Len(pushed') \in Nat
         /\ pushed'[Len(pushed')] = item
         /\ \E d \in {0, 1} : /\ Len(pushed') + d = Len(pushed) + 1
                              /\ d = 1 => Len(pushed) >= 8
                              /\ \A k \in 1 .. Len(pushed') - 1 : pushed'[k] = pushed[k + d]
  <1> DEFINE n == Len(pushed)
             m == Len(pushed')
  <1>1. /\ ByteSize \in Nat /\ ByteSize >= 8
        /\ pushed \in Seq(PushedItem) /\ n \in Nat /\ n <= ByteSize
    BY Sizes DEF RegsTyped, StackIsLifo
  <1>2. CASE n < ByteSize
    <2>1. pushed' = Append(pushed, item)
      BY <1>2 DEF Push
    <2>2. m = n + 1 /\ pushed'[m] = item /\ \A k \in 1 .. n : pushed'[k] = pushed[k]
      BY <1>1, <2>1
    <2>3. m + 0 = n + 1 /\ \A k \in 1 .. m - 1 : pushed'[k] = pushed[k + 0]
      BY <1>1, <2>2
    <2>q. QED BY <1>1, <2>2, <2>3
  <1>3. CASE n = ByteSize
    <2>1. pushed' = Append(Tail(pushed), item)
      BY <1>1, <1>3 DEF Push
    <2>2. pushed # <<>>
      BY <1>1, <1>3
    <2>3. /\ Tail(pushed) \in Seq(PushedItem) /\ Len(Tail(pushed)) = n - 1
          /\ \A i \in 1 .. n - 1 : Tail(pushed)[i] = pushed[i + 1]
      BY <1>1, <2>2
    <2>4. m = n /\ pushed'[m] = item /\ \A i \in 1 .. n - 1 : pushed'[i] = pushed[i + 1]
      BY <1>1, <1>3, <2>1, <2>3
    <2>q. QED BY <1>1, <1>3, <2>4
  <1>q. QED BY <1>1, <1>2, <1>3

LEMMA PullTop ==
  ASSUME RegsTyped, StackIsLifo, Pull
  PROVE  /\ Len(pushed) \in Nat
         /\ Len(pushed) = 0 => Len(pushed') = 0
         /\ Len(pushed) > 0 => /\ Len(pushed') = Len(pushed) - 1
                               /\ \A k \in 1 .. Len(pushed) - 1 : pushed'[k] = pushed[k]
                               /\ Pulled = pushed[Len(pushed)].byte
  <1> DEFINE n == Len(pushed)
  <1>1. pushed \in Seq(PushedItem) /\ n \in Nat
    BY DEF RegsTyped
  <1>2. CASE pushed = <<>>
    BY <1>2 DEF Pull
  <1>3. CASE pushed # <<>>
    <2>1. pushed' = SubSeq(pushed, 1, n - 1)
      BY <1>3 DEF Pull
    <2>2. n > 0 /\ \A i \in 1 .. n - 1 : pushed[i] \in PushedItem
      BY <1>1, <1>3
    <2>3. /\ Len(SubSeq(pushed, 1, n - 1)) = IF 1 <= n - 1 THEN n - 1 - 1 + 1 ELSE 0
          /\ \A i \in 1 .. n - 1 - 1 + 1 : SubSeq(pushed, 1, n - 1)[i] = pushed[1 + i - 1]
      BY <1>1, <2>2, SubSeqProperties
    <2>4. n - 1 - 1 + 1 = n - 1 /\ (\A i \in 1 .. n - 1 : 1 + i - 1 = i)
          /\ (IF 1 <= n - 1 THEN n - 1 ELSE 0) = n - 1
      <3> HIDE DEF n
      <3>1. n \in Nat /\ n >= 1
        BY <1>1, <2>2
      <3>q. QED BY <3>1
    <2>5. Len(pushed') = n - 1 /\ \A i \in 1 .. n - 1 : pushed'[i] = pushed[i]
      <3>1. Len(pushed') = n - 1
        BY <2>1, <2>3, <2>4
      <3>2. \A i \in 1 .. n - 1 : pushed'[i] = pushed[1 + i - 1]
        BY <2>1, <2>3, <2>4
      <3>3. \A i \in 1 .. n - 1 : pushed[1 + i - 1] = pushed[i]
        BY <2>4
      <3>q. QED BY <3>1, <3>2, <3>3
    <2>6. Pulled = pushed[n].byte
      <3>1. 1 \in 1 .. n /\ n + 1 - 1 = n
        BY <1>1, <2>2
      <3>q. QED BY <3>1 DEF StackIsLifo, Pulled
    <2>q. QED BY <1>1, <2>2, <2>5, <2>6
  <1>q. QED BY <1>2, <1>3

LEMMA PushFramed ==
  ASSUME RegsTyped, StackIsLifo, Framed, NEW v, NEW item \in PushedItem, Push(v, item), Kept(item),
         Len(pushed) >= 1 => Call(pushed[Len(pushed)], item),
         Len(pushed) >= 2 => Interrupted(pushed[Len(pushed) - 1], pushed[Len(pushed)], item)
  PROVE  /\ Framed' /\ Len(pushed') >= 1 /\ pushed'[Len(pushed')] = item
         /\ Len(pushed) >= 1 => Len(pushed') >= 2 /\ pushed'[Len(pushed') - 1] = pushed[Len(pushed)]
  <1> DEFINE n == Len(pushed)
             m == Len(pushed')
  <1>1. n \in Nat /\ m \in Nat /\ pushed'[m] = item
    BY PushTop
  <1>2. PICK d \in {0, 1} : /\ m + d = n + 1 /\ (d = 1 => n >= 8)
                            /\ \A k \in 1 .. m - 1 : pushed'[k] = pushed[k + d]
    BY PushTop
  <1>3. /\ \A k \in 1 .. n - 1 : Call(pushed[k], pushed[k + 1])
        /\ \A k \in 1 .. n - 2 : Interrupted(pushed[k], pushed[k + 1], pushed[k + 2])
        /\ \A k \in 1 .. n : Kept(pushed[k])
    BY DEF Framed
  <1>4. /\ n >= 1 => Call(pushed[n], item)
        /\ n >= 2 => Interrupted(pushed[n - 1], pushed[n], item)
    OBVIOUS
  <1>5. SUFFICES /\ \A k \in 1 .. m - 1 : Call(pushed'[k], pushed'[k + 1])
                 /\ \A k \in 1 .. m - 2 : Interrupted(pushed'[k], pushed'[k + 1], pushed'[k + 2])
                 /\ \A k \in 1 .. m : Kept(pushed'[k])
                 /\ m >= 1 /\ (n >= 1 => m >= 2 /\ pushed'[m - 1] = pushed[n])
    BY <1>1 DEF Framed, Call, Interrupted, Kept
  <1> HIDE DEF n, m
  <1>6. d \in Nat /\ m >= 1 /\ (n >= 1 => m >= 2)
    BY <1>1, <1>2
  <1>7. n >= 1 => pushed'[m - 1] = pushed[n]
    <2>1. n >= 1 => m - 1 \in 1 .. m - 1 /\ m - 1 + d = n
      BY <1>1, <1>2, <1>6
    <2>q. QED BY <1>2, <2>1
  <1>8. ASSUME NEW k \in 1 .. m - 1 PROVE Call(pushed'[k], pushed'[k + 1])
    <2>1. CASE k = m - 1
      <3>1. k + 1 = m /\ n >= 1
        BY <1>1, <1>2, <1>6, <2>1
      <3>q. QED BY <1>1, <1>4, <1>7, <2>1, <3>1
    <2>2. CASE k < m - 1
      <3>1. k + 1 \in 1 .. m - 1 /\ k + d \in 1 .. n - 1 /\ (k + 1) + d = (k + d) + 1
        BY <1>1, <1>2, <1>6, <2>2
      <3>2. pushed'[k] = pushed[k + d] /\ pushed'[k + 1] = pushed[(k + d) + 1]
        BY <1>2, <3>1
      <3>q. QED BY <1>3, <3>1, <3>2
    <2>q. QED BY <1>1, <2>1, <2>2
  <1>9. ASSUME NEW k \in 1 .. m - 2 PROVE Interrupted(pushed'[k], pushed'[k + 1], pushed'[k + 2])
    <2>1. CASE k = m - 2
      <3>1. /\ k + 2 = m /\ k + 1 = m - 1 /\ n >= 2 /\ k \in 1 .. m - 1 /\ k + d = n - 1
        BY <1>1, <1>2, <1>6, <2>1
      <3>2. pushed'[k] = pushed[n - 1]
        BY <1>2, <3>1
      <3>q. QED BY <1>1, <1>4, <1>7, <3>1, <3>2
    <2>2. CASE k < m - 2
      <3>1. /\ k \in 1 .. m - 1 /\ k + 1 \in 1 .. m - 1 /\ k + 2 \in 1 .. m - 1
            /\ k + d \in 1 .. n - 2 /\ (k + 1) + d = (k + d) + 1 /\ (k + 2) + d = (k + d) + 2
        BY <1>1, <1>2, <1>6, <2>2
      <3>2. /\ pushed'[k] = pushed[k + d] /\ pushed'[k + 1] = pushed[(k + d) + 1]
            /\ pushed'[k + 2] = pushed[(k + d) + 2]
        BY <1>2, <3>1
      <3>q. QED BY <1>3, <3>1, <3>2
    <2>q. QED BY <1>1, <2>1, <2>2
  <1>10. ASSUME NEW k \in 1 .. m PROVE Kept(pushed'[k])
    <2>1. CASE k = m
      BY <1>1, <2>1
    <2>2. CASE k < m
      <3>1. k \in 1 .. m - 1 /\ k + d \in 1 .. n
        BY <1>1, <1>2, <1>6, <2>2
      <3>q. QED BY <1>2, <1>3, <3>1
    <2>q. QED BY <1>1, <2>1, <2>2
  <1>q. QED BY <1>6, <1>7, <1>8, <1>9, <1>10

LEMMA PullFramed ==
  ASSUME RegsTyped, StackIsLifo, Framed, Pull
  PROVE  Framed'
  <1> DEFINE n == Len(pushed)
  <1>1. /\ n \in Nat
        /\ n = 0 => Len(pushed') = 0
        /\ n > 0 => Len(pushed') = n - 1 /\ \A k \in 1 .. n - 1 : pushed'[k] = pushed[k]
    BY PullTop
  <1>2. CASE n = 0
    BY <1>1, <1>2 DEF Framed
  <1>3. CASE n > 0
    <2>1. /\ \A k \in 1 .. n - 2 : k \in 1 .. n - 1 /\ k + 1 \in 1 .. n - 1
          /\ \A k \in 1 .. n - 3 : k \in 1 .. n - 2 /\ k \in 1 .. n - 1 /\ k + 1 \in 1 .. n - 1 /\ k + 2 \in 1 .. n - 1
          /\ \A k \in 1 .. n - 1 : k \in 1 .. n
          /\ n - 1 - 1 = n - 2 /\ n - 1 - 2 = n - 3
      BY <1>1
    <2>q. QED BY <1>1, <1>3, <2>1 DEF Framed, Call, Interrupted, Kept
  <1>q. QED BY <1>1, <1>2, <1>3

Returns == Framed /\ Framing /\ Returning

(* Where no sequence is at work that the two are about, they say nothing.   *)
LEMMA Idling ==
  ASSUME opState' \in {"PARAM0", "PARAM1", "PARAM2", "PARAM3", "PARAM4", "OP0", "OP1", "OP2", "OP3", "OP4",
                       "OPCODE", "VEC5", "VEC6"},
         expect'.known = FALSE,
         opState' \in {"OP1", "OP2", "OP3"} => Handler' # "jsr"
  PROVE  Framing' /\ Returning'
  BY DEF Framing, Returning, At

LEMMA Unpushed ==
  ASSUME Framed, pushed' \in {pushed, <<>>}
  PROVE  Framed'
  <1>1. CASE pushed' = pushed
    BY <1>1 DEF Framed, Call, Interrupted, Kept
  <1>2. CASE pushed' = <<>>
    <2>1. Len(pushed') = 0
      BY <1>2
    <2>q. QED BY <2>1 DEF Framed
  <1>q. QED BY <1>1, <1>2

LEMMA ItemFields ==
  \A v, role, to, st : /\ Item(v, role, to, st).byte = v /\ Item(v, role, to, st).role = role
                       /\ Item(v, role, to, st).pc = to /\ Item(v, role, to, st).status = st
  BY DEF Item

(* An item that completes no frame.                                         *)
LEMMA PushPart ==
  ASSUME RegsTyped, StackIsLifo, Framed, NEW v, NEW item \in PushedItem, Push(v, item),
         item.role \notin {"jsrLo", "intSt"}
  PROVE  /\ Framed' /\ Len(pushed') >= 1 /\ pushed'[Len(pushed')] = item
         /\ Len(pushed) >= 1 => Len(pushed') >= 2 /\ pushed'[Len(pushed') - 1] = pushed[Len(pushed)]
  <1>1. /\ Kept(item)
        /\ Len(pushed) >= 1 => Call(pushed[Len(pushed)], item)
        /\ Len(pushed) >= 2 => Interrupted(pushed[Len(pushed) - 1], pushed[Len(pushed)], item)
    BY DEF Kept, Call, Interrupted
  <1>q. QED BY <1>1, PushFramed

LEMMA JsrReturns ==
  ASSUME Typed, StackIsLifo, Placed, Returns, Operate, Handler = "jsr"
  PROVE  Returns'
  <1>1. /\ jsr /\ run' = run /\ Handler' = "jsr" /\ expect.known = FALSE
        /\ pc \in Address /\ status \in Status /\ run.at \in Address
        /\ RegsTyped /\ Framed
    BY DEF Operate, ByHandler, Returns, Returning, Typed, RegsTyped, InstrTyped
  <1>2. Stepped = 1
    <2>1. opcode = JSR /\ Mode = "ABSO"
      BY Decoded DEF Typed, InstrTyped, Handler, Mode, Operate, GoesWith, ReadOps, Shifts, BitOps, Registers, FlagOps
    <2>q. QED BY <2>1 DEF Stepped
  <1>3. /\ Plus(Plus(run.at, 1), 1) = Plus(run.at, 2) /\ Plus(Plus(run.at, 2), 1) = Plus(run.at, 3)
        /\ Plus(run.at, 3) \in Address
        /\ Lo(pc) \in Byte /\ Hi(pc) \in Byte /\ Lo(pc) + ByteSize * Hi(pc) = pc
    BY <1>1, PlusPlus, PlusIs, Bytes
  <1> DEFINE hi == Item(Hi(pc), "jsrHi", Plus(run.at, 3), status)
             lo == Item(Lo(pc), "jsrLo", Plus(run.at, 3), status)
  <1>4. /\ hi \in PushedItem /\ hi.byte = Hi(pc) /\ hi.role = "jsrHi"
        /\ lo \in PushedItem /\ lo.byte = Lo(pc) /\ lo.role = "jsrLo" /\ lo.pc = Plus(run.at, 3)
    BY <1>1, <1>3 DEF Item, PushedItem, Role
  <1>5. CASE At("OP0") /\ Read("OP1") /\ NextPc
    <2>1. pc = Plus(run.at, 1) /\ pc' = Plus(pc, 1) /\ opState' = "OP1" /\ UNCHANGED <<pushed, expect>>
      BY <1>2, <1>5 DEF Placed, Read, Advance, Bit, NextPc, SetPc, At
    <2>2. Framing' /\ Returning'
      BY <1>1, <1>3, <2>1 DEF Framing, Returning, At
    <2>q. QED BY <1>1, <2>1, <2>2, Unpushed DEF Returns
  <1>6. CASE At("OP1") /\ Read("OP2") /\ Same
    <2>1. pc = Plus(run.at, 2) /\ pc' = pc /\ opState' = "OP2" /\ UNCHANGED <<pushed, expect>>
      BY <1>1, <1>6 DEF Returns, Framing, Read, Advance, Bit, Same, regs, At
    <2>2. Framing' /\ Returning'
      BY <1>1, <1>3, <2>1 DEF Framing, Returning, At
    <2>q. QED BY <1>1, <2>1, <2>2, Unpushed DEF Returns
  <1>7. CASE At("OP2") /\ Write("OP3") /\ KeepButStack /\ Push(Hi(pc), hi)
    <2>1. pc = Plus(run.at, 2) /\ pc' = pc /\ opState' = "OP3" /\ expect' = expect
      BY <1>1, <1>7 DEF Returns, Framing, Write, Advance, Bit, KeepButStack, At
    <2>2. Framed' /\ Len(pushed') >= 1 /\ pushed'[Len(pushed')] = hi
      BY <1>1, <1>4, <1>7, PushPart
    <2>3. pushed'[Len(pushed')].byte = Hi(pc)
      BY <1>4, <2>2
    <2>4. Framing' /\ Returning'
      BY <1>1, <2>1, <2>2, <2>3 DEF Framing, Returning, At, Hi
    <2>q. QED BY <2>2, <2>4 DEF Returns
  <1>8. CASE At("OP3") /\ Write("OP4") /\ KeepButStack /\ Push(Lo(pc), lo)
    <2>1. pc = Plus(run.at, 2) /\ pc' = pc /\ opState' = "OP4" /\ expect' = expect
          /\ Len(pushed) >= 1 /\ pushed[Len(pushed)].byte = Hi(pc)
      BY <1>1, <1>8 DEF Returns, Framing, Write, Advance, Bit, KeepButStack, At
    <2>2. Kept(lo) /\ Interrupted(pushed[Len(pushed) - 1], pushed[Len(pushed)], lo)
      BY <1>4 DEF Kept, Interrupted
    <2>3. Call(pushed[Len(pushed)], lo)
      <3>1. Plus(lo.byte + ByteSize * pushed[Len(pushed)].byte, 1) = Plus(run.at, 3)
        BY <1>3, <1>4, <2>1
      <3>q. QED BY <1>4, <3>1 DEF Call
    <2>4. Framed'
      BY <1>1, <1>4, <1>8, <2>2, <2>3, PushFramed
    <2>5. Framing' /\ Returning'
      BY <1>1, <2>1 DEF Framing, Returning, At
    <2>q. QED BY <2>4, <2>5 DEF Returns
  <1>9. CASE At("OP4") /\ Read("OPCODE") /\ Jump
    <2>1. opState' = "OPCODE" /\ UNCHANGED <<pushed, expect>>
      BY <1>9 DEF Read, Advance, Bit, Jump, SetPc
    <2>q. QED BY <1>1, <2>1, Unpushed, Idling DEF Returns
  <1>q. QED BY <1>1, <1>5, <1>6, <1>7, <1>8, <1>9 DEF jsr

LEMMA RtsReturns ==
  ASSUME Typed, StackIsLifo, Returns, Operate, Handler = "rts"
  PROVE  Returns'
  <1> DEFINE n == Len(pushed)
  <1>1. /\ rts /\ Handler' = "rts" /\ RegsTyped /\ Framed /\ Returning /\ n \in Nat
    BY DEF Operate, ByHandler, Returns, Typed, RegsTyped
  <1>2. CASE (At("OP0") /\ Idle("OP1") /\ Same) \/ (At("OP1") /\ Read("OP2") /\ Same)
    <2>1. opState' \in {"OP1", "OP2"} /\ UNCHANGED <<pushed, expect>> /\ expect.known = FALSE
      BY <1>1, <1>2 DEF Read, Idle, Advance, Bit, Same, regs, Returning, At, Typed, RegsTyped
    <2>q. QED BY <1>1, <2>1, Unpushed, Idling DEF Returns
  <1>3. CASE /\ At("OP2") /\ Read("OP3") /\ PullLo
             /\ ExpectReturn(TopRole(0) = "jsrLo" /\ TopRole(1) = "jsrHi")
    <2>1. opState' = "OP3" /\ Pull /\ tmpval' = Pulled
      BY <1>3 DEF Read, Advance, Bit, PullLo
    <2>2. Framed' /\ Framing'
      BY <1>1, <2>1, PullFramed DEF Framing, At
    <2>3. Returning'
      <3>1. CASE TopRole(0) = "jsrLo" /\ TopRole(1) = "jsrHi"
        <4>1. n > 1 /\ pushed[n].role = "jsrLo" /\ pushed[n - 1].role = "jsrHi"
          BY <1>1, <3>1 DEF TopRole
        <4>2. Len(pushed') = n - 1 /\ pushed'[n - 1] = pushed[n - 1] /\ Pulled = pushed[n].byte
          BY <1>1, <2>1, <4>1, PullTop
        <4>3. expect'.pc = pushed[n].pc
          BY <1>3, <3>1 DEF ExpectReturn
        <4>4. Call(pushed[n - 1], pushed[n])
          BY <1>1, <4>1 DEF Framed
        <4>5. expect'.pc = Plus(tmpval' + ByteSize * pushed'[Len(pushed')].byte, 1)
          BY <2>1, <4>1, <4>2, <4>3, <4>4 DEF Call
        <4>6. Len(pushed') >= 1
          BY <1>1, <4>1, <4>2
        <4>q. QED BY <1>1, <2>1, <4>5, <4>6 DEF Returning, At, Plus
      <3>2. CASE ~(TopRole(0) = "jsrLo" /\ TopRole(1) = "jsrHi")
        <4>1. expect'.known = FALSE
          BY <1>3, <3>2 DEF ExpectReturn, NoReturn
        <4>q. QED BY <4>1 DEF Returning
      <3>q. QED BY <3>1, <3>2
    <2>q. QED BY <2>2, <2>3 DEF Returns
  <1>4. CASE At("OP3") /\ Read("OP4") /\ PullHi
    <2>1. opState' = "OP4" /\ Pull /\ pc' = tmpval + ByteSize * Pulled /\ expect' = expect
      BY <1>4 DEF Read, Advance, Bit, PullHi
    <2>2. Framed' /\ Framing'
      BY <1>1, <2>1, PullFramed DEF Framing, At
    <2>3. ASSUME expect.known PROVE expect.pc = Plus(pc', 1)
      <3>1. n >= 1 /\ expect.pc = Plus(tmpval + ByteSize * pushed[n].byte, 1)
        BY <1>4, <2>3 DEF Returns, Returning, At
      <3>2. Pulled = pushed[n].byte
        BY <1>1, <2>1, <3>1, PullTop
      <3>q. QED BY <2>1, <3>1, <3>2
    <2>4. Returning'
      BY <1>1, <2>1, <2>3 DEF Returning, At, Plus
    <2>q. QED BY <2>2, <2>4 DEF Returns
  <1>5. CASE At("OP4") /\ Read("OPCODE") /\ NextPc
    <2>1. opState' = "OPCODE" /\ UNCHANGED <<pushed, expect>> /\ pc' = Plus(pc, 1)
      BY <1>5 DEF Read, Advance, Bit, NextPc, SetPc
    <2>2. expect.known => expect.pc = Plus(pc, 1)
      BY <1>5 DEF Returns, Returning, At
    <2>3. Framing' /\ Returning'
      BY <1>1, <2>1, <2>2 DEF Framing, Returning, At
    <2>q. QED BY <1>1, <2>1, <2>3, Unpushed DEF Returns
  <1>q. QED BY <1>1, <1>2, <1>3, <1>4, <1>5 DEF rts

LEMMA RtiReturns ==
  ASSUME Typed, StackIsLifo, Returns, Operate, Handler = "rti"
  PROVE  Returns'
  <1> DEFINE n == Len(pushed)
             known == TopRole(0) = "intSt" /\ TopRole(1) = "intLo" /\ TopRole(2) = "intHi"
  <1>1. /\ rti /\ Handler' = "rti" /\ RegsTyped /\ Framed /\ Returning /\ n \in Nat
    BY DEF Operate, ByHandler, Returns, Typed, RegsTyped
  <1>2. CASE (At("OP0") /\ Idle("OP1") /\ Same) \/ (At("OP1") /\ Read("OP2") /\ Same)
    <2>1. opState' \in {"OP1", "OP2"} /\ UNCHANGED <<pushed, expect>> /\ expect.known = FALSE
      BY <1>1, <1>2 DEF Read, Idle, Advance, Bit, Same, regs, Returning, At, Typed, RegsTyped
    <2>q. QED BY <1>1, <2>1, Unpushed, Idling DEF Returns
  <1>3. CASE At("OP2") /\ Read("OP3") /\ Pull /\ status' = ByteStatus(Pulled) /\ ExpectReturn(known)
    <2>1. opState' = "OP3" /\ Pull
      BY <1>3 DEF Read, Advance, Bit
    <2>2. Framed' /\ Framing'
      BY <1>1, <2>1, PullFramed DEF Framing, At
    <2>3. CASE known
      <3>1. n > 2 /\ pushed[n].role = "intSt" /\ pushed[n - 1].role = "intLo" /\ pushed[n - 2].role = "intHi"
        BY <1>1, <2>3 DEF TopRole
      <3>2. /\ Len(pushed') = n - 1 /\ Pulled = pushed[n].byte
            /\ pushed'[n - 1] = pushed[n - 1] /\ pushed'[(n - 1) - 1] = pushed[n - 2]
        <4>1. n - 1 \in 1 .. n - 1 /\ n - 2 \in 1 .. n - 1 /\ (n - 1) - 1 = n - 2 /\ n > 0
          BY <1>1, <3>1
        <4>q. QED BY <1>1, <2>1, <4>1, PullTop
      <3>3. expect'.pc = pushed[n].pc /\ expect'.status = pushed[n].status
        BY <1>3, <2>3 DEF ExpectReturn
      <3>4. Interrupted(pushed[n - 2], pushed[n - 1], pushed[n]) /\ Kept(pushed[n])
        <4>1. n - 2 \in 1 .. n - 2 /\ (n - 2) + 1 = n - 1 /\ (n - 2) + 2 = n /\ n \in 1 .. n
          BY <1>1, <3>1
        <4>q. QED BY <1>1, <4>1 DEF Framed
      <3>5. expect'.pc = pushed'[Len(pushed')].byte + ByteSize * pushed'[Len(pushed') - 1].byte
        BY <3>1, <3>2, <3>3, <3>4 DEF Interrupted
      <3>6. status'.i = expect'.status.i /\ status'.d = expect'.status.d
        BY <1>3, <3>1, <3>2, <3>3, <3>4 DEF Kept
      <3>7. Len(pushed') >= 2
        BY <1>1, <3>1, <3>2
      <3>q. QED BY <1>1, <2>1, <2>2, <3>5, <3>6, <3>7 DEF Returns, Returning, At
    <2>4. CASE ~known
      <3>1. expect'.known = FALSE
        BY <1>3, <2>4 DEF ExpectReturn, NoReturn
      <3>q. QED BY <2>2, <3>1 DEF Returns, Returning
    <2>q. QED BY <2>3, <2>4
  <1>4. CASE At("OP3") /\ Read("OP4") /\ PullLo /\ UNCHANGED expect
    <2>1. opState' = "OP4" /\ Pull /\ tmpval' = Pulled /\ expect' = expect /\ status' = status
      BY <1>4 DEF Read, Advance, Bit, PullLo
    <2>2. Framed' /\ Framing'
      BY <1>1, <2>1, PullFramed DEF Framing, At
    <2>3. ASSUME expect.known
          PROVE  /\ Len(pushed') >= 1 /\ expect.pc = tmpval' + ByteSize * pushed'[Len(pushed')].byte
                 /\ status.i = expect.status.i /\ status.d = expect.status.d
      <3>1. /\ n >= 2 /\ expect.pc = pushed[n].byte + ByteSize * pushed[n - 1].byte
            /\ status.i = expect.status.i /\ status.d = expect.status.d
        BY <1>4, <2>3 DEF Returns, Returning, At
      <3>2. Len(pushed') = n - 1 /\ pushed'[n - 1] = pushed[n - 1] /\ Pulled = pushed[n].byte
        <4>1. n - 1 \in 1 .. n - 1 /\ n > 0
          BY <1>1, <3>1
        <4>q. QED BY <1>1, <2>1, <4>1, PullTop
      <3>3. n - 1 >= 1
        BY <1>1, <3>1
      <3>q. QED BY <2>1, <3>1, <3>2, <3>3
    <2>4. Returning'
      BY <1>1, <2>1, <2>3 DEF Returning, At
    <2>q. QED BY <2>2, <2>4 DEF Returns
  <1>5. CASE At("OP4") /\ Read("OPCODE") /\ PullHi
    <2>1. opState' = "OPCODE" /\ Pull /\ pc' = tmpval + ByteSize * Pulled /\ UNCHANGED <<expect, status>>
      BY <1>5 DEF Read, Advance, Bit, PullHi
    <2>2. Framed' /\ Framing'
      BY <1>1, <2>1, PullFramed DEF Framing, At
    <2>3. ASSUME expect.known
          PROVE  expect.pc = pc' /\ status.i = expect.status.i /\ status.d = expect.status.d
      <3>1. /\ n >= 1 /\ expect.pc = tmpval + ByteSize * pushed[n].byte
            /\ status.i = expect.status.i /\ status.d = expect.status.d
        BY <1>5, <2>3 DEF Returns, Returning, At
      <3>2. Pulled = pushed[n].byte
        BY <1>1, <2>1, <3>1, PullTop
      <3>q. QED BY <2>1, <3>1, <3>2
    <2>4. Returning'
      BY <1>1, <2>1, <2>3 DEF Returning, At
    <2>q. QED BY <2>2, <2>4 DEF Returns
  <1>q. QED BY <1>1, <1>2, <1>3, <1>4, <1>5 DEF rti

LEMMA OpReturns ==
  ASSUME Typed, StackIsLifo, Placed, Returns, OpTurn
  PROVE  Returns'
  <1>1. Operate
    BY OpOperates
  <1>2. /\ RegsTyped /\ Framed /\ Handler' = Handler /\ run' = run /\ GoesWith(Handler, Mode)
        /\ Handler \notin {"rts", "rti"} => expect.known = FALSE
    BY <1>1 DEF Typed, RegsTyped, Returns, Returning, Operate
  <1>3. opState' \in Later \cup {"OPCODE", "VEC2"}
    BY <1>1, OpEnds
  <1>4. CASE Handler \in ReadOps \cup Shifts \cup BitOps \cup {"inc", "dec"} \cup Stores
    <2>1. opState' # "VEC2" /\ UNCHANGED <<pushed, expect>>
      BY <1>1, <1>4 DEF Operate, ByHandler, ReadsOperand, Decimal, ModifyAccumulator, ModifyMemory, inc, Store,
         Get, Put, Read, Write, Skip, Idle, Advance, Bit, Same, regs
    <2>2. Handler \notin {"jsr", "rts", "rti"}
      BY <1>4 DEF ReadOps, Shifts, BitOps, Stores
    <2>q. QED BY <1>2, <1>3, <2>1, <2>2, Unpushed, Idling DEF Returns, Later
  <1>5. CASE Handler \in Branches \cup {"bra"} \cup Once
    <2>1. opState' # "VEC2" /\ pushed' \in {pushed, <<>>} /\ expect' = expect
      BY <1>1, <1>5 DEF Operate, ByHandler, Branch, bra, BranchTaken, Read, Idle, Advance, Bit, Same, regs,
         Jump, SetPc
    <2>2. Handler \notin {"jsr", "rts", "rti"}
      BY <1>5 DEF Branches, Once, Registers, FlagOps
    <2>q. QED BY <1>2, <1>3, <2>1, <2>2, Unpushed, Idling DEF Returns, Later
  <1>6. CASE Handler = "brk"
    <2>1. /\ opState' = "VEC2" /\ vecSrc' = "BRK" /\ UNCHANGED <<pc, pushed, expect>>
      BY <1>1, <1>6 DEF Operate, ByHandler, brk, Idle, Advance, Bit
    <2>2. pc = Plus(run.at, 1)
      <3>1. Stepped = 1
        BY <1>2, <1>6 DEF Stepped, GoesWith, ReadOps, Shifts, BitOps, Registers, FlagOps
      <3>q. QED BY <1>1, <1>6, <3>1 DEF Placed, Operate
    <2>3. Framing' /\ Returning'
      BY <1>2, <1>6, <2>1, <2>2 DEF Framing, Returning, At, Resume, Plus
    <2>q. QED BY <1>2, <2>1, <2>3, Unpushed DEF Returns
  <1>7. CASE Handler = "ph_"
    <2>1. opState' \in {"OP1", "OPCODE"} /\ expect' = expect
      BY <1>1, <1>7 DEF Operate, ByHandler, ph_, Idle, Write, Advance, Bit, Same, regs, KeepButStack
    <2>2. Framed'
      <3>1. \/ pushed' = pushed
            \/ \E v \in IF opcode = PHP THEN {StatusByte(status, TRUE)} ELSE Data :
                 Push(v, Item(v, "data", 0, status))
        BY <1>1, <1>7 DEF Operate, ByHandler, ph_, Same, regs
      <3>2. ASSUME NEW v \in IF opcode = PHP THEN {StatusByte(status, TRUE)} ELSE Data,
                   Push(v, Item(v, "data", 0, status))
            PROVE  Framed'
        <4>1. v \in Byte
          <5>1. Data \subseteq Byte
            BY CpuAssumption, Zenon
          <5>2. StatusByte(status, TRUE) \in Byte
            BY <1>2, StatusBytes DEF RegsTyped
          <5>q. QED BY <3>2, <5>1, <5>2
        <4>2. Item(v, "data", 0, status) \in PushedItem
          BY <1>2, <4>1, Memory DEF Item, PushedItem, Role, RegsTyped, Address
        <4>3. Item(v, "data", 0, status).role = "data"
          BY ItemFields
        <4>q. QED BY <1>2, <3>2, <4>2, <4>3, PushPart
      <3>q. QED BY <1>2, <3>1, <3>2, Unpushed
    <2>q. QED BY <1>2, <1>7, <2>1, <2>2, Idling DEF Returns
  <1>8. CASE Handler = "pl_"
    <2>1. /\ opState' \in {"OP1", "OP2", "OPCODE"} /\ expect' = expect
          /\ pushed' = pushed \/ Pull
      BY <1>1, <1>8 DEF Operate, ByHandler, pl_, Idle, Read, Advance, Bit, Same, regs
    <2>2. Framed'
      BY <1>2, <2>1, Unpushed, PullFramed
    <2>q. QED BY <1>2, <1>8, <2>1, <2>2, Idling DEF Returns
  <1>q. QED BY <1>1, <1>4, <1>5, <1>6, <1>7, <1>8, Kinds, JsrReturns, RtsReturns, RtiReturns DEF ReadOps

LEMMA VectorReturns ==
  ASSUME Typed, StackIsLifo, Returns, VectorTurn
  PROVE  Returns'
  <1>1. /\ vector /\ run' = run /\ RegsTyped /\ InstrTyped /\ Framed
        /\ opState \in Vec /\ expect.known = FALSE
        /\ pc \in Address /\ status \in Status
    BY DEF VectorTurn, instr, Typed, RegsTyped, Returns, Returning, Vec
  <1>2. /\ Lo(pc) \in Byte /\ Hi(pc) \in Byte /\ Lo(pc) + ByteSize * Hi(pc) = pc
    BY <1>1, Bytes
  <1>3. opState \in {"VEC0", "VEC1", "VEC2", "VEC3", "VEC4"} => Resume = pc
    BY DEF Returns, Framing
  <1>4. \A v, role : /\ Frame(v, role).byte = v /\ Frame(v, role).pc = Resume
                     /\ Frame(v, role).status = status /\ Frame(v, role).role \in {"data", role}
    BY DEF Frame, Item
  <1>5. ASSUME opState' \in {"VEC1", "VEC2"}, Same,
               opState \in {"VEC0", "VEC1"}
        PROVE  Returns'
    <2>1. UNCHANGED <<pc, vecSrc, pushed, expect>> /\ Resume' = Resume
      BY <1>1, <1>5 DEF Same, regs, Resume, Plus
    <2>2. Framing' /\ Returning'
      BY <1>1, <1>3, <1>5, <2>1 DEF Framing, Returning, At
    <2>q. QED BY <1>1, <2>1, <2>2, Unpushed DEF Returns
  <1>6. CASE At("VEC2") /\ Write("VEC3") /\ Push(Hi(pc), Frame(Hi(pc), "intHi")) /\ KeepButStack
    <2>1. opState' = "VEC3" /\ UNCHANGED <<pc, vecSrc, expect>> /\ Resume' = Resume /\ Resume = pc
      BY <1>1, <1>3, <1>6 DEF Write, Advance, Bit, KeepButStack, Resume, At, Plus
    <2>2. Frame(Hi(pc), "intHi") \in PushedItem
      BY <1>1, <1>2, FrameTyped
    <2>3. Frame(Hi(pc), "intHi").role \notin {"jsrLo", "intSt"} /\ Frame(Hi(pc), "intHi").byte = Hi(pc)
      <3>1. Frame(Hi(pc), "intHi").role \in {"data", "intHi"}
        BY <1>4
      <3>q. QED BY <1>4, <3>1
    <2>4. Framed' /\ Len(pushed') >= 1 /\ pushed'[Len(pushed')].byte = Hi(pc)
      BY <1>1, <1>6, <2>2, <2>3, PushPart
    <2>5. Framing' /\ Returning'
      BY <1>1, <2>1, <2>4 DEF Framing, Returning, At, Hi
    <2>q. QED BY <2>4, <2>5 DEF Returns
  <1>7. CASE At("VEC3") /\ Write("VEC4") /\ Push(Lo(pc), Frame(Lo(pc), "intLo")) /\ KeepButStack
    <2>1. opState' = "VEC4" /\ UNCHANGED <<pc, vecSrc, expect>> /\ Resume' = Resume /\ Resume = pc
      BY <1>1, <1>3, <1>7 DEF Write, Advance, Bit, KeepButStack, Resume, At, Plus
    <2>2. Frame(Lo(pc), "intLo") \in PushedItem
      BY <1>1, <1>2, FrameTyped
    <2>3. Frame(Lo(pc), "intLo").role \notin {"jsrLo", "intSt"} /\ Frame(Lo(pc), "intLo").byte = Lo(pc)
      <3>1. Frame(Lo(pc), "intLo").role \in {"data", "intLo"}
        BY <1>4
      <3>q. QED BY <1>4, <3>1
    <2>4. Len(pushed) >= 1 /\ pushed[Len(pushed)].byte = Hi(pc)
      BY <1>7 DEF Returns, Framing
    <2>5. /\ Framed' /\ Len(pushed') >= 2 /\ pushed'[Len(pushed')].byte = Lo(pc)
          /\ pushed'[Len(pushed') - 1].byte = Hi(pc)
      BY <1>1, <1>7, <2>2, <2>3, <2>4, PushPart
    <2>6. Framing' /\ Returning'
      BY <1>1, <2>1, <2>5 DEF Framing, Returning, At, Hi, Lo
    <2>q. QED BY <2>5, <2>6 DEF Returns
  <1>8. CASE /\ At("VEC4") /\ Write("VEC5")
             /\ LET v == StatusByte(status, vecSrc = "BRK") IN Push(v, Frame(v, "intSt"))
             /\ UNCHANGED expect
    <2> DEFINE v == StatusByte(status, vecSrc = "BRK")
               item == Frame(v, "intSt")
    <2>1. /\ v \in Byte
          /\ ByteStatus(v).i = status.i /\ ByteStatus(v).d = status.d
      <3>1. (vecSrc = "BRK") \in BOOLEAN
        OBVIOUS
      <3>q. QED BY <1>1, <3>1, StatusBytes
    <2>2. Push(v, item) /\ opState' = "VEC5" /\ expect' = expect
      BY <1>8 DEF Write, Advance, Bit
    <2>3. item \in PushedItem /\ item.byte = v /\ item.pc = Resume /\ item.status = status
          /\ item.role \in {"data", "intSt"}
      <3> HIDE DEF v
      <3>q. QED BY <1>1, <1>4, <2>1, FrameTyped
    <2>4. /\ Len(pushed) >= 2 /\ pushed[Len(pushed)].byte = Lo(pc)
          /\ pushed[Len(pushed) - 1].byte = Hi(pc) /\ Resume = pc
      BY <1>3, <1>8 DEF Returns, Framing, At
    <2> HIDE DEF v, item
    <2>5. Kept(item)
      BY <2>1, <2>3 DEF Kept
    <2>6. /\ Call(pushed[Len(pushed)], item)
          /\ Interrupted(pushed[Len(pushed) - 1], pushed[Len(pushed)], item)
      BY <1>2, <2>3, <2>4 DEF Call, Interrupted
    <2>7. Framed'
      BY <1>1, <2>2, <2>3, <2>5, <2>6, PushFramed
    <2>q. QED BY <1>1, <2>2, <2>7, Idling DEF Returns
  <1>9. CASE \/ At("VEC5") /\ Read("VEC6") /\ Same
             \/ At("VEC6") /\ Read("OPCODE") /\ UNCHANGED <<pushed, expect>>
    <2>1. opState' \in {"VEC6", "OPCODE"} /\ UNCHANGED <<pushed, expect>>
      BY <1>9 DEF Read, Advance, Bit, Same, regs
    <2>q. QED BY <1>1, <2>1, Unpushed, Idling DEF Returns
  <1>10. CASE (At("VEC0") /\ Read("VEC1") /\ Same) \/ (At("VEC1") /\ Read("VEC2") /\ Same)
    BY <1>5, <1>10 DEF Read, Advance, Bit, At
  <1>q. QED BY <1>1, <1>6, <1>7, <1>8, <1>9, <1>10 DEF vector, SetPc

LEMMA AddressReturns ==
  ASSUME Typed, Returns, AddressTurn
  PROVE  Returns'
  <1>1. expect.known = FALSE
    BY DEF AddressTurn, Typed, RegsTyped, Returns, Returning
  <1>2. opState' \in {"PARAM1", "PARAM2", "PARAM3", "PARAM4", "OP0"} /\ UNCHANGED <<pushed, expect>>
    <2>1. /\ \E next \in {"PARAM1", "PARAM2", "PARAM3", "PARAM4", "OP0"} : Moves(next)
          /\ Same \/ NextPc \/ CrossPage
      BY AddressMoves DEF AddressTurn, Typed, At
    <2>2. opState' \in {"PARAM1", "PARAM2", "PARAM3", "PARAM4", "OP0"}
      BY <2>1, MovesAre DEF OpState, Typed
    <2>q. QED BY <2>1, <2>2 DEF Same, regs, NextPc, SetPc, CrossPage
  <1>q. QED BY <1>1, <1>2, Unpushed, Idling DEF Returns

LEMMA InterruptReturns ==
  ASSUME Returns, TakeNmi \/ TakeIrq
  PROVE  Returns'
  <1>1. /\ opState' = "VEC0" /\ vecSrc' \in {"NMI", "IRQ"} /\ run'.at = pc /\ expect'.known = FALSE
        /\ UNCHANGED <<pc, pushed>>
    BY DEF TakeNmi, TakeIrq, EnterVector, Begin, NoReturn
  <1>2. Framing' /\ Returning'
    BY <1>1 DEF Framing, Returning, At, Resume
  <1>q. QED BY <1>1, <1>2, Unpushed DEF Returns

LEMMA FetchReturns ==
  ASSUME Returns, FetchOpcode
  PROVE  Returns'
  <1>1. opState' = "PARAM0" /\ expect'.known = FALSE /\ UNCHANGED pushed
    BY DEF FetchOpcode, NoReturn
  <1>q. QED BY <1>1, Unpushed, Idling DEF Returns

LEMMA EdgeReturns ==
  ASSUME Returns, HeldTick \/ BeginTick \/ EndTick \/ DrivePins \/ UNCHANGED vars
  PROVE  Returns'
  <1>1. UNCHANGED <<pc, status, vecSrc, tmpval, pushed, expect, opcode, run, opState>>
    BY DEF HeldTick, BeginTick, EndTick, DrivePins, vars, regs, instr
  <1>2. Handler' = Handler /\ Resume' = Resume
    BY <1>1 DEF Handler, Resume, Plus
  <1>3. Framing'
    BY <1>1, <1>2 DEF Returns, Framing, At, Plus, Hi, Lo
  <1>4. Returning'
    BY <1>1, <1>2 DEF Returns, Returning, At, Plus
  <1>q. QED BY <1>1, <1>3, <1>4, Unpushed DEF Returns

LEMMA AlwaysReturns == Spec => []Returns
  <1>1. Init => Returns
    <2> SUFFICES ASSUME Init PROVE Returns
      OBVIOUS
    <2>1. /\ opState = "VEC0" /\ pc = 0 /\ run.at = 0 /\ vecSrc = "RST" /\ expect.known = FALSE
          /\ pushed = <<>>
      BY DEF Init, NoReturn
    <2>2. Len(pushed) = 0
      BY <2>1
    <2>3. Framed
      BY <2>2 DEF Framed
    <2>q. QED BY <2>1, <2>3 DEF Returns, Framing, Returning, At, Resume
  <1>2. Typed /\ StackIsLifo /\ Proceeds /\ Returns /\ [Next]_vars => Returns'
    BY AddressReturns, OpReturns, VectorReturns, InterruptReturns, FetchReturns, EdgeReturns
    DEF Next, CpuStep, Proceeds
  <1>q. QED BY <1>1, <1>2, AlwaysLifo, AlwaysProceeds, PTL DEF Spec

(* A return leads where the call or the interrupt came from: jsr, rts, rti, *)
(* vector, and what pushes and pulls in between.                           *)
THEOREM ReturnsArrive == Spec => []ReturnsWhereLeft
  <1>1. Returns /\ Typed => ReturnsWhereLeft
    BY DEF Returns, Returning, ReturnsWhereLeft
  <1>q. QED BY <1>1, AlwaysReturns, AlwaysTyped, PTL

-----------------------------------------------------------------------------
(* What the instructions of Alu compute, for all operands.                  *)
ALU == INSTANCE Alu

Signed(b) == IF b >= 128 THEN b - 256 ELSE b

(* A byte and what is carried out of it, as one number.                     *)
WithCarry(r) == r.val + 256 * ALU!Bit(r.s.c)

(* The fields of a status after a sum.                                      *)
LEMMA SumFlags ==
  ASSUME NEW s \in ALU!Status, NEW a, NEW o
  PROVE  LET t == ALU!SumStatus(s, a, o)
             n == ALU!Sum(s, a, o)
         IN /\ t.c = ALU!carrycalc(n) /\ t.z = ALU!zerocalc(n)
            /\ t.v = ALU!overflowcalc(n, a, o) /\ t.n = ALU!signcalc(n)
            /\ t.d = s.d
  BY DEF ALU!SumStatus, ALU!Status

LEMMA ByteAndCarry ==
  ASSUME NEW n \in 0 .. 511
  PROVE  /\ ALU!Lo(n) \in ALU!Byte
         /\ ALU!Lo(n) = IF n < 256 THEN n ELSE n - 256
         /\ ALU!carrycalc(n) <=> n >= 256
  BY DEF ALU!Byte, ALU!Lo, ALU!carrycalc

LEMMA BitIsBit ==
  ASSUME NEW s \in ALU!Status
  PROVE  ALU!Bit(s.c) \in 0 .. 1
  BY DEF ALU!Bit

(* adc, in binary: the byte and the carry are the sum, and V says that the  *)
(* sum of the signed numbers does not fit.                                 *)
THEOREM AdcAdds ==
  ASSUME NEW s \in ALU!Status, ~s.d, NEW a \in ALU!Byte, NEW value \in ALU!Byte
  PROVE  LET r == ALU!adc(s, a, value)
         IN /\ r.val \in ALU!Byte
            /\ WithCarry(r) = a + value + ALU!Bit(s.c)
            /\ r.s.v <=> Signed(a) + Signed(value) + ALU!Bit(s.c) \notin -128 .. 127
<1> DEFINE n == ALU!Sum(s, a, value)
           r == ALU!adc(s, a, value)
<1>1. n \in 0 .. 511 /\ n = a + value + ALU!Bit(s.c) /\ ALU!Bit(s.c) \in 0 .. 1
  BY BitIsBit DEF ALU!Byte, ALU!Sum
<1>2. r.val = ALU!Lo(n) /\ r.s = ALU!SumStatus(s, a, value)
  BY DEF ALU!adc, ALU!Gives
<1>3. r.s.c = ALU!carrycalc(n) /\ r.s.v = ALU!overflowcalc(n, a, value)
  BY <1>2, SumFlags
<1> HIDE DEF n, r
<1>4. /\ ALU!Lo(n) \in ALU!Byte
      /\ ALU!Lo(n) = IF n < 256 THEN n ELSE n - 256
      /\ ALU!carrycalc(n) <=> n >= 256
  BY <1>1, ByteAndCarry
<1>5. WithCarry(r) = n
  BY <1>1, <1>2, <1>3, <1>4 DEF WithCarry, ALU!Bit
<1>6. ALU!Lo(a) = a /\ ALU!Lo(value) = value
  BY DEF ALU!Lo, ALU!Byte
<1>7. ALU!overflowcalc(n, a, value) <=> Signed(a) + Signed(value) + ALU!Bit(s.c) \notin -128 .. 127
  <2> DEFINE low == ALU!Lo(n)  k == ALU!Bit(s.c)
  <2>1. ALU!overflowcalc(n, a, value) <=> (low >= 128 <=> a < 128) /\ (low >= 128 <=> value < 128)
    <3>1. (ALU!signcalc(n) <=> low >= 128) /\ (ALU!signcalc(a) <=> a >= 128)
          /\ (ALU!signcalc(value) <=> value >= 128)
      BY <1>6 DEF ALU!signcalc
    <3>2. (a >= 128 <=> ~(a < 128)) /\ (value >= 128 <=> ~(value < 128))
      BY DEF ALU!Byte
    <3> HIDE DEF low
    <3> QED BY <3>1, <3>2, Zenon DEF ALU!overflowcalc
  <2>2. /\ n = a + value + k /\ k \in 0 .. 1
        /\ low = IF n < 256 THEN n ELSE n - 256
    BY <1>1, <1>4
  <2> HIDE DEF low, k
  <2>3. (low >= 128 <=> a < 128) /\ (low >= 128 <=> value < 128)
        <=> Signed(a) + Signed(value) + k \notin -128 .. 127
    BY <2>2 DEF Signed, ALU!Byte
  <2> QED BY <2>1, <2>3 DEF k
<1> QED BY <1>1, <1>2, <1>3, <1>4, <1>5, <1>7 DEF r

LEMMA AdcKeepsStatus ==
  ASSUME NEW s \in ALU!Status, ~s.d, NEW a, NEW value
  PROVE  ALU!adc(s, a, value).s \in ALU!Status /\ ~ALU!adc(s, a, value).s.d
<1> DEFINE t == ALU!SumStatus(s, a, value)
           n == ALU!Sum(s, a, value)
<1>1. ALU!adc(s, a, value).s = t
  BY DEF ALU!adc, ALU!Gives
<1>2. t = [s EXCEPT !.c = ALU!carrycalc(n), !.z = ALU!zerocalc(n),
                    !.v = ALU!overflowcalc(n, a, value), !.n = ALU!signcalc(n)]
  BY DEF ALU!SumStatus
<1>3. ALU!carrycalc(n) \in BOOLEAN /\ ALU!zerocalc(n) \in BOOLEAN
      /\ ALU!overflowcalc(n, a, value) \in BOOLEAN /\ ALU!signcalc(n) \in BOOLEAN
  BY DEF ALU!carrycalc, ALU!zerocalc, ALU!overflowcalc, ALU!signcalc
<1> HIDE DEF n
<1>4. t \in ALU!Status /\ t.d = s.d
  BY <1>2, <1>3 DEF ALU!Status
<1> QED BY <1>1, <1>4

(* Two adc in a row, the lower bytes first: the carry between them makes    *)
(* one addition of 16 bits.                                                *)
THEOREM LongAddition ==
  ASSUME NEW s \in ALU!Status, ~s.d,
         NEW a0 \in ALU!Byte, NEW a1 \in ALU!Byte, NEW b0 \in ALU!Byte, NEW b1 \in ALU!Byte
  PROVE  LET lo == ALU!adc(s, a0, b0)
             hi == ALU!adc(lo.s, a1, b1)
         IN lo.val + 256 * WithCarry(hi) = (a0 + 256 * a1) + (b0 + 256 * b1) + ALU!Bit(s.c)
<1> DEFINE lo == ALU!adc(s, a0, b0)
           hi == ALU!adc(lo.s, a1, b1)
<1>1. lo.s \in ALU!Status /\ ~lo.s.d
  BY AdcKeepsStatus
<1>2. lo.val \in ALU!Byte /\ lo.val + 256 * ALU!Bit(lo.s.c) = a0 + b0 + ALU!Bit(s.c)
  BY AdcAdds DEF WithCarry
<1> HIDE DEF lo
<1>3. WithCarry(hi) = a1 + b1 + ALU!Bit(lo.s.c)
  BY <1>1, AdcAdds
<1>4. ALU!Bit(lo.s.c) \in 0 .. 1 /\ ALU!Bit(s.c) \in 0 .. 1
  BY <1>1, BitIsBit
<1> DEFINE low == lo.val  high == WithCarry(hi)  k == ALU!Bit(lo.s.c)  j == ALU!Bit(s.c)
<1>5. /\ low \in ALU!Byte /\ k \in 0 .. 1 /\ j \in 0 .. 1
      /\ low + 256 * k = a0 + b0 + j
      /\ high = a1 + b1 + k
  BY <1>2, <1>3, <1>4
<1> HIDE DEF hi, low, high, k, j
<1>6. low + 256 * high = (a0 + 256 * a1) + (b0 + 256 * b1) + j
  BY <1>5 DEF ALU!Byte
<1> QED BY <1>6 DEF lo, hi, low, high, j

(* sbc, in binary: the byte is the difference, and C is clear if it has     *)
(* borrowed.                                                               *)
THEOREM SbcSubtracts ==
  ASSUME NEW s \in ALU!Status, ~s.d, NEW a \in ALU!Byte, NEW value \in ALU!Byte
  PROVE  LET r == ALU!sbc(s, a, value)
         IN r.val \in ALU!Byte /\ r.val - 256 * (1 - ALU!Bit(r.s.c)) = a - value - (1 - ALU!Bit(s.c))
<1> DEFINE r == ALU!sbc(s, a, value)
           q == ALU!adc(s, a, 255 - value)
<1>1. r = q
  BY DEF ALU!sbc, ALU!adc
<1>2. 255 - value \in ALU!Byte
  BY DEF ALU!Byte
<1>3. q.val \in ALU!Byte /\ q.val + 256 * ALU!Bit(q.s.c) = a + (255 - value) + ALU!Bit(s.c)
  BY <1>2, AdcAdds DEF WithCarry
<1>4. ALU!Bit(q.s.c) \in 0 .. 1 /\ ALU!Bit(s.c) \in 0 .. 1
  BY <1>2, BitIsBit, AdcKeepsStatus
<1> HIDE DEF q
<1>5. q.val - 256 * (1 - ALU!Bit(q.s.c)) = a - value - (1 - ALU!Bit(s.c))
  BY <1>3, <1>4 DEF ALU!Byte
<1> QED BY <1>1, <1>3, <1>5

(* A comparison leaves the flags that a subtraction without borrow leaves:  *)
(* C if the register is not less, Z if it is equal, N that of the byte.     *)
THEOREM CmpIsSbcWithoutBorrow ==
  ASSUME NEW s \in ALU!Status, ~s.d, s.c, NEW r \in ALU!Byte, NEW value \in ALU!Byte
  PROVE  LET t == ALU!cmp(s, r, value)
             u == ALU!sbc(s, r, value).s
         IN /\ t.c <=> u.c
            /\ t.z <=> u.z
            /\ t.n <=> u.n
<1> DEFINE n == ALU!Sum(s, r, 255 - value)
           t == ALU!cmp(s, r, value)
           u == ALU!sbc(s, r, value).s
<1>1. t.c = (r >= value) /\ t.z = (r = value) /\ t.n = ALU!signcalc(r - value)
  BY DEF ALU!cmp, ALU!Status
<1>2. u.c = ALU!carrycalc(n) /\ u.z = ALU!zerocalc(n) /\ u.n = ALU!signcalc(n)
  BY SumFlags DEF ALU!sbc, ALU!Gives
<1>3. n = 256 + (r - value) /\ n \in 1 .. 511
  BY DEF ALU!Sum, ALU!Bit, ALU!Byte
<1> HIDE DEF t, u, n
<1>4. ALU!Lo(n) = ALU!Lo(r - value)
  BY <1>3 DEF ALU!Lo, ALU!Byte
<1>5. ALU!carrycalc(n) <=> r >= value
  <2>1. ALU!carrycalc(n) <=> n >= 256
    BY <1>3, ByteAndCarry
  <2>2. n >= 256 <=> r >= value
    BY <1>3 DEF ALU!Byte
  <2> QED BY <2>1, <2>2
<1>6. ALU!zerocalc(n) <=> r = value
  <2>1. ALU!Lo(n) = IF n < 256 THEN n ELSE n - 256
    BY <1>3, ByteAndCarry
  <2> QED BY <1>3, <2>1 DEF ALU!zerocalc, ALU!Byte
<1>7. ALU!signcalc(n) <=> ALU!signcalc(r - value)
  BY <1>4 DEF ALU!signcalc
<1> QED BY <1>1, <1>2, <1>5, <1>6, <1>7 DEF t, u

-----------------------------------------------------------------------------
(* rol moves nine bits, the byte and the carry, and ror moves them back.     *)
THEOREM RorUndoesRol ==
  ASSUME NEW s \in ALU!Status, NEW value \in ALU!Byte
  PROVE  LET left == ALU!rol(s, value)
             back == ALU!ror(left.s, left.val)
         IN /\ WithCarry(left) = 2 * value + ALU!Bit(s.c)
            /\ back.val = value
            /\ back.s.c <=> s.c
<1> DEFINE n == 2 * value + ALU!Bit(s.c)
           left == ALU!rol(s, value)
           back == ALU!ror(left.s, left.val)
<1>1. n \in 0 .. 511 /\ ALU!Bit(s.c) \in 0 .. 1
  BY BitIsBit DEF ALU!Byte
<1>2. left.val = ALU!Lo(n) /\ left.s.c = ALU!carrycalc(n)
  BY DEF ALU!rol, ALU!Shifted, ALU!Gives, ALU!Status
<1>3. left.s \in ALU!Status
  <2>1. left.s = [s EXCEPT !.c = ALU!carrycalc(n), !.z = ALU!zerocalc(n), !.n = ALU!signcalc(n)]
    BY DEF ALU!rol, ALU!Shifted, ALU!Gives
  <2>2. ALU!carrycalc(n) \in BOOLEAN /\ ALU!zerocalc(n) \in BOOLEAN /\ ALU!signcalc(n) \in BOOLEAN
    BY DEF ALU!carrycalc, ALU!zerocalc, ALU!signcalc
  <2> HIDE DEF n, left
  <2> QED BY <2>1, <2>2 DEF ALU!Status
<1>4. back.val = ALU!Lo(left.val \div 2 + 128 * ALU!Bit(left.s.c)) /\ back.s.c = (left.val % 2 = 1)
  BY <1>3 DEF ALU!ror, ALU!Shifted, ALU!Gives, ALU!Status
<1>5. /\ ALU!Lo(n) \in ALU!Byte
      /\ ALU!Lo(n) = IF n < 256 THEN n ELSE n - 256
      /\ ALU!carrycalc(n) <=> n >= 256
  BY <1>1, ByteAndCarry
<1>6. WithCarry(left) = n
  <2> HIDE DEF n, left
  <2> QED BY <1>1, <1>2, <1>5 DEF WithCarry, ALU!Bit
<1>7. back.val = value /\ (back.s.c <=> s.c)
  <2> DEFINE low == left.val  k == ALU!Bit(left.s.c)  j == ALU!Bit(s.c)
  <2>1. /\ low \in ALU!Byte /\ k \in 0 .. 1 /\ j \in 0 .. 1
        /\ low + 256 * k = 2 * value + j
    BY <1>1, <1>2, <1>3, <1>5, <1>6, BitIsBit DEF WithCarry
  <2>2. back.val = ALU!Lo(low \div 2 + 128 * k) /\ (back.s.c <=> low % 2 = 1)
    BY <1>4
  <2>3. j = 1 <=> s.c
    BY DEF ALU!Bit
  <2> HIDE DEF low, k, j, back
  <2>4. low \div 2 + 128 * k = value /\ low % 2 = j
    BY <2>1 DEF ALU!Byte
  <2>5. ALU!Lo(value) = value
    BY DEF ALU!Lo, ALU!Byte
  <2> QED BY <2>1, <2>2, <2>3, <2>4, <2>5
<1> QED BY <1>6, <1>7

-----------------------------------------------------------------------------
(* Two decimal digits in a byte, and the number they write.                 *)
Decimals   == {b \in ALU!Byte : b % 16 <= 9 /\ b \div 16 <= 9}
DecimalOf(b) == 10 * (b \div 16) + (b % 16)

(* What the correction of the upper digit leaves of a number below 256.      *)
LEMMA CorrectedHigh ==
  ASSUME NEW s \in ALU!Status, NEW n \in ALU!Byte, n % 16 <= 9
  PROVE  LET r == ALU!Corrected(s, n)
         IN DecimalOf(r.val) + 100 * ALU!Bit(r.s.c) = DecimalOf(n)
<1> DEFINE r == ALU!Corrected(s, n)
<1>1. ALU!HighDigit(n) = n \div 16
  BY DEF ALU!HighDigit, ALU!Lo, ALU!Byte
<1>2. CASE n \div 16 > 9
  <2>1. r.val = ALU!Lo(n + 96) /\ ALU!Bit(r.s.c) = 1
    BY <1>1, <1>2 DEF ALU!Corrected, ALU!Gives, ALU!Status, ALU!Bit
  <2>2. ALU!Lo(n + 96) = n - 160
    BY <1>2 DEF ALU!Lo, ALU!Byte
  <2> HIDE DEF r
  <2>3. DecimalOf(n - 160) + 100 = DecimalOf(n)
    BY <1>2 DEF DecimalOf, ALU!Byte
  <2> QED BY <2>1, <2>2, <2>3 DEF r
<1>3. CASE ~(n \div 16 > 9)
  <2>1. r.val = ALU!Lo(n) /\ ALU!Bit(r.s.c) = 0
    BY <1>1, <1>3 DEF ALU!Corrected, ALU!Gives, ALU!Status, ALU!Bit
  <2>2. ALU!Lo(n) = n /\ DecimalOf(n) \in Int
    BY DEF ALU!Lo, ALU!Byte, DecimalOf
  <2> HIDE DEF r
  <2> QED BY <2>1, <2>2 DEF r
<1> QED BY <1>2, <1>3

(* adc in decimal mode adds two digits as long as no digit, with what is    *)
(* carried into it, comes to 16 or more.                                   *)
THEOREM DecimalAdds ==
  ASSUME NEW s \in ALU!Status, s.d, NEW a \in Decimals, NEW value \in Decimals,
         (a % 16) + (value % 16) + ALU!Bit(s.c) <= 15,
         a \div 16 + value \div 16 + 1 <= 15
  PROVE  LET r == ALU!adc(s, a, value)
         IN DecimalOf(r.val) + 100 * ALU!Bit(r.s.c) = DecimalOf(a) + DecimalOf(value) + ALU!Bit(s.c)
<1> DEFINE n == ALU!Sum(s, a, value)
           m == ALU!CorrectLow(n)
           t == ALU!SumStatus(s, a, value)
           k == ALU!Bit(s.c)
<1>1. ALU!adc(s, a, value) = ALU!Corrected(t, m)
  BY DEF ALU!adc
<1>2. n = a + value + k /\ k \in 0 .. 1
  BY BitIsBit DEF ALU!Sum
<1>3. t \in ALU!Status
  <2>1. t = [s EXCEPT !.c = ALU!carrycalc(n), !.z = ALU!zerocalc(n),
                      !.v = ALU!overflowcalc(n, a, value), !.n = ALU!signcalc(n)]
    BY DEF ALU!SumStatus
  <2>2. ALU!carrycalc(n) \in BOOLEAN /\ ALU!zerocalc(n) \in BOOLEAN
        /\ ALU!overflowcalc(n, a, value) \in BOOLEAN /\ ALU!signcalc(n) \in BOOLEAN
    BY DEF ALU!carrycalc, ALU!zerocalc, ALU!overflowcalc, ALU!signcalc
  <2> HIDE DEF n
  <2> QED BY <2>1, <2>2 DEF ALU!Status
<1>4. PICK al \in 0 .. 9, ah \in 0 .. 9 : a = 16 * ah + al /\ a % 16 = al /\ a \div 16 = ah
  BY DEF Decimals, ALU!Byte
<1>5. PICK vl \in 0 .. 9, vh \in 0 .. 9 :
        value = 16 * vh + vl /\ value % 16 = vl /\ value \div 16 = vh
  BY DEF Decimals, ALU!Byte
<1> HIDE DEF n, k
<1>6. al + vl + k <= 15 /\ ah + vh + 1 <= 15
  BY <1>4, <1>5 DEF k
<1>7. n = 16 * (ah + vh) + (al + vl + k) /\ n % 16 = al + vl + k
  BY <1>2, <1>4, <1>5, <1>6
<1>8. /\ m \in ALU!Byte /\ m % 16 <= 9
      /\ DecimalOf(m) = 10 * (ah + vh) + (al + vl + k)
  <2>1. CASE al + vl + k > 9
    <3>1. m = 16 * (ah + vh + 1) + (al + vl + k - 10)
      BY <1>2, <1>7, <2>1 DEF ALU!CorrectLow
    <3> HIDE DEF m
    <3>2. m % 16 = al + vl + k - 10 /\ m \div 16 = ah + vh + 1
      BY <3>1, <1>2, <1>6, <2>1
    <3> QED BY <3>1, <3>2, <1>2, <1>6, <2>1 DEF ALU!Byte, DecimalOf
  <2>2. CASE ~(al + vl + k > 9)
    <3>1. m = 16 * (ah + vh) + (al + vl + k)
      BY <1>2, <1>7, <2>2 DEF ALU!CorrectLow
    <3> HIDE DEF m
    <3>2. m % 16 = al + vl + k /\ m \div 16 = ah + vh
      BY <3>1, <1>2, <1>6, <2>2
    <3> QED BY <3>1, <3>2, <1>2, <1>6, <2>2 DEF ALU!Byte, DecimalOf
  <2> QED BY <2>1, <2>2
<1> HIDE DEF m, t
<1>9. LET r == ALU!Corrected(t, m) IN DecimalOf(r.val) + 100 * ALU!Bit(r.s.c) = DecimalOf(m)
  BY <1>3, <1>8, CorrectedHigh
<1>10. DecimalOf(a) = 10 * ah + al /\ DecimalOf(value) = 10 * vh + vl
  BY <1>4, <1>5 DEF DecimalOf
<1>11. DecimalOf(m) = DecimalOf(a) + DecimalOf(value) + k
  BY <1>2, <1>8, <1>10
<1> QED BY <1>1, <1>9, <1>11 DEF k

(* Otherwise it does not: of two digits that come to 16 or more, 6 are lost. *)
(* For 8 + 8 adc gives 10.                                                 *)
THEOREM DecimalLosesSix ==
  ASSUME NEW s \in ALU!Status, s.d, NEW a \in 0 .. 9, NEW value \in 0 .. 9,
         a + value + ALU!Bit(s.c) >= 16
  PROVE  LET r == ALU!adc(s, a, value)
         IN DecimalOf(r.val) + 100 * ALU!Bit(r.s.c) = a + value + ALU!Bit(s.c) - 6
<1> DEFINE n == ALU!Sum(s, a, value)
           t == ALU!SumStatus(s, a, value)
<1>1. n = a + value + ALU!Bit(s.c) /\ n \in 16 .. 19
  BY BitIsBit DEF ALU!Sum
<1>2. ALU!adc(s, a, value) = ALU!Corrected(t, ALU!CorrectLow(n))
  BY DEF ALU!adc
<1> HIDE DEF n
<1>3. ALU!CorrectLow(n) = n /\ ALU!HighDigit(n) = 1
  BY <1>1 DEF ALU!CorrectLow, ALU!HighDigit, ALU!Lo
<1>4. ALU!Corrected(t, n) = ALU!Gives(n, [t EXCEPT !.c = FALSE])
  BY <1>3 DEF ALU!Corrected
<1>5. [t EXCEPT !.c = FALSE].c = FALSE
  BY DEF ALU!SumStatus, ALU!Status
<1>6. ALU!Lo(n) = n /\ DecimalOf(n) = n - 6
  BY <1>1 DEF ALU!Lo, DecimalOf
<1> DEFINE r == ALU!adc(s, a, value)
<1>7. r.val = n /\ ALU!Bit(r.s.c) = 0
  <2> DEFINE u == [t EXCEPT !.c = FALSE]
  <2>1. ~u.c
    BY <1>5
  <2>2. r = ALU!Gives(n, u)
    BY <1>2, <1>3, <1>4
  <2> HIDE DEF r, u
  <2>3. r.val = ALU!Lo(n) /\ r.s = u
    BY <2>2 DEF ALU!Gives
  <2> QED BY <1>6, <2>1, <2>3 DEF ALU!Bit
<1> HIDE DEF r
<1>8. DecimalOf(r.val) + 100 * ALU!Bit(r.s.c) = a + value + ALU!Bit(s.c) - 6
  <2> DEFINE k == ALU!Bit(s.c)
  <2>1. k \in 0 .. 1 /\ n = a + value + k /\ n \in 16 .. 19
    BY <1>1, BitIsBit
  <2> HIDE DEF k
  <2>2. n - 6 + 100 * 0 = a + value + k - 6
    BY <2>1
  <2> QED BY <1>6, <1>7, <2>2 DEF k
<1> QED BY <1>8 DEF r
================================================================================
