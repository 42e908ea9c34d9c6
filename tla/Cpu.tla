---------------------------------- MODULE Cpu ----------------------------------
(***************************************************************************)
(* The 65C02 core, core/src/cpu.c.                                         *)
(*                                                                         *)
(* cpu_tick is called once for every PHI2 cycle and runs a state machine   *)
(* until it has consumed that cycle.  One turn of its loop is one step     *)
(* here, so that a tick is BeginTick, some turns, EndTick.  Each handler   *)
(* of an addressing mode and of an opcode is the operator of its name, and *)
(* each of its disjuncts is one op_state of the handler.                   *)
(*                                                                         *)
(* The machine is scaled down: a byte has ByteSize values, an address two  *)
(* bytes, the stack one cell for each value of sp.  What an instruction    *)
(* computes is left out except where control depends on it; of the status  *)
(* only I, D and B are kept.  Whether the operand crosses a page and       *)
(* whether a branch is taken is drawn when the opcode is fetched.          *)
(* Instructions do not store into the stack page; the program is a         *)
(* sequence of sets of opcodes, the n-th of which holds those that may be  *)
(* fetched as the n-th instruction.                                        *)
(***************************************************************************)
EXTENDS CpuTables, Sequences

CONSTANTS
  ByteSize,   \* values of a byte
  Program,    \* which opcodes are fetched first, second, ...
  MaxInts,    \* bound of the model: interrupts taken
  Draws,      \* the answers to "is a page crossed", "is the branch taken"
  Data,       \* bytes that the registers A, X and Y may hold
  Targets,    \* addresses that operands hold
  Vectors,    \* the contents of the three vectors
  Lines       \* the pins that are driven

Byte    == 0 .. ByteSize - 1
Address == 0 .. ByteSize * ByteSize - 1
Source  == {"BRK", "NMI", "RST", "IRQ"}
OpState ==
  {"OPCODE", "PARAM0", "PARAM1", "PARAM2", "PARAM3", "PARAM4",
   "OP0", "OP1", "OP2", "OP3", "OP4",
   "VEC0", "VEC1", "VEC2", "VEC3", "VEC4", "VEC5", "VEC6"}
Status  == [i : BOOLEAN, d : BOOLEAN, b : BOOLEAN]

ASSUME CpuAssumption ==
  /\ ByteSize \in Nat /\ ByteSize >= 8
  /\ Program \in Seq(SUBSET Opcode)
  /\ MaxInts \in Nat
  /\ Draws \subseteq BOOLEAN
  /\ Data \subseteq Byte
  /\ Targets \subseteq Address
  /\ Vectors \in [{"IRQ", "NMI", "RST"} -> Address]
  /\ Lines \subseteq {"IRQ", "NMI", "RDY"}

VARIABLES
  pc, sp, status,  \* regs
  stack,           \* the memory of page 1
  opcode,
  page,            \* CPU_PAGE_BOUNDARY
  vecSrc,          \* vec_src
  tmpval,          \* of rts and rti: the address pulled so far
  opState,         \* op_state
  inTick,          \* cpu_tick is running
  consumed,        \* CPU_CYCLE_CONSUMED
  irq, rdy,        \* some voter asks for an interrupt, for a halt
  nmiPending,      \* SV_NMI_EDGE_PENDING
  accesses,        \* history: bus operations of this tick
  cycles,          \* history: cycles of the instruction so far
  run,             \* history and data of the instruction, see Begin
  pushed,          \* history: what the stack holds, the latest last
  expect,          \* history: where a return should lead
  pos,             \* instructions fetched
  ints             \* interrupts taken

regs    == <<pc, sp, status, stack, page, vecSrc, tmpval, pushed, expect>>
instr   == <<opcode, run, pos, ints>>
pins    == <<irq, rdy, nmiPending>>
vars    == <<regs, instr, opState, inTick, consumed, pins, accesses, cycles>>

-----------------------------------------------------------------------------
(* Bytes and addresses.                                                     *)
Lo(a) == a % ByteSize
Hi(a) == a \div ByteSize
Plus(a, n) == (a + n) % (ByteSize * ByteSize)

Bit(cond) == IF cond THEN 1 ELSE 0

(* The byte that a status is pushed as, with or without FLAG_BREAK, and     *)
(* back.                                                                   *)
StatusByte(s, brk) == Bit(s.i) + 2 * Bit(s.d) + 4 * Bit(s.b \/ brk)

ByteStatus(v) == [i |-> v % 2 = 1, d |-> (v \div 2) % 2 = 1,
                  b |-> (v \div 4) % 2 = 1]

NoReturn == [known |-> FALSE, pc |-> 0, status |-> ByteStatus(0)]

(* What run records of an instruction, or of an interrupt sequence: where   *)
(* it begins, with which page flag, and what its operands will do.         *)
Begin(kind, at, cross, cond) ==
  [kind |-> kind, at |-> at, stale |-> page, cross |-> cross, cond |-> cond]

-----------------------------------------------------------------------------
(* advance_state, after a bus operation (Read, Write, Peek) or without one  *)
(* (Idle, Skip), that does (Read, Write, Idle) or does not (Peek, Skip)    *)
(* consume the cycle.                                                      *)
At(s) == opState = s

Advance(next, memcycle) ==
  /\ opState' = next
  /\ consumed' = memcycle
  /\ cycles' = cycles + Bit(memcycle)

Read(next)  == Advance(next, TRUE) /\ accesses' = accesses + 1
Write(next) == Advance(next, TRUE) /\ accesses' = accesses + 1
Peek(next)  == Advance(next, FALSE) /\ accesses' = accesses + 1
Idle(next)  == Advance(next, TRUE) /\ UNCHANGED accesses
Skip(next)  == Advance(next, FALSE) /\ UNCHANGED accesses

(* What happens to the registers meanwhile.                                 *)
Same == UNCHANGED regs

SetPc(a) ==
  pc' = a /\ UNCHANGED <<sp, status, stack, page, vecSrc, tmpval, pushed, expect>>

NextPc == SetPc(Plus(pc, 1))
Jump   == \E a \in Targets : SetPc(a)

SetStatus(s) ==
  status' = s /\ UNCHANGED <<pc, sp, stack, page, vecSrc, tmpval, pushed, expect>>

(* push8; the history keeps the last ByteSize items, older ones have been   *)
(* overwritten.                                                            *)
\* (a mutant: the stack pointer moves first, as on a machine that points at
\* the top element)
PushAfterDecrement(v, item) ==
  /\ sp' = (sp + ByteSize - 1) % ByteSize
  /\ stack' = [stack EXCEPT ![sp'] = v]
  /\ pushed' = IF Len(pushed) < ByteSize THEN Append(pushed, item)
               ELSE Append(Tail(pushed), item)

Push(v, item) ==
  /\ stack' = [stack EXCEPT ![sp] = v]
  /\ sp' = (sp + ByteSize - 1) % ByteSize
  /\ pushed' = IF Len(pushed) < ByteSize THEN Append(pushed, item)
               ELSE Append(Tail(pushed), item)

(* pull8: the byte that it returns, and what it does.                       *)
Pulled == stack[(sp + 1) % ByteSize]

Pull ==
  /\ sp' = (sp + 1) % ByteSize
  /\ pushed' = IF pushed = <<>> THEN <<>>
               ELSE SubSeq(pushed, 1, Len(pushed) - 1)
  /\ UNCHANGED stack

Item(v, role, to, st) == [byte |-> v, role |-> role, pc |-> to, status |-> st]
TopRole(n) == IF Len(pushed) > n THEN pushed[Len(pushed) - n].role ELSE "none"

(* disassemble_pc_string: the length that is shown for the instruction o at *)
(* pc a.  At the top of memory fewer than three bytes are looked at, and   *)
(* the string is not written if that is too few.                           *)
disassemble_pc_string(a, o) ==
  LET top == ByteSize * ByteSize - 1
      len == 1 + Bit(a < top) + Bit(a < top - 1)
  IN disassemble_opcode(len, o)

-----------------------------------------------------------------------------
(* The addressing modes.                                                    *)
imp == Peek("OP0") /\ Same

acc == Peek("OP0") /\ Same

\* (a mutant: the handler leaves op_state alone)
immWithoutAdvance == Skip("PARAM0") /\ Same

imm == Skip("OP0") /\ NextPc

zp == Read("OP0") /\ NextPc

zpx == \/ At("PARAM0") /\ Read("PARAM1") /\ Same
       \/ ~At("PARAM0") /\ Read("OP0") /\ NextPc

zpy == \/ At("PARAM0") /\ Read("PARAM1") /\ Same
       \/ ~At("PARAM0") /\ Read("OP0") /\ NextPc

rel == Peek("OP0") /\ NextPc

JSR == 32
JMP == 76

\* (a mutant: no special case for JMP)
absoAllAlike ==
  \/ opcode = JSR /\ Skip("OP0") /\ Same
  \/ opcode # JSR /\ At("PARAM0") /\ Read("PARAM1") /\ NextPc
  \/ opcode # JSR /\ ~At("PARAM0") /\ Read("OP0") /\ NextPc

abso ==
  \/ opcode = JSR /\ Skip("OP0") /\ Same
  \/ opcode # JSR /\ At("PARAM0") /\ Read("PARAM1") /\ NextPc
  \/ opcode = JMP /\ ~At("PARAM0") /\ Peek("OP0") /\ NextPc
  \/ opcode \notin {JSR, JMP} /\ ~At("PARAM0") /\ Read("OP0") /\ NextPc

CrossPage ==
  page' = TRUE
  /\ UNCHANGED <<pc, sp, status, stack, vecSrc, tmpval, pushed, expect>>

\* (a mutant: the way across a page steps over the second byte again)
absxStepsAgain ==
  \/ At("PARAM0") /\ Read("PARAM1") /\ NextPc
  \/ At("PARAM1") /\ run.cross /\ Read("PARAM2") /\ CrossPage
  \/ At("PARAM1") /\ ~run.cross /\ Read("OP0") /\ NextPc
  \/ At("PARAM2") /\ Read("OP0") /\ SetPc(Plus(pc, 2))

absx ==
  \/ At("PARAM0") /\ Read("PARAM1") /\ NextPc
  \/ At("PARAM1") /\ run.cross /\ Read("PARAM2") /\ CrossPage
  \/ At("PARAM1") /\ ~run.cross /\ Read("OP0") /\ NextPc
  \/ At("PARAM2") /\ Read("OP0") /\ NextPc

absy ==
  \/ At("PARAM0") /\ Read("PARAM1") /\ NextPc
  \/ At("PARAM1") /\ run.cross /\ Read("PARAM2") /\ CrossPage
  \/ At("PARAM1") /\ ~run.cross /\ Read("OP0") /\ NextPc
  \/ At("PARAM2") /\ Read("OP0") /\ NextPc

ind ==
  \/ At("PARAM0") /\ Read("PARAM1") /\ NextPc
  \/ At("PARAM1") /\ Read("PARAM2") /\ Same
  \/ At("PARAM2") /\ Read("PARAM3") /\ Same
  \/ At("PARAM3") /\ Read("PARAM4") /\ Same
  \/ At("PARAM4") /\ Peek("OP0") /\ Same

indx ==
  \/ At("PARAM0") /\ Read("PARAM1") /\ Same
  \/ At("PARAM1") /\ Read("PARAM2") /\ NextPc
  \/ At("PARAM2") /\ Read("PARAM3") /\ Same
  \/ At("PARAM3") /\ Read("OP0") /\ Same

indy ==
  \/ At("PARAM0") /\ Read("PARAM1") /\ NextPc
  \/ At("PARAM1") /\ Read("PARAM2") /\ Same
  \/ At("PARAM2") /\ run.cross /\ Read("PARAM3") /\ CrossPage
  \/ At("PARAM2") /\ ~run.cross /\ Read("OP0") /\ Same
  \/ At("PARAM3") /\ Read("OP0") /\ Same

indz ==
  \/ At("PARAM0") /\ Read("PARAM1") /\ NextPc
  \/ At("PARAM1") /\ Read("PARAM2") /\ Same
  \/ At("PARAM2") /\ Read("OP0") /\ Same

abin ==
  \/ At("PARAM0") /\ Read("PARAM1") /\ NextPc
  \/ At("PARAM1") /\ Read("PARAM2") /\ Same
  \/ At("PARAM2") /\ Read("PARAM3") /\ Same
  \/ At("PARAM3") /\ Read("PARAM4") /\ Same
  \/ At("PARAM4") /\ Peek("OP0") /\ Same

zprel ==
  \/ At("PARAM0") /\ Read("PARAM1") /\ NextPc
  \/ At("PARAM1") /\ Read("PARAM2") /\ Same
  \/ At("PARAM2") /\ Read("PARAM3") /\ Same
  \/ At("PARAM3") /\ Peek("OP0") /\ NextPc

Mode == addrtable(opcode)

addr_handlers ==
  \/ Mode = "IMP" /\ imp
  \/ Mode = "ACC" /\ acc
  \/ Mode = "IMM" /\ imm
  \/ Mode = "ZP" /\ zp
  \/ Mode = "ZPX" /\ zpx
  \/ Mode = "ZPY" /\ zpy
  \/ Mode = "REL" /\ rel
  \/ Mode = "ABSO" /\ abso
  \/ Mode = "ABSX" /\ absx
  \/ Mode = "ABSY" /\ absy
  \/ Mode = "IND" /\ ind
  \/ Mode = "INDX" /\ indx
  \/ Mode = "INDY" /\ indy
  \/ Mode = "INDZ" /\ indz
  \/ Mode = "ABIN" /\ abin
  \/ Mode = "ZPREL" /\ zprel

-----------------------------------------------------------------------------
(* getvalue and putvalue: the bus, unless the operand is the accumulator.   *)
Get(next) == IF Mode = "ACC" THEN Idle(next) ELSE Read(next)
Put(next) == IF Mode = "ACC" THEN Idle(next) ELSE Write(next)

(* Handlers that read their operand.                                        *)
and == Get("OPCODE") /\ Same
bit == Get("OPCODE") /\ Same
cmp == Get("OPCODE") /\ Same
cpx == Get("OPCODE") /\ Same
cpy == Get("OPCODE") /\ Same
eor == Get("OPCODE") /\ Same
lda == Get("OPCODE") /\ Same
ldx == Get("OPCODE") /\ Same
ldy == Get("OPCODE") /\ Same
ora == Get("OPCODE") /\ Same

adc == \/ At("OP0") /\ ~status.d /\ Get("OPCODE") /\ Same
       \/ At("OP0") /\ status.d /\ Get("OP1") /\ Same
       \/ ~At("OP0") /\ Idle("OPCODE") /\ Same

sbc == \/ At("OP0") /\ ~status.d /\ Get("OPCODE") /\ Same
       \/ At("OP0") /\ status.d /\ Get("OP1") /\ Same
       \/ ~At("OP0") /\ Idle("OPCODE") /\ Same

(* Handlers that read, modify and write their operand.                      *)
ModifyAccumulator == Mode = "ACC" /\ At("OP0") /\ Put("OPCODE") /\ Same

ModifyMemory ==
  \/ At("OP0") /\ Read("OP1") /\ Same
  \/ At("OP1") /\ Read("OP2") /\ Same
  \/ At("OP2") /\ Put("OPCODE") /\ Same

asl == ModifyAccumulator \/ (Mode # "ACC" /\ ModifyMemory)
lsr == ModifyAccumulator \/ (Mode # "ACC" /\ ModifyMemory)
rol == ModifyAccumulator \/ (Mode # "ACC" /\ ModifyMemory)
ror == ModifyAccumulator \/ (Mode # "ACC" /\ ModifyMemory)
trb == ModifyMemory
tsb == ModifyMemory
rmb == ModifyMemory
smb == ModifyMemory

dec ==
  \/ At("OP0") /\ Mode = "ABSX" /\ ~page /\ Read("OP1") /\ Same
  \/ At("OP0") /\ (Mode # "ABSX" \/ page) /\ Skip("OP1") /\ Same
  \/ At("OP1") /\ Mode = "ACC" /\ Get("OPCODE") /\ Same
  \/ At("OP1") /\ Mode # "ACC" /\ Get("OP2") /\ Same
  \/ At("OP2") /\ Read("OP3") /\ Same
  \/ At("OP3") /\ Put("OPCODE") /\ Same

inc ==
  \/ At("OP0") /\ Mode = "ABSX" /\ ~page /\ Read("OP1") /\ Same
  \/ At("OP0") /\ (Mode # "ABSX" \/ page) /\ Skip("OP1") /\ Same
  \/ At("OP1") /\ Mode = "ACC" /\ Get("OPCODE") /\ Same
  \/ At("OP1") /\ Mode # "ACC" /\ Get("OP2") /\ Same
  \/ At("OP2") /\ Read("OP3") /\ Same
  \/ At("OP3") /\ Put("OPCODE") /\ Same

(* The stores: one cycle more where an index may carry into the page, which *)
(* the addressing mode has spent already if it does.                       *)
\* (a mutant: the extra cycle is left out)
StoreAtOnce(modes) == Put("OPCODE") /\ Same

Store(modes) ==
  \/ At("OP0") /\ Mode \in modes /\ ~page /\ Read("OP1") /\ Same
  \/ At("OP0") /\ (Mode \notin modes \/ page) /\ Put("OPCODE") /\ Same
  \/ ~At("OP0") /\ Put("OPCODE") /\ Same

sta == Store({"ABSX", "ABSY", "INDY"})
stx == Store({"ABSX", "ABSY"})
sty == Store({"ABSX", "ABSY"})
stz == Store({"ABSX", "ABSY"})

(* The branches.                                                            *)
BranchTaken ==
  \/ At("OP1") /\ run.cross /\ Read("OP2") /\ Same
  \/ At("OP1") /\ ~run.cross /\ Read("OPCODE") /\ Jump
  \/ At("OP2") /\ Read("OPCODE") /\ Jump

Branch ==
  \/ At("OP0") /\ run.cond /\ Idle("OP1") /\ Same
  \/ At("OP0") /\ ~run.cond /\ Idle("OPCODE") /\ Same
  \/ BranchTaken

bxx == Branch
bbr == Branch
bbs == Branch
bra == (At("OP0") /\ Idle("OP1") /\ Same) \/ BranchTaken

(* Handlers that touch registers and flags alone; of what they do to the    *)
(* registers only I, D and sp are kept.                                    *)
clc == Idle("OPCODE") /\ Same
clv == Idle("OPCODE") /\ Same
sec == Idle("OPCODE") /\ Same
dex == Idle("OPCODE") /\ Same
dey == Idle("OPCODE") /\ Same
inx == Idle("OPCODE") /\ Same
iny == Idle("OPCODE") /\ Same
nop == Idle("OPCODE") /\ Same
tax == Idle("OPCODE") /\ Same
tay == Idle("OPCODE") /\ Same
tsx == Idle("OPCODE") /\ Same
txa == Idle("OPCODE") /\ Same
tya == Idle("OPCODE") /\ Same
wai == Idle("OPCODE") /\ Same

cld == Idle("OPCODE") /\ SetStatus([status EXCEPT !.d = FALSE])
sed == Idle("OPCODE") /\ SetStatus([status EXCEPT !.d = TRUE])
cli == Idle("OPCODE") /\ SetStatus([status EXCEPT !.i = FALSE])
sei == Idle("OPCODE") /\ SetStatus([status EXCEPT !.i = TRUE])

txs ==
  /\ Idle("OPCODE")
  /\ sp' \in Data
  /\ pushed' = <<>>
  /\ UNCHANGED <<pc, status, stack, page, vecSrc, tmpval, expect>>

jmp == Idle("OPCODE") /\ Jump

-----------------------------------------------------------------------------
(* Subroutines and the stack.                                               *)
KeepButStack == UNCHANGED <<pc, status, page, vecSrc, tmpval, expect>>

jsr ==
  \/ At("OP0") /\ Read("OP1") /\ NextPc
  \/ At("OP1") /\ Read("OP2") /\ Same
  \/ /\ At("OP2") /\ Write("OP3") /\ KeepButStack
     /\ Push(Hi(pc), Item(Hi(pc), "jsrHi", Plus(run.at, 3), status))
  \/ /\ At("OP3") /\ Write("OP4") /\ KeepButStack
     /\ Push(Lo(pc), Item(Lo(pc), "jsrLo", Plus(run.at, 3), status))
  \/ At("OP4") /\ Read("OPCODE") /\ Jump

(* The address pulled: first its low byte, then its high byte.              *)
PullLo ==
  /\ Pull
  /\ tmpval' = Pulled
  /\ UNCHANGED <<pc, status, page, vecSrc>>

PullHi ==
  /\ Pull
  /\ pc' = tmpval + ByteSize * Pulled
  /\ UNCHANGED <<status, page, vecSrc, tmpval, expect>>

(* Where a return should lead is known when it pulls what one call, or one  *)
(* interrupt, has pushed.                                                  *)
ExpectReturn(known) ==
  expect' = IF known
            THEN [known |-> TRUE, pc |-> pushed[Len(pushed)].pc,
                  status |-> pushed[Len(pushed)].status]
            ELSE NoReturn

rts ==
  \/ At("OP0") /\ Idle("OP1") /\ Same
  \/ At("OP1") /\ Read("OP2") /\ Same
  \/ /\ At("OP2") /\ Read("OP3") /\ PullLo
     /\ ExpectReturn(TopRole(0) = "jsrLo" /\ TopRole(1) = "jsrHi")
  \/ At("OP3") /\ Read("OP4") /\ PullHi
  \/ At("OP4") /\ Read("OPCODE") /\ NextPc

\* (a mutant: the status is not restored)
rtiWithoutStatus ==
  \/ At("OP0") /\ Idle("OP1") /\ Same
  \/ At("OP1") /\ Read("OP2") /\ Same
  \/ /\ At("OP2") /\ Read("OP3") /\ Pull
     /\ ExpectReturn(TopRole(0) = "intSt" /\ TopRole(1) = "intLo" /\ TopRole(2) = "intHi")
     /\ UNCHANGED <<pc, status, page, vecSrc, tmpval>>
  \/ At("OP3") /\ Read("OP4") /\ PullLo /\ UNCHANGED expect
  \/ At("OP4") /\ Read("OPCODE") /\ PullHi

rti ==
  \/ At("OP0") /\ Idle("OP1") /\ Same
  \/ At("OP1") /\ Read("OP2") /\ Same
  \/ /\ At("OP2") /\ Read("OP3") /\ Pull
     /\ status' = ByteStatus(Pulled)
     /\ ExpectReturn(TopRole(0) = "intSt" /\ TopRole(1) = "intLo" /\ TopRole(2) = "intHi")
     /\ UNCHANGED <<pc, page, vecSrc, tmpval>>
  \/ At("OP3") /\ Read("OP4") /\ PullLo /\ UNCHANGED expect
  \/ At("OP4") /\ Read("OPCODE") /\ PullHi

PHP == 8
PLP == 40

ph_ ==
  \/ At("OP0") /\ Idle("OP1") /\ Same
  \/ /\ ~At("OP0") /\ Write("OPCODE") /\ KeepButStack
     /\ \E v \in IF opcode = PHP THEN {StatusByte(status, TRUE)} ELSE Data :
          Push(v, Item(v, "data", 0, status))

pl_ ==
  \/ At("OP0") /\ Idle("OP1") /\ Same
  \/ At("OP1") /\ Read("OP2") /\ Same
  \/ /\ At("OP2") /\ Read("OPCODE") /\ Pull
     /\ status' = IF opcode = PLP THEN ByteStatus(Pulled) ELSE status
     /\ UNCHANGED <<pc, page, vecSrc, tmpval, expect>>

brk ==
  /\ Idle("VEC2")
  /\ vecSrc' = "BRK"
  /\ UNCHANGED <<pc, sp, status, stack, page, tmpval, pushed, expect>>

Handler == optable(opcode)

optable_handlers ==
  \/ (Handler = "adc" /\ adc) \/ (Handler = "and" /\ and) \/ (Handler = "asl" /\ asl)
  \/ (Handler = "bbr" /\ bbr) \/ (Handler = "bbs" /\ bbs) \/ (Handler = "bit" /\ bit)
  \/ (Handler = "bra" /\ bra) \/ (Handler = "brk" /\ brk) \/ (Handler = "bxx" /\ bxx)
  \/ (Handler = "clc" /\ clc) \/ (Handler = "cld" /\ cld) \/ (Handler = "cli" /\ cli)
  \/ (Handler = "clv" /\ clv) \/ (Handler = "cmp" /\ cmp) \/ (Handler = "cpx" /\ cpx)
  \/ (Handler = "cpy" /\ cpy) \/ (Handler = "dec" /\ dec) \/ (Handler = "dex" /\ dex)
  \/ (Handler = "dey" /\ dey) \/ (Handler = "eor" /\ eor) \/ (Handler = "inc" /\ inc)
  \/ (Handler = "inx" /\ inx) \/ (Handler = "iny" /\ iny) \/ (Handler = "jmp" /\ jmp)
  \/ (Handler = "jsr" /\ jsr) \/ (Handler = "lda" /\ lda) \/ (Handler = "ldx" /\ ldx)
  \/ (Handler = "ldy" /\ ldy) \/ (Handler = "lsr" /\ lsr) \/ (Handler = "nop" /\ nop)
  \/ (Handler = "ora" /\ ora) \/ (Handler = "ph_" /\ ph_) \/ (Handler = "pl_" /\ pl_)
  \/ (Handler = "rmb" /\ rmb) \/ (Handler = "rol" /\ rol) \/ (Handler = "ror" /\ ror)
  \/ (Handler = "rti" /\ rti) \/ (Handler = "rts" /\ rts) \/ (Handler = "sbc" /\ sbc)
  \/ (Handler = "sec" /\ sec) \/ (Handler = "sed" /\ sed) \/ (Handler = "sei" /\ sei)
  \/ (Handler = "smb" /\ smb) \/ (Handler = "sta" /\ sta) \/ (Handler = "stx" /\ stx)
  \/ (Handler = "sty" /\ sty) \/ (Handler = "stz" /\ stz) \/ (Handler = "tax" /\ tax)
  \/ (Handler = "tay" /\ tay) \/ (Handler = "trb" /\ trb) \/ (Handler = "tsb" /\ tsb)
  \/ (Handler = "tsx" /\ tsx) \/ (Handler = "txa" /\ txa) \/ (Handler = "txs" /\ txs)
  \/ (Handler = "tya" /\ tya) \/ (Handler = "wai" /\ wai)

-----------------------------------------------------------------------------
(* vector: the sequence of a reset, an interrupt or a BRK.  An interrupted  *)
(* program goes on where it was; BRK returns to the byte after its opcode. *)
Resume == IF vecSrc = "BRK" THEN Plus(run.at, 1) ELSE run.at
Frame(v, role) ==
  Item(v, IF vecSrc = "RST" THEN "data" ELSE role, Resume, status)

vector ==
  \/ At("VEC0") /\ Read("VEC1") /\ Same
  \/ At("VEC1") /\ Read("VEC2") /\ Same
  \/ At("VEC2") /\ Write("VEC3") /\ Push(Hi(pc), Frame(Hi(pc), "intHi")) /\ KeepButStack
  \/ At("VEC3") /\ Write("VEC4") /\ Push(Lo(pc), Frame(Lo(pc), "intLo")) /\ KeepButStack
  \/ /\ At("VEC4") /\ Write("VEC5")
     /\ LET v == StatusByte(status, vecSrc = "BRK") IN Push(v, Frame(v, "intSt"))
     /\ status' = [status EXCEPT !.i = TRUE, !.d = @ /\ vecSrc # "RST"]
     /\ UNCHANGED <<pc, page, vecSrc, tmpval, expect>>
  \/ At("VEC5") /\ Read("VEC6") /\ Same
  \/ At("VEC6") /\ Read("OPCODE") /\ SetPc(Vectors[IF vecSrc = "BRK" THEN "IRQ" ELSE vecSrc])

-----------------------------------------------------------------------------
(* cpu_init, after the memset of emu_init.  The RAM starts out as zeroes.   *)
Init ==
  /\ pc = 0 /\ sp = 0 /\ status = ByteStatus(0)
  /\ stack = [a \in Byte |-> 0]
  /\ opcode = 0 /\ page = FALSE /\ tmpval = 0
  /\ vecSrc = "RST" /\ opState = "VEC0"
  /\ inTick = FALSE /\ consumed = FALSE
  /\ irq = FALSE /\ rdy = FALSE /\ nmiPending = FALSE
  /\ accesses = 0 /\ cycles = 0 /\ pos = 0 /\ ints = 0
  /\ run = [kind |-> "int", at |-> 0, stale |-> FALSE, cross |-> FALSE, cond |-> FALSE]
  /\ pushed = <<>> /\ expect = NoReturn

(* The devices change the pins between two ticks.  A vote taken in a bus    *)
(* callback, in the middle of a tick, is not looked at before the next     *)
(* tick: after its bus operation cpu_tick reads no pin.                    *)
DrivePins ==
  /\ ~inTick
  /\ irq' \in IF "IRQ" \in Lines THEN BOOLEAN ELSE {FALSE}
  /\ rdy' \in IF "RDY" \in Lines THEN BOOLEAN ELSE {FALSE}
  /\ nmiPending' \in IF "NMI" \in Lines THEN {nmiPending, TRUE} ELSE {FALSE}
  /\ UNCHANGED <<regs, instr, opState, inTick, consumed, accesses, cycles>>

(* cpu_tick while RDY is asserted: bus_replay repeats the last operation.   *)
HeldTick ==
  /\ ~inTick /\ rdy
  /\ accesses' = 1
  /\ UNCHANGED <<regs, instr, opState, inTick, consumed, pins, cycles>>

(* Bound of the model: no tick begins that would fetch beyond the program,  *)
(* or take more than MaxInts interrupts.                                   *)
\* (a mutant: I masks NMI as well)
TakesNmiUnmasked == nmiPending /\ ~status.i

TakesNmi == nmiPending
TakesIrq == ~TakesNmi /\ irq /\ ~status.i
TakesInterrupt == TakesNmi \/ TakesIrq
HasWork ==
  At("OPCODE") => IF TakesInterrupt THEN ints < MaxInts ELSE pos < Len(Program)

BeginTick ==
  /\ ~inTick /\ ~rdy /\ HasWork
  /\ inTick' = TRUE /\ consumed' = FALSE /\ accesses' = 0
  /\ UNCHANGED <<regs, instr, opState, pins, cycles>>

(* The turns of the loop of cpu_tick.                                       *)
Turn == inTick /\ ~consumed

EnterVector(src) ==
  /\ vecSrc' = src
  /\ opState' = "VEC0"
  /\ cycles' = 0
  /\ run' = Begin("int", pc, FALSE, FALSE)
  /\ ints' = ints + 1
  /\ expect' = NoReturn
  /\ UNCHANGED <<pc, sp, status, stack, page, tmpval, pushed, opcode, pos,
                 inTick, consumed, irq, rdy, accesses>>

TakeNmi ==
  /\ Turn /\ At("OPCODE") /\ TakesNmi
  /\ nmiPending' = FALSE
  /\ EnterVector("NMI")

TakeIrq ==
  /\ Turn /\ At("OPCODE") /\ TakesIrq
  /\ EnterVector("IRQ")
  /\ UNCHANGED nmiPending

FetchOpcode ==
  /\ Turn /\ At("OPCODE") /\ ~TakesInterrupt
  /\ opcode' \in Program[pos + 1]
  /\ pos' = pos + 1
  /\ \E cross, cond \in Draws : run' = Begin("instr", pc, cross, cond)
  /\ pc' = Plus(pc, 1)
  /\ opState' = "PARAM0" /\ consumed' = TRUE /\ cycles' = 1
  /\ accesses' = accesses + 1
  /\ expect' = NoReturn
  /\ UNCHANGED <<sp, status, stack, page, vecSrc, tmpval, pushed, ints, inTick, pins>>

AddressTurn ==
  /\ Turn /\ opState \in {"PARAM0", "PARAM1", "PARAM2", "PARAM3", "PARAM4"}
  /\ addr_handlers
  /\ UNCHANGED <<instr, inTick, pins>>

OpTurn ==
  /\ Turn /\ opState \in {"OP0", "OP1", "OP2", "OP3", "OP4"}
  /\ optable_handlers
  /\ UNCHANGED <<instr, inTick, pins>>

VectorTurn ==
  /\ Turn /\ opState \in {"VEC0", "VEC1", "VEC2", "VEC3", "VEC4", "VEC5", "VEC6"}
  /\ vector
  /\ UNCHANGED <<instr, inTick, pins>>

EndTick ==
  /\ inTick /\ consumed
  /\ inTick' = FALSE /\ consumed' = FALSE
  /\ UNCHANGED <<regs, instr, opState, pins, accesses, cycles>>

CpuStep ==
  \/ HeldTick
  \/ BeginTick
  \/ TakeNmi
  \/ TakeIrq
  \/ FetchOpcode
  \/ AddressTurn
  \/ OpTurn
  \/ VectorTurn
  \/ EndTick

Next == CpuStep \/ DrivePins

Spec == Init /\ [][Next]_vars

(* emu_tick is called again and again (dbgcli, debugger.c), and cpu_tick is *)
(* sequential code.  Nothing is assumed of the devices.                    *)
FairSpec == Spec /\ WF_vars(CpuStep)

-----------------------------------------------------------------------------
Role == {"data", "jsrHi", "jsrLo", "intHi", "intLo", "intSt"}

TypeOK ==
  /\ pc \in Address /\ sp \in Byte /\ status \in Status
  /\ stack \in [Byte -> Byte]
  /\ opcode \in Opcode /\ page \in BOOLEAN
  /\ vecSrc \in Source /\ opState \in OpState
  /\ tmpval \in Byte
  /\ inTick \in BOOLEAN /\ consumed \in BOOLEAN
  /\ irq \in BOOLEAN /\ rdy \in BOOLEAN /\ nmiPending \in BOOLEAN
  /\ accesses \in Nat /\ cycles \in Nat /\ pos \in Nat /\ ints \in Nat
  /\ run \in [kind : {"instr", "int"}, at : Address, stale : BOOLEAN,
              cross : BOOLEAN, cond : BOOLEAN]
  /\ pushed \in Seq([byte : Byte, role : Role, pc : Address, status : Status])
  /\ expect \in [known : BOOLEAN, pc : Address, status : Status]

(* Page 1 and sp are a stack: what was pushed, and not yet pulled or pushed *)
(* over, lies above sp in order, also where sp has wrapped around.         *)
StackIsLifo ==
  /\ Len(pushed) <= ByteSize
  /\ \A k \in 1 .. Len(pushed) :
       stack[(sp + k) % ByteSize] = pushed[Len(pushed) + 1 - k].byte

(* What the cycles of an instruction are by tests/core/cpu_bin_tests.yml,   *)
(* and for BRK and RTI, which have no test there, by ticktable             *)
(* (cpu.c:1921-1939).                                                      *)
OperandCycles(m) ==
  CASE m = "IMM" -> 2
    [] m = "ZP" -> 3
    [] m \in {"ZPX", "ZPY", "ABSO", "ABSX", "ABSY"} -> 4
    [] m \in {"INDY", "INDZ"} -> 5
    [] m = "INDX" -> 6

Indexed == {"ABSX", "ABSY", "INDY"}
ReadOps == {"adc", "and", "bit", "cmp", "cpx", "cpy", "eor", "lda", "ldx",
            "ldy", "ora", "sbc"}
Stores  == {"sta", "stx", "sty", "stz"}
Shifts  == {"asl", "lsr", "rol", "ror"}

TestedCycles(op, m) ==
  CASE op \in ReadOps ->
         OperandCycles(m) + Bit(m \in Indexed /\ run.cross)
                          + Bit(op \in {"adc", "sbc"} /\ status.d)
    [] op \in Stores -> OperandCycles(m) + Bit(m \in Indexed)
    [] m = "ACC" -> 2
    [] op \in Shifts /\ m # "ACC" -> OperandCycles(m) + 2 + Bit(m = "ABSX" /\ run.cross)
    [] op \in {"inc", "dec"} /\ m # "ACC" -> OperandCycles(m) + 2 + Bit(m = "ABSX")
    [] op \in {"trb", "tsb", "rmb", "smb"} -> OperandCycles(m) + 2
    [] op = "bra" -> 3 + Bit(run.cross)
    [] op = "bxx" -> 2 + Bit(run.cond) + Bit(run.cond /\ run.cross)
    [] op \in {"bbr", "bbs"} -> 5 + Bit(run.cond) + Bit(run.cond /\ run.cross)
    [] op = "jmp" -> IF m = "ABSO" THEN 3 ELSE 6
    [] op \in {"jsr", "rts", "rti"} -> 6
    [] op = "brk" -> 7
    [] op = "ph_" -> 3
    [] op = "pl_" -> 4
    [] OTHER -> 2

(* An instruction or an interrupt sequence has just ended.                  *)
Ended(kind) == At("OPCODE") /\ cycles > 0 /\ run.kind = kind

(* "TODO cycle counts for undocumented nops?" (cpu.c:1090).                 *)
Undocumented == Handler = "nop" /\ Mode # "IMP"

(* The handlers that look at CPU_PAGE_BOUNDARY (cpu.c:828, 914, 1392-1492).  *)
LooksAtPageFlag ==
  \/ Handler \in {"inc", "dec"} /\ Mode = "ABSX"
  \/ Handler \in Stores /\ Mode \in Indexed

(* CPU_PAGE_BOUNDARY is set and never cleared (cpu.c:255, 293, 393): what    *)
(* an earlier instruction left there, such a handler takes for its own.     *)
MisreadsPageFlag == LooksAtPageFlag /\ run.stale /\ ~run.cross

(* Every instruction takes the cycles that the tests expect of it, and an   *)
(* interrupt 7, however the ticks are interleaved with RDY and whatever     *)
(* instructions ran before; with one exception, to the cycle: the indexed   *)
(* stores, inc and dec that cross no page themselves and find the page flag *)
(* of an earlier instruction take one cycle less, the one they would have   *)
(* spent on the address.                                                    *)
CyclesAsTested ==
  /\ Ended("instr") /\ ~Undocumented =>
        cycles = TestedCycles(Handler, Mode) - Bit(MisreadsPageFlag)
  /\ Ended("int") => cycles = 7

DecimalCycle == Handler \in {"adc", "sbc"} /\ status.d

(* Each cycle is one bus operation, as on the chip, where every cycle       *)
(* reads or writes (cpu_bin_tester.c:112 counts the cycles of a test by    *)
(* its bus operations), except the extra cycle of decimal mode and the     *)
(* last one of an undocumented nop, which have none.                       *)
OneAccessPerCycle ==
  /\ accesses <= 1
  /\ consumed /\ ~(At("OPCODE") /\ (Undocumented \/ DecimalCycle)) => accesses = 1

(* An instruction that does not jump ends where the disassembler has its    *)
(* end: the lengths by which the debugger lists a program and the bytes    *)
(* that the handlers of the addressing modes step over are the same, for   *)
(* all opcodes, whether pages are crossed and RDY is held or not.          *)
Jumps ==
  \/ Handler \in {"jsr", "jmp", "rts", "rti", "brk", "bra"}
  \/ Handler \in {"bxx", "bbr", "bbs"} /\ run.cond

NextIsDisassembled ==
  LET length == disassemble_pc_string(run.at, opcode)
  IN Ended("instr") /\ ~Jumps /\ length # 0 => pc = Plus(run.at, length)

(* A return leads where the call or the interrupt came from, with I and D   *)
(* as they were: the instruction after the JSR; the one an interrupt kept  *)
(* from running; whatever was called, interrupted and pushed in between.   *)
ReturnsWhereLeft ==
  At("OPCODE") /\ expect.known =>
    /\ pc = expect.pc
    /\ Handler = "rti" => status.i = expect.status.i /\ status.d = expect.status.d

(* The turns of a tick end: every tick consumes its cycle.                  *)
TickTerminates == inTick ~> ~inTick

(* Unless a device holds RDY for ever, an NMI edge is answered, whatever    *)
(* runs and whether I is set or not: the cpu begins the NMI sequence.      *)
NmiIsServed ==
  <>[]~rdy =>
    (nmiPending /\ ints < MaxInts ~> (vecSrc = "NMI" /\ At("VEC0")))
================================================================================
