------------------------------ MODULE Debugger -------------------------------
(***************************************************************************)
(* The debugger core, core/src/debugger.c: breakpoints, and the commands   *)
(* run, next, finish and step that drive the emulator.                     *)
(*                                                                         *)
(* One pass of a command's loop is one step; debug_break is called by the  *)
(* handler of ctrl-C between any two of them, also before the command has  *)
(* reset sw_break.                                                         *)
(*                                                                         *)
(* The machine is seen at the grain of debug_step_i, which ticks the       *)
(* emulator until the cpu is about to fetch: one instruction, or the entry *)
(* of an interrupt.  A program is a function from addresses to             *)
(* instructions, and of the stack only the return addresses are kept.      *)
(***************************************************************************)
EXTENDS Integers, Sequences, FiniteSets

CONSTANTS
  Code,            \* the program: what instruction is at which address
  IsrAddr,         \* where the interrupt handler begins
  Interrupts,      \* whether there are interrupts
  MaxDepth,        \* bound of the model: calls that the program nests
  MaxBreakpoints,  \* MAX_BREAKPOINTS
  BreakAddrs,      \* where breakpoints are set
  LabelsFiles,     \* labels files, each the sequence of its lines
  Bucket,          \* the bucket that a name hashes to
  BucketSize,      \* LABEL_ENTRIES_PER_BUCKET
  WildHandles,     \* what a handle may hold when a bucket has overflowed
  Symbols,         \* the cc65 debug info: addresses of names
  Commands         \* the commands that are given

Addr == DOMAIN Code
Slot == 0 .. MaxBreakpoints - 1
Name == DOMAIN Bucket \cup DOMAIN Symbols
None    == "none"
Garbage == "garbage"   \* what is found at a pointer that points anywhere

SwRequest == -1   \* BREAKPOINT_HANDLE_SW_REQUEST
NoHit     == -2   \* *breakpoint_hit has not been written

Line == [kind : {"global", "local", "invalid"}, name : DOMAIN Bucket, addr : Nat]

(* dbg_label_t, with its place among the labels; and breakpoint_t.          *)
Label      == [at : Nat, name : Name \cup {Garbage}, addr : Nat]
Breakpoint == [used : BOOLEAN, addr : Nat,
               label : Name \cup {None, Garbage}, sym : Name \cup {None, Garbage}]
Handle     == [breakpoints : [Slot -> Breakpoint], labels : SUBSET Label, swBreak : BOOLEAN]

ASSUME DebuggerAssumption ==
  /\ Addr \subseteq Nat
  /\ \A a \in Addr :
       /\ Code[a].op \in {"op", "jmp", "branch", "jsr", "rts", "rti"}
       /\ Code[a].len \in Nat \ {0}
       /\ Code[a].op \in {"op", "branch", "jsr"} => a + Code[a].len \in Addr
       /\ Code[a].op \in {"jmp", "branch", "jsr"} => Code[a].to \in Addr
  /\ IsrAddr \in Addr /\ BreakAddrs \subseteq Addr
  /\ Interrupts \in BOOLEAN
  /\ MaxDepth \in Nat /\ MaxBreakpoints \in Nat
  /\ LabelsFiles \subseteq Seq(Line)
  /\ BucketSize \in Nat
  /\ WildHandles \subseteq Handle
  /\ \A n \in DOMAIN Symbols : Symbols[n] \in Addr
  /\ None \notin Name /\ Garbage \notin Name
  /\ Commands \subseteq {"run", "next", "finish"}

VARIABLES
  pc, frames,      \* the machine: pc and the return addresses on its stack
  breakpoints,     \* handle->breakpoints
  labels,          \* handle->labels: the entries in use
  dbginfo,         \* handle->dbginfo has been set
  swBreak,         \* handle->sw_break
  cmd, stage,      \* the command that runs, and how far it is
  oldPc, nextPc,   \* debug_next: pc and next_pc
  count, isRet,    \* debug_finish: subroutine_count and is_ret
  hit, result,     \* *breakpoint_hit and what the command returned
  start,           \* history: pc and frames when the command began
  missed,          \* history: the frames that the count of finish has missed
  file, wild       \* history: the labels file, and whether a bucket overflowed

machine  == <<pc, frames>>
loaded   == <<labels, file, wild>>
bpVars   == <<breakpoints, loaded, dbginfo>>
locals   == <<oldPc, nextPc, count, isRet>>
returned == <<hit, result>>
dbgVars  == <<machine, bpVars, swBreak, cmd, stage, locals, returned,
              start, missed>>

NoBreakpoint == [used |-> FALSE, addr |-> 0, label |-> None, sym |-> None]

-----------------------------------------------------------------------------
(* The machine.                                                             *)
Frame == [kind : {"jsr", "int"}, to : Addr]

InHandler == \E i \in 1 .. Len(frames) : frames[i].kind = "int"

Interrupt ==
  /\ Interrupts /\ ~InHandler
  /\ frames' = Append(frames, [kind |-> "int", to |-> pc])
  /\ pc' = IsrAddr

Instruction ==
  LET i == Code[pc]
  IN \/ /\ i.op = "op" /\ pc' = pc + i.len /\ UNCHANGED frames
     \/ /\ i.op = "jmp" /\ pc' = i.to /\ UNCHANGED frames
     \/ /\ i.op = "branch" /\ UNCHANGED frames
        /\ pc' \in {i.to} \cup (IF Len(frames) < MaxDepth THEN {pc + i.len} ELSE {})
     \/ /\ i.op = "jsr" /\ pc' = i.to
        /\ frames' = Append(frames, [kind |-> "jsr", to |-> pc + i.len])
     \/ /\ i.op \in {"rts", "rti"} /\ frames # <<>>
        /\ pc' = frames[Len(frames)].to
        /\ frames' = SubSeq(frames, 1, Len(frames) - 1)

debug_step_i == Interrupt \/ Instruction

cpu_is_subroutine == Code[pc].op = "jsr"

-----------------------------------------------------------------------------
(* The labels.  debug_load_labels is called once, before any command.  A    *)
(* line with a name too long or an address of more than 16 bits, and a     *)
(* local label, are left out; the labels of a bucket are in the order of   *)
(* their lines.                                                            *)
Globals(f)     == {k \in DOMAIN f : f[k].kind = "global"}
LabelOf(f, k)  == [at |-> k, name |-> f[k].name, addr |-> f[k].addr]
InBucket(f, b) == {k \in Globals(f) : Bucket[f[k].name] = b}

Fits(f) == \A n \in DOMAIN Bucket : Cardinality(InBucket(f, Bucket[n])) <= BucketSize

(* add_label, when all is well, and when a bucket is full.  Then the name   *)
(* and the address are written through a pointer that was never set        *)
(* (debugger.c:94-96): the program crashes, at once or later, or goes on   *)
(* with a handle and a cpu that may hold anything; a crash is that no step *)
(* follows.                                                                *)
LoadsAll(f) ==
  /\ wild = FALSE
  /\ labels = {LabelOf(f, k) : k \in Globals(f)}
  /\ breakpoints = [i \in Slot |-> NoBreakpoint] /\ swBreak = FALSE
  /\ \A a \in Addr : pc <= a

Overflows ==
  /\ wild = TRUE
  /\ \E h \in WildHandles :
       labels = h.labels /\ breakpoints = h.breakpoints /\ swBreak = h.swBreak

debug_load_labels(f) == file = f /\ IF Fits(f) THEN LoadsAll(f) ELSE Overflows

(* find_label: the first entry with the name, if any.                      *)
find_label(n) ==
  {e \in labels : e.name = n /\ \A d \in labels : d.name = n => e.at <= d.at}

-----------------------------------------------------------------------------
(* Breakpoints.                                                             *)
FirstFree(i) ==
  i \in Slot /\ ~breakpoints[i].used /\ \A j \in 0 .. i - 1 : breakpoints[j].used

Becomes(i, a, label, sym) ==
  breakpoints' = [breakpoints EXCEPT
                    ![i] = [used |-> TRUE, addr |-> a, label |-> label, sym |-> sym]]

Idle == cmd = None

KeepRun == UNCHANGED <<machine, swBreak, cmd, stage, locals, returned, start, missed>>

(* debug_set_breakpoint_addr.  Whether a symbol is valid is left alone.     *)
SetBreakpointAddr(a) ==
  /\ Idle
  /\ \E i \in Slot :
       /\ FirstFree(i)
       /\ Becomes(i, a, None, breakpoints[i].sym)
  /\ UNCHANGED <<loaded, dbginfo>> /\ KeepRun

(* debug_set_breakpoint_label: a symbol of the debug info, or a label.      *)
SetBreakpointSymbol(n) ==
  /\ Idle
  /\ dbginfo /\ n \in DOMAIN Symbols
  /\ \E i \in Slot :
       /\ FirstFree(i)
       /\ Becomes(i, Symbols[n], None, n)
  /\ UNCHANGED <<loaded, dbginfo>> /\ KeepRun

SetBreakpointLabel(n) ==
  /\ Idle
  /\ ~(dbginfo /\ n \in DOMAIN Symbols)
  /\ \E e \in find_label(n), i \in Slot :
       /\ FirstFree(i)
       /\ Becomes(i, e.addr, n, breakpoints[i].sym)
  /\ UNCHANGED <<loaded, dbginfo>> /\ KeepRun

(* debug_clear_breakpoint.                                                  *)
\* (a mutant: sym_valid is left alone)
ClearedButSymbol(b) == [b EXCEPT !.used = FALSE, !.label = None]

Cleared(b) == [b EXCEPT !.used = FALSE, !.label = None, !.sym = None]

ClearBreakpoint(i) ==
  /\ Idle /\ breakpoints[i].used
  /\ breakpoints' = [breakpoints EXCEPT ![i] = Cleared(@)]
  /\ UNCHANGED <<loaded, dbginfo>> /\ KeepRun

(* debug_set_dbginfo, with one file and with none.                          *)
SetDbginfo(some) ==
  /\ Idle
  /\ dbginfo' = some
  /\ breakpoints' = IF some THEN breakpoints
                    ELSE [i \in Slot |-> [breakpoints[i] EXCEPT !.sym = None]]
  /\ UNCHANGED loaded /\ KeepRun

(* debug_get_breakpoints: those in use, each under its label, or else under *)
(* its symbol.  (They come in the order of their handles.)                  *)
Info(i) == [handle |-> i, address |-> breakpoints[i].addr,
            label |-> IF breakpoints[i].label # None
                      THEN breakpoints[i].label ELSE breakpoints[i].sym]

Listed == {Info(i) : i \in {j \in Slot : breakpoints[j].used}}

(* dbg_eval_breakpoints: the breakpoint that it returns.                    *)
\* (a mutant: breakpoints that were cleared still count)
HitsUsedOrNot(i, a) == breakpoints[i].addr = a

Hits(i, a) == breakpoints[i].used /\ breakpoints[i].addr = a

FirstHit(a) == CHOOSE i \in Slot : Hits(i, a) /\ \A j \in 0 .. i - 1 : ~Hits(j, a)
AnyHit(a)   == \E i \in Slot : Hits(i, a)

-----------------------------------------------------------------------------
(* debug_break, called from the signal handler at any time.                 *)
debug_break ==
  /\ swBreak' = TRUE
  /\ UNCHANGED <<machine, bpVars, cmd, stage, locals, returned, start, missed>>

KeepMachine == UNCHANGED <<machine, bpVars>>

(* The user steps one instruction, or gives a command.                      *)
debug_step ==
  /\ Idle
  /\ debug_step_i
  /\ UNCHANGED <<bpVars, swBreak, cmd, stage, locals, returned, start, missed>>

Command(c) ==
  /\ Idle
  /\ cmd' = c /\ stage' = "enter"
  /\ start' = [pc |-> pc, frames |-> frames]
  /\ hit' = NoHit
  /\ UNCHANGED <<machine, bpVars, swBreak, locals, result, missed>>

Return(h, r) ==
  /\ cmd' = None /\ stage' = "enter"
  /\ hit' = h /\ result' = r
  /\ oldPc' = 0 /\ nextPc' = 0 /\ count' = 0 /\ isRet' = FALSE
  /\ missed' = 0 /\ UNCHANGED start

(* debug_run.                                                               *)
RunEnter ==
  /\ cmd = "run" /\ stage = "enter"
  /\ swBreak' = FALSE
  /\ stage' = "loop"
  /\ KeepMachine /\ UNCHANGED <<cmd, locals, returned, start, missed>>

RunHit ==
  /\ cmd = "run" /\ stage = "loop" /\ ~swBreak
  /\ AnyHit(pc)
  /\ Return(FirstHit(pc), result)
  /\ KeepMachine /\ UNCHANGED swBreak

RunStep ==
  /\ cmd = "run" /\ stage = "loop" /\ ~swBreak
  /\ ~AnyHit(pc)
  /\ debug_step_i
  /\ UNCHANGED <<bpVars, swBreak, cmd, stage, locals, returned, start, missed>>

\* (a mutant: run does not look at sw_break)
RunBrokenNever == FALSE /\ KeepMachine

RunBroken ==
  /\ cmd = "run" /\ stage = "loop" /\ swBreak
  /\ Return(SwRequest, result)
  /\ KeepMachine /\ UNCHANGED swBreak

(* debug_next: of any other instruction a step, of a JSR all that it calls. *)
NextStepOver ==
  /\ cmd = "next" /\ stage = "enter"
  /\ ~cpu_is_subroutine
  /\ debug_step_i
  /\ Return(hit, FALSE)
  /\ UNCHANGED <<bpVars, swBreak>>

NextEnter ==
  /\ cmd = "next" /\ stage = "enter"
  /\ cpu_is_subroutine
  /\ oldPc' = pc /\ nextPc' = pc + Code[pc].len
  /\ swBreak' = FALSE
  /\ stage' = "loop"
  /\ KeepMachine /\ UNCHANGED <<cmd, count, isRet, returned, start, missed>>

\* (a mutant: to the first return that is met)
NextGoesToReturn == ~swBreak /\ Code[pc].op # "rts"

NextGoesOn == ~swBreak /\ nextPc # pc

NextPass ==
  /\ cmd = "next" /\ stage = "loop" /\ NextGoesOn
  /\ debug_step_i
  /\ IF AnyHit(oldPc)
     THEN Return(FirstHit(oldPc), TRUE)
     ELSE /\ oldPc' = pc'
          /\ UNCHANGED <<cmd, stage, nextPc, count, isRet, returned, start, missed>>
  /\ UNCHANGED <<bpVars, swBreak>>

NextLoopEnds ==
  /\ cmd = "next" /\ stage = "loop" /\ ~NextGoesOn
  /\ stage' = "exit"
  /\ KeepMachine /\ UNCHANGED <<swBreak, cmd, locals, returned, start, missed>>

NextExit ==
  /\ cmd = "next" /\ stage = "exit"
  /\ IF swBreak THEN Return(SwRequest, TRUE) ELSE Return(hit, FALSE)
  /\ KeepMachine /\ UNCHANGED swBreak

(* debug_finish.                                                            *)
FinishEnter ==
  /\ cmd = "finish" /\ stage = "enter"
  /\ count' = 0 /\ isRet' = FALSE /\ missed' = 0
  /\ stage' = "loop"
  /\ KeepMachine /\ UNCHANGED <<swBreak, cmd, oldPc, nextPc, returned, start>>

FinishHit ==
  /\ cmd = "finish" /\ stage = "loop" /\ ~isRet /\ ~swBreak
  /\ AnyHit(pc)
  /\ Return(FirstHit(pc), TRUE)
  /\ KeepMachine /\ UNCHANGED swBreak

\* (a mutant: nested calls are not counted)
CountsNoCall(opc) ==
  IF opc \in {"rti", "rts"} /\ count > 0 THEN count - 1 ELSE count

CountAfter(opc) ==
  CASE opc = "jsr"                         -> count + 1
    [] opc \in {"rti", "rts"} /\ count > 0 -> count - 1
    [] OTHER                               -> count

(* The opcode that has been counted is not executed if an interrupt is      *)
(* entered instead, and is met again after it.  The interrupt's frame is   *)
(* counted in the place of a JSR, and not in that of anything else; a      *)
(* return was even counted as one.                                         *)
MissedInto(opc) == CASE opc = "jsr"            -> 0
                     [] opc \in {"rti", "rts"} -> 2
                     [] OTHER                  -> 1

FinishPass ==
  /\ cmd = "finish" /\ stage = "loop" /\ ~isRet /\ ~swBreak
  /\ ~AnyHit(pc)
  /\ count' = CountAfter(Code[pc].op)
  /\ isRet' = (Code[pc].op \in {"rti", "rts"} /\ count = 0)
  /\ debug_step_i
  /\ missed' = missed + (IF Interrupt THEN MissedInto(Code[pc].op) ELSE 0)
  /\ UNCHANGED <<bpVars, swBreak, cmd, stage, oldPc, nextPc, returned, start>>

FinishLoopEnds ==
  /\ cmd = "finish" /\ stage = "loop" /\ (isRet \/ swBreak)
  /\ stage' = "exit"
  /\ KeepMachine /\ UNCHANGED <<swBreak, cmd, locals, returned, start, missed>>

FinishExit ==
  /\ cmd = "finish" /\ stage = "exit"
  /\ IF swBreak THEN Return(SwRequest, TRUE) ELSE Return(hit, FALSE)
  /\ KeepMachine /\ UNCHANGED swBreak

-----------------------------------------------------------------------------
Init ==
  /\ pc \in Addr /\ frames = <<>>
  /\ \E f \in LabelsFiles : debug_load_labels(f)
  /\ dbginfo = FALSE
  /\ cmd = None /\ stage = "enter"
  /\ oldPc = 0 /\ nextPc = 0 /\ count = 0 /\ isRet = FALSE
  /\ hit = NoHit /\ result = FALSE
  /\ start = [pc |-> pc, frames |-> frames] /\ missed = 0

Breakpoints ==
  \/ \E a \in BreakAddrs : SetBreakpointAddr(a)
  \/ \E n \in Name : SetBreakpointSymbol(n)
  \/ \E n \in Name : SetBreakpointLabel(n)
  \/ \E i \in Slot : ClearBreakpoint(i)
  \/ \E some \in BOOLEAN : SetDbginfo(some)

CommandStep ==
  \/ RunEnter \/ RunHit \/ RunStep \/ RunBroken
  \/ NextStepOver \/ NextEnter \/ NextPass \/ NextLoopEnds \/ NextExit
  \/ FinishEnter \/ FinishHit \/ FinishPass \/ FinishLoopEnds \/ FinishExit

Next ==
  \/ Breakpoints
  \/ debug_break
  \/ debug_step
  \/ \E c \in Commands : Command(c)
  \/ CommandStep

Spec == Init /\ [][Next]_dbgVars

(* A command is sequential code: it goes on running, unless the memory of   *)
(* the program has been overwritten.  Nothing is assumed of the user, of   *)
(* the breaks, or of how the program branches.                             *)
FairSpec == Spec /\ WF_dbgVars(~wild /\ CommandStep)

-----------------------------------------------------------------------------
TypeOK ==
  /\ pc \in Addr
  /\ frames \in Seq(Frame)
  /\ breakpoints \in [Slot -> Breakpoint]
  /\ labels \subseteq Label /\ file \in LabelsFiles /\ wild \in BOOLEAN
  /\ dbginfo \in BOOLEAN /\ swBreak \in BOOLEAN /\ isRet \in BOOLEAN
  /\ cmd \in Commands \cup {None} /\ stage \in {"enter", "loop", "exit"}
  /\ oldPc \in Nat /\ nextPc \in Nat /\ count \in Nat
  /\ hit \in Slot \cup {SwRequest, NoHit} /\ result \in BOOLEAN
  /\ missed \in Nat

(* A command returns in this step, with or without a breakpoint.            *)
Returns(c) == cmd = c /\ cmd' = None
Completes(c) == Returns(c) /\ hit' = NoHit /\ ~result'

(* A breakpoint is listed (debug_get_breakpoints) under a name that the    *)
(* labels file or the debug info gives to its address, or under none, also *)
(* when its slot has been used before for another kind of breakpoint, when *)
(* the debug info is taken away, and when a name is in the file twice.  If *)
(* a bucket has overflowed nothing is promised.                            *)
BreakpointsKeepNames ==
  ~wild => \A b \in Listed :
    b.label # None =>
      \/ \E l \in DOMAIN file : file[l].name = b.label /\ file[l].addr = b.address
      \/ b.label \in DOMAIN Symbols /\ Symbols[b.label] = b.address

(* run and finish execute no instruction at which there is a breakpoint,    *)
(* and stop for a breakpoint only where there is one, the one they name.   *)
RunsHonourBreakpoints ==
  [][/\ cmd \in {"run", "finish"} /\ <<pc, frames>>' # <<pc, frames>> =>
          \A i \in Slot : breakpoints[i].used => breakpoints[i].addr # pc
     /\ (Returns("run") \/ Returns("finish")) /\ hit' \in Slot =>
          breakpoints[hit'].used /\ breakpoints[hit'].addr = pc']_dbgVars

(* finish, when no breakpoint and no ctrl-C stops it, has left the          *)
(* subroutine that it was called in ("Execute until return for current     *)
(* subroutine.", debugger.h:167), however calls nest and whichever         *)
(* interrupts come in the place of a JSR.  Any other interrupt makes it    *)
(* stop early, within that subroutine: it takes a return for the last one  *)
(* as many frames too early as it has not counted.  It never runs on into  *)
(* the caller.                                                             *)
FinishStaysWithin ==
  [][Completes("finish") /\ start.frames # <<>> =>
       LET n == Len(start.frames)
       IN IF missed = 0
          THEN frames' = SubSeq(start.frames, 1, n - 1) /\ pc' = start.frames[n].to
          ELSE /\ Len(frames') = n - 1 + missed
               /\ \A i \in 1 .. n : frames'[i] = start.frames[i]]_dbgVars

(* next, when nothing stops it, executes a subroutine to its completion     *)
(* ("jumps over any subrountine and executes them to completion, moving on *)
(* to the next opcode in memory", debugger.h): it ends at that opcode, with *)
(* the stack of the caller as it was.  Only if the program comes to that    *)
(* opcode within the call, as it does when a subroutine calls itself, next  *)
(* ends there, and there is more on the stack.                              *)
NextCompletesCall ==
  [][Completes("next") /\ Code[start.pc].op = "jsr" =>
       LET n == Len(start.frames)
       IN /\ pc' = start.pc + Code[start.pc].len
          /\ frames' # start.frames => Len(frames') > n
          /\ \A i \in 1 .. n : frames'[i] = start.frames[i]]_dbgVars

(* ctrl-C stops a command whose loop has begun, whatever the program does,  *)
(* and also stops a finish that has not begun, as finish does not reset    *)
(* sw_break.                                                               *)
BreakStops ==
  (~wild /\ cmd # None /\ swBreak /\ (cmd = "finish" \/ stage # "enter")) ~> cmd = None
==============================================================================
