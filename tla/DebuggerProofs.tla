---------------------------- MODULE DebuggerProofs -----------------------------
(***************************************************************************)
(* Proofs about the debugger core, for every program, label file, number   *)
(* of breakpoints and user: the type invariant, the names of breakpoints,  *)
(* and where run, next and finish stop.                                    *)
(***************************************************************************)
EXTENDS Debugger, SequenceTheorems, WellFoundedInduction, TLAPS

(* A set of numbers has a least one.                                        *)
LEMMA LeastNumber ==
  ASSUME NEW T, T \subseteq Nat, T # {}
  PROVE  \E i \in T : \A j \in T : ~(j < i)
  <1>1. PICK i \in T : \A j \in T : ~(<<j, i>> \in OpToRel(<, Nat))
    BY WFMin, NatLessThanWellFounded, Zenon
  <1>2. \A j \in T : ~(j < i)
    BY <1>1, Zenon DEF OpToRel
  <1>q. QED BY <1>2

-----------------------------------------------------------------------------
(* Types.  Of a breakpoint its name and its address are of one line, or of  *)
(* one symbol; a slot that is not in use has no name.  Where a bucket has  *)
(* overflowed only types are left.                                         *)
Typed ==
  /\ TypeOK
  /\ start.pc \in Addr /\ start.frames \in Seq(Frame)
  /\ ~wild => labels = {LabelOf(file, k) : k \in Globals(file)}

(* The labels of a file are typed.                                          *)
LEMMA LabelsAre ==
  ASSUME NEW f \in LabelsFiles, NEW k \in Globals(f)
  PROVE  LabelOf(f, k) \in Label
  <1>1. f \in Seq(Line)
    BY DebuggerAssumption, Zenon
  <1>2. k \in DOMAIN f
    BY DEF Globals
  <1>3. f[k] \in Line /\ k \in Nat
    BY <1>1, <1>2
  <1>q. QED BY <1>3 DEF Line, LabelOf, Label, Name

LEMMA WildHandlesAre ==
  ASSUME NEW h \in WildHandles
  PROVE  h.breakpoints \in [Slot -> Breakpoint] /\ h.labels \subseteq Label /\ h.swBreak \in BOOLEAN
  <1>1. h \in Handle
    BY DebuggerAssumption, Zenon
  <1>q. QED BY <1>1 DEF Handle

LEMMA Program ==
  \A a \in Addr :
    /\ a \in Nat /\ Code[a].len \in Nat \ {0}
    /\ Code[a].op \in {"op", "jmp", "branch", "jsr", "rts", "rti"}
    /\ Code[a].op \in {"op", "branch", "jsr"} => a + Code[a].len \in Addr
    /\ Code[a].op \in {"jmp", "branch", "jsr"} => Code[a].to \in Addr
  <1>1. Addr \subseteq Nat
    BY DebuggerAssumption, Zenon
  <1>2. \A a \in Addr :
          /\ Code[a].op \in {"op", "jmp", "branch", "jsr", "rts", "rti"}
          /\ Code[a].len \in Nat \ {0}
          /\ Code[a].op \in {"op", "branch", "jsr"} => a + Code[a].len \in Addr
          /\ Code[a].op \in {"jmp", "branch", "jsr"} => Code[a].to \in Addr
    BY DebuggerAssumption, Zenon
  <1>q. QED BY <1>1, <1>2

LEMMA Others ==
  /\ IsrAddr \in Addr /\ \A a \in BreakAddrs : a \in Nat
  /\ MaxBreakpoints \in Nat
  /\ \A n \in DOMAIN Symbols : n \in Name /\ Symbols[n] \in Nat
  /\ None \notin Name
  /\ Commands \subseteq {"run", "next", "finish"}
  <1>1. /\ Addr \subseteq Nat /\ IsrAddr \in Addr /\ BreakAddrs \subseteq Addr
        /\ MaxBreakpoints \in Nat
        /\ \A n \in DOMAIN Symbols : Symbols[n] \in Addr
        /\ None \notin Name
        /\ Commands \subseteq {"run", "next", "finish"}
    BY DebuggerAssumption, Zenon
  <1>q. QED BY <1>1 DEF Name

(* One instruction or the entry of an interrupt.  What it does to the stack *)
(* is one of three things.                                                 *)
LEMMA MachineStep ==
  ASSUME Typed, debug_step_i
  PROVE  /\ pc' \in Addr /\ frames' \in Seq(Frame)
         /\ \/ Code[pc].op \in {"op", "jmp", "branch"} /\ frames' = frames
            \/ /\ Code[pc].op = "jsr" /\ pc' = Code[pc].to
               /\ frames' = Append(frames, [kind |-> "jsr", to |-> pc + Code[pc].len])
            \/ /\ Interrupt
               /\ frames' = Append(frames, [kind |-> "int", to |-> pc])
            \/ /\ Code[pc].op \in {"rts", "rti"} /\ frames # <<>>
               /\ pc' = frames[Len(frames)].to
               /\ frames' = SubSeq(frames, 1, Len(frames) - 1)
  <1>1. pc \in Addr /\ frames \in Seq(Frame)
    BY DEF Typed, TypeOK
  <1>2. CASE Interrupt
    <2>1. [kind |-> "int", to |-> pc] \in Frame
      BY <1>1 DEF Frame
    <2>q. QED BY <1>1, <1>2, <2>1, Others DEF Interrupt
  <1>3. CASE Code[pc].op \in {"op", "jmp", "branch"} /\ Instruction
    BY <1>1, <1>3, Program DEF Instruction
  <1>4. CASE Code[pc].op = "jsr" /\ Instruction
    <2>1. [kind |-> "jsr", to |-> pc + Code[pc].len] \in Frame
      BY <1>1, <1>4, Program DEF Frame
    <2>2. pc' = Code[pc].to /\ frames' = Append(frames, [kind |-> "jsr", to |-> pc + Code[pc].len])
      BY <1>4 DEF Instruction
    <2>3. Code[pc].to \in Addr
      BY <1>1, <1>4, Program
    <2>q. QED BY <1>1, <1>4, <2>1, <2>2, <2>3
  <1>5. CASE Code[pc].op \in {"rts", "rti"} /\ Instruction
    <2>1. /\ frames # <<>> /\ pc' = frames[Len(frames)].to
          /\ frames' = SubSeq(frames, 1, Len(frames) - 1)
      BY <1>5 DEF Instruction
    <2>2. Len(frames) \in 1 .. Len(frames)
      BY <1>1, <2>1
    <2>3. frames[Len(frames)] \in Frame
      BY <1>1, <2>2
    <2>4. frames' \in Seq(Frame)
      BY <1>1, <2>1
    <2>q. QED BY <1>5, <2>1, <2>3, <2>4 DEF Frame
  <1>q. QED BY <1>1, <1>2, <1>3, <1>4, <1>5, Program DEF debug_step_i

(* The first breakpoint at an address.                                      *)
LEMMA FirstHitIs ==
  ASSUME NEW a, AnyHit(a)
  PROVE  FirstHit(a) \in Slot /\ Hits(FirstHit(a), a)
  <1> DEFINE T == {i \in Slot : Hits(i, a)}
  <1>1. T \subseteq Nat /\ T # {}
    BY Others DEF AnyHit, Slot
  <1>2. PICK i \in T : \A j \in T : ~(j < i)
    BY <1>1, LeastNumber, Zenon
  <1>3. \A j \in 0 .. i - 1 : j \in Slot /\ j < i
    BY <1>1, <1>2, Others DEF Slot
  <1>4. i \in Slot /\ Hits(i, a) /\ \A j \in 0 .. i - 1 : ~Hits(j, a)
    BY <1>2, <1>3
  <1>q. QED BY <1>4 DEF FirstHit

(* A label that is found is one of the file.                                *)
LEMMA FoundLabel ==
  ASSUME Typed, NEW n, NEW e \in find_label(n)
  PROVE  /\ e.addr \in Nat
         /\ ~wild => \E k \in DOMAIN file : file[k].name = n /\ file[k].addr = e.addr
  <1>1. e \in labels /\ e.name = n
    BY DEF find_label
  <1>2. e.addr \in Nat
    BY <1>1 DEF Typed, TypeOK, Label
  <1>3. ASSUME ~wild PROVE \E k \in DOMAIN file : file[k].name = n /\ file[k].addr = e.addr
    <2>1. PICK k \in Globals(file) : e = LabelOf(file, k)
      BY <1>1, <1>3 DEF Typed
    <2>q. QED BY <1>1, <2>1 DEF LabelOf, Globals
  <1>q. QED BY <1>2, <1>3

-----------------------------------------------------------------------------
(* The breakpoints.                                                         *)
NamesKept ==
  ~wild => \A i \in Slot :
    /\ ~breakpoints[i].used => breakpoints[i].label = None /\ breakpoints[i].sym = None
    /\ breakpoints[i].label # None =>
         \E k \in DOMAIN file :
           file[k].name = breakpoints[i].label /\ file[k].addr = breakpoints[i].addr
    /\ breakpoints[i].sym # None =>
         breakpoints[i].sym \in DOMAIN Symbols /\ Symbols[breakpoints[i].sym] = breakpoints[i].addr

BreakpointsTyped == breakpoints \in [Slot -> Breakpoint]

(* A slot that was free becomes a breakpoint with an honest name.           *)
LEMMA BecomesKeeps ==
  ASSUME BreakpointsTyped, NamesKept, NEW i \in Slot, FirstFree(i),
         NEW a \in Nat, NEW label \in Name \cup {None}, NEW sym \in Name \cup {None, Garbage},
         Becomes(i, a, label, sym), UNCHANGED loaded,
         ~wild /\ label # None => \E k \in DOMAIN file : file[k].name = label /\ file[k].addr = a,
         ~wild /\ sym # None => sym \in DOMAIN Symbols /\ Symbols[sym] = a
  PROVE  BreakpointsTyped' /\ NamesKept'
  <1> DEFINE new == [used |-> TRUE, addr |-> a, label |-> label, sym |-> sym]
  <1>1. new \in Breakpoint
    BY DEF Breakpoint
  <1>2. breakpoints' = [breakpoints EXCEPT ![i] = new]
    BY DEF Becomes
  <1>3. /\ new.used = TRUE /\ new.addr = a /\ new.label = label /\ new.sym = sym
    OBVIOUS
  <1> HIDE DEF new
  <1>4. BreakpointsTyped'
    BY <1>1, <1>2 DEF BreakpointsTyped
  <1>5. breakpoints'[i] = new /\ \A j \in Slot : j # i => breakpoints'[j] = breakpoints[j]
    BY <1>2 DEF BreakpointsTyped
  <1>6. NamesKept'
    <2>1. ASSUME NEW j \in Slot, j # i
          PROVE  breakpoints'[j] = breakpoints[j]
      BY <1>5, <2>1
    <2>2. file' = file /\ wild' = wild
      BY DEF loaded
    <2>q. QED BY <1>3, <1>5, <2>1, <2>2 DEF NamesKept
  <1>q. QED BY <1>4, <1>6

LEMMA BreakpointStep ==
  ASSUME Typed, BreakpointsTyped, NamesKept, Breakpoints
  PROVE  BreakpointsTyped' /\ NamesKept'
  <1>0. \A i \in Slot : /\ breakpoints[i].sym \in Name \cup {None, Garbage}
                       /\ breakpoints[i].used \in BOOLEAN
    BY DEF BreakpointsTyped, Breakpoint
  <1>k. UNCHANGED loaded /\ file' = file /\ wild' = wild
    BY DEF Breakpoints, SetBreakpointAddr, SetBreakpointSymbol, SetBreakpointLabel,
           ClearBreakpoint, SetDbginfo, loaded
  <1>1. CASE \E a \in BreakAddrs : SetBreakpointAddr(a)
    <2>1. PICK a \in BreakAddrs, i \in Slot : FirstFree(i) /\ Becomes(i, a, None, breakpoints[i].sym)
      BY <1>1 DEF SetBreakpointAddr
    <2>2. a \in Nat /\ i \in Slot /\ (~wild => breakpoints[i].sym = None)
      BY <2>1, Others DEF FirstFree, NamesKept
    <2>q. QED BY <1>0, <1>k, <2>1, <2>2, BecomesKeeps
  <1>2. CASE \E n \in Name : SetBreakpointSymbol(n)
    <2>1. PICK n \in DOMAIN Symbols, i \in Slot : FirstFree(i) /\ Becomes(i, Symbols[n], None, n)
      BY <1>2 DEF SetBreakpointSymbol
    <2>2. Symbols[n] \in Nat /\ n \in Name
      BY Others
    <2>q. QED BY <1>k, <2>1, <2>2, BecomesKeeps
  <1>3. CASE \E n \in Name : SetBreakpointLabel(n)
    <2>0. PICK n \in Name : SetBreakpointLabel(n)
      BY <1>3
    <2>1. PICK e \in find_label(n), i \in Slot :
            FirstFree(i) /\ Becomes(i, e.addr, n, breakpoints[i].sym)
      BY <2>0 DEF SetBreakpointLabel
    <2>2. /\ e.addr \in Nat
          /\ ~wild => \E k \in DOMAIN file : file[k].name = n /\ file[k].addr = e.addr
      BY <2>1, FoundLabel
    <2>3. ~wild => breakpoints[i].sym = None
      BY <2>1 DEF FirstFree, NamesKept
    <2>q. QED BY <1>0, <1>k, <2>1, <2>2, <2>3, BecomesKeeps
  <1>4. CASE \E i \in Slot : ClearBreakpoint(i)
    <2>1. PICK i \in Slot : breakpoints' = [breakpoints EXCEPT ![i] = Cleared(@)]
      BY <1>4 DEF ClearBreakpoint
    <2>2. breakpoints[i] \in Breakpoint
      BY DEF BreakpointsTyped
    <2> DEFINE new == Cleared(breakpoints[i])
    <2>3. new \in Breakpoint /\ new.used = FALSE /\ new.label = None /\ new.sym = None
      BY <2>2 DEF Cleared, Breakpoint
    <2> HIDE DEF new
    <2>4. breakpoints' = [breakpoints EXCEPT ![i] = new]
      BY <2>1 DEF BreakpointsTyped, new
    <2>5. breakpoints'[i] = new /\ \A j \in Slot : j # i => breakpoints'[j] = breakpoints[j]
      BY <2>4 DEF BreakpointsTyped
    <2>6. BreakpointsTyped'
      BY <2>3, <2>4 DEF BreakpointsTyped
    <2>7. NamesKept'
      <3>1. ASSUME NEW j \in Slot, j # i PROVE breakpoints'[j] = breakpoints[j]
        BY <2>5, <3>1
      <3>q. QED BY <1>k, <2>3, <2>5, <3>1 DEF NamesKept
    <2>q. QED BY <2>6, <2>7
  <1>5. CASE \E some \in BOOLEAN : SetDbginfo(some)
    <2>1. CASE breakpoints' = breakpoints
      BY <1>k, <2>1 DEF BreakpointsTyped, NamesKept
    <2>2. CASE breakpoints' = [i \in Slot |-> [breakpoints[i] EXCEPT !.sym = None]]
      <3>1. ASSUME NEW i \in Slot
            PROVE  /\ breakpoints'[i] \in Breakpoint
                   /\ breakpoints'[i].used = breakpoints[i].used
                   /\ breakpoints'[i].label = breakpoints[i].label
                   /\ breakpoints'[i].addr = breakpoints[i].addr
                   /\ breakpoints'[i].sym = None
        <4>1. breakpoints[i] \in Breakpoint /\ breakpoints'[i] = [breakpoints[i] EXCEPT !.sym = None]
          BY <2>2, <3>1 DEF BreakpointsTyped
        <4>q. QED BY <4>1 DEF Breakpoint
      <3>2. BreakpointsTyped'
        BY <2>2, <3>1 DEF BreakpointsTyped
      <3>q. QED BY <1>k, <3>1, <3>2 DEF NamesKept
    <2>q. QED BY <1>5, <2>1, <2>2 DEF SetDbginfo
  <1>q. QED BY <1>1, <1>2, <1>3, <1>4, <1>5 DEF Breakpoints

-----------------------------------------------------------------------------
(* The type invariant.                                                     *)
RestTyped ==
  /\ pc \in Addr /\ frames \in Seq(Frame)
  /\ dbginfo \in BOOLEAN /\ swBreak \in BOOLEAN /\ isRet \in BOOLEAN
  /\ cmd \in Commands \cup {None} /\ stage \in {"enter", "loop", "exit"}
  /\ oldPc \in Nat /\ nextPc \in Nat /\ count \in Nat
  /\ hit \in Slot \cup {SwRequest, NoHit} /\ result \in BOOLEAN
  /\ missed \in Nat
  /\ start.pc \in Addr /\ start.frames \in Seq(Frame)

LoadedTyped ==
  /\ labels \subseteq Label /\ file \in LabelsFiles /\ wild \in BOOLEAN
  /\ ~wild => labels = {LabelOf(file, k) : k \in Globals(file)}

LEMMA TypedIs == Typed <=> RestTyped /\ BreakpointsTyped /\ LoadedTyped
  BY DEF Typed, TypeOK, RestTyped, BreakpointsTyped, LoadedTyped

LEMMA ReturnTyped ==
  ASSUME RestTyped, NEW h \in Slot \cup {SwRequest, NoHit}, NEW r \in BOOLEAN, Return(h, r)
  PROVE  /\ cmd' = None /\ stage' = "enter" /\ hit' = h /\ result' = r
         /\ oldPc' \in Nat /\ nextPc' \in Nat /\ count' \in Nat
         /\ isRet' = FALSE /\ missed' \in Nat /\ start' = start
  BY DEF Return

LEMMA RunTyped ==
  ASSUME RestTyped, Typed, RunEnter \/ RunHit \/ RunStep \/ RunBroken
  PROVE  RestTyped'
  <1>1. CASE RunEnter
    BY <1>1 DEF RunEnter, RestTyped, KeepMachine, machine, bpVars, locals, returned
  <1>2. CASE RunHit
    <2>1. FirstHit(pc) \in Slot
      BY <1>2, FirstHitIs DEF RunHit
    <2>2. result \in BOOLEAN /\ Return(FirstHit(pc), result)
      BY <1>2 DEF RestTyped, RunHit
    <2>3. /\ cmd' = None /\ stage' = "enter" /\ hit' \in Slot /\ result' \in BOOLEAN
          /\ oldPc' \in Nat /\ nextPc' \in Nat /\ count' \in Nat
          /\ isRet' = FALSE /\ missed' \in Nat /\ start' = start
      BY <2>1, <2>2, ReturnTyped
    <2>4. UNCHANGED <<pc, frames, dbginfo, swBreak>>
      BY <1>2 DEF RunHit, KeepMachine, machine, bpVars
    <2>q. QED BY <2>3, <2>4 DEF RestTyped
  <1>3. CASE RunStep
    <2>1. pc' \in Addr /\ frames' \in Seq(Frame)
      BY <1>3, MachineStep DEF RunStep
    <2>q. QED BY <1>3, <2>1 DEF RunStep, RestTyped, bpVars, locals, returned
  <1>4. CASE RunBroken
    BY <1>4, ReturnTyped DEF RunBroken, RestTyped, KeepMachine, machine, bpVars
  <1>q. QED BY <1>1, <1>2, <1>3, <1>4

LEMMA NextTyped ==
  ASSUME RestTyped, Typed, NextStepOver \/ NextEnter \/ NextPass \/ NextLoopEnds \/ NextExit
  PROVE  RestTyped'
  <1>0. hit \in Slot \cup {SwRequest, NoHit} /\ pc \in Addr
    BY DEF RestTyped
  <1>1. CASE NextStepOver
    <2>1. pc' \in Addr /\ frames' \in Seq(Frame)
      BY <1>1, MachineStep DEF NextStepOver
    <2>q. QED BY <1>0, <1>1, <2>1, ReturnTyped DEF NextStepOver, RestTyped, bpVars
  <1>2. CASE NextEnter
    <2>1. oldPc' \in Nat /\ nextPc' \in Nat
      BY <1>0, <1>2, Program DEF NextEnter
    <2>q. QED BY <1>2, <2>1 DEF NextEnter, RestTyped, KeepMachine, machine, bpVars, returned
  <1>3. CASE NextPass
    <2>1. pc' \in Addr /\ frames' \in Seq(Frame) /\ pc' \in Nat
      BY <1>3, MachineStep, Program DEF NextPass
    <2>2. CASE AnyHit(oldPc)
      <3>1. FirstHit(oldPc) \in Slot /\ Return(FirstHit(oldPc), TRUE)
        BY <1>3, <2>2, FirstHitIs DEF NextPass
      <3>2. /\ cmd' = None /\ stage' = "enter" /\ hit' \in Slot /\ result' \in BOOLEAN
            /\ oldPc' \in Nat /\ nextPc' \in Nat /\ count' \in Nat
            /\ isRet' = FALSE /\ missed' \in Nat /\ start' = start
        BY <3>1, ReturnTyped
      <3>3. UNCHANGED <<dbginfo, swBreak>>
        BY <1>3 DEF NextPass, bpVars
      <3>q. QED BY <2>1, <3>2, <3>3 DEF RestTyped
    <2>3. CASE ~AnyHit(oldPc)
      BY <1>3, <2>1, <2>3 DEF NextPass, RestTyped, bpVars, returned
    <2>q. QED BY <2>2, <2>3
  <1>4. CASE NextLoopEnds
    BY <1>4 DEF NextLoopEnds, RestTyped, KeepMachine, machine, bpVars, locals, returned
  <1>5. CASE NextExit
    <2>1. Return(SwRequest, TRUE) \/ Return(hit, FALSE)
      BY <1>5 DEF NextExit
    <2>q. QED BY <1>0, <1>5, <2>1, ReturnTyped DEF NextExit, RestTyped, KeepMachine, machine, bpVars
  <1>q. QED BY <1>1, <1>2, <1>3, <1>4, <1>5

LEMMA FinishTyped ==
  ASSUME RestTyped, Typed, FinishEnter \/ FinishHit \/ FinishPass \/ FinishLoopEnds \/ FinishExit
  PROVE  RestTyped'
  <1>0. hit \in Slot \cup {SwRequest, NoHit} /\ count \in Nat
    BY DEF RestTyped
  <1>1. CASE FinishEnter
    BY <1>1 DEF FinishEnter, RestTyped, KeepMachine, machine, bpVars, returned
  <1>2. CASE FinishHit
    <2>1. FirstHit(pc) \in Slot /\ Return(FirstHit(pc), TRUE)
      BY <1>2, FirstHitIs DEF FinishHit
    <2>2. /\ cmd' = None /\ stage' = "enter" /\ hit' \in Slot /\ result' \in BOOLEAN
          /\ oldPc' \in Nat /\ nextPc' \in Nat /\ count' \in Nat
          /\ isRet' = FALSE /\ missed' \in Nat /\ start' = start
      BY <2>1, ReturnTyped
    <2>3. UNCHANGED <<pc, frames, dbginfo, swBreak>>
      BY <1>2 DEF FinishHit, KeepMachine, machine, bpVars
    <2>q. QED BY <2>2, <2>3 DEF RestTyped
  <1>3. CASE FinishPass
    <2>1. pc' \in Addr /\ frames' \in Seq(Frame)
      BY <1>3, MachineStep DEF FinishPass
    <2>2. count' \in Nat
      BY <1>0, <1>3 DEF FinishPass, CountAfter
    <2>3. isRet' \in BOOLEAN
      BY <1>3 DEF FinishPass
    <2>4. missed' \in Nat
      <3>1. missed \in Nat /\ \A opc : MissedInto(opc) \in Nat
        BY DEF RestTyped, MissedInto
      <3>q. QED BY <1>3, <3>1 DEF FinishPass
    <2>q. QED BY <1>3, <2>1, <2>2, <2>3, <2>4 DEF FinishPass, RestTyped, bpVars, returned
  <1>4. CASE FinishLoopEnds
    BY <1>4 DEF FinishLoopEnds, RestTyped, KeepMachine, machine, bpVars, locals, returned
  <1>5. CASE FinishExit
    <2>1. Return(SwRequest, TRUE) \/ Return(hit, FALSE)
      BY <1>5 DEF FinishExit
    <2>q. QED BY <1>0, <1>5, <2>1, ReturnTyped DEF FinishExit, RestTyped, KeepMachine, machine, bpVars
  <1>q. QED BY <1>1, <1>2, <1>3, <1>4, <1>5

LEMMA InitTyped == Init => Typed /\ NamesKept
  <1> SUFFICES ASSUME Init PROVE Typed /\ NamesKept
    OBVIOUS
  <1>1. PICK f \in LabelsFiles : debug_load_labels(f)
    BY DEF Init
  <1>2. BreakpointsTyped /\ NamesKept /\ swBreak \in BOOLEAN
    <2>1. CASE LoadsAll(f)
      <3>1. breakpoints = [i \in Slot |-> NoBreakpoint] /\ swBreak = FALSE
        BY <2>1 DEF LoadsAll
      <3>2. NoBreakpoint \in Breakpoint
        BY DEF NoBreakpoint, Breakpoint
      <3>q. QED BY <3>1, <3>2 DEF BreakpointsTyped, NamesKept, NoBreakpoint
    <2>2. CASE Overflows
      BY <2>2, WildHandlesAre DEF Overflows, BreakpointsTyped, NamesKept
    <2>q. QED BY <1>1, <2>1, <2>2 DEF debug_load_labels
  <1>3. LoadedTyped
    <2>1. file = f
      BY <1>1 DEF debug_load_labels
    <2>2. CASE LoadsAll(f)
      <3>1. wild = FALSE /\ labels = {LabelOf(f, k) : k \in Globals(f)}
        BY <2>2 DEF LoadsAll
      <3>q. QED BY <2>1, <3>1, LabelsAre DEF LoadedTyped
    <2>3. CASE Overflows
      BY <2>1, <2>3, WildHandlesAre DEF Overflows, LoadedTyped
    <2>q. QED BY <1>1, <2>2, <2>3 DEF debug_load_labels
  <1>4. pc \in Addr /\ frames \in Seq(Frame)
    BY DEF Init
  <1>5. start.pc = pc /\ start.frames = frames
    BY DEF Init
  <1>6. /\ dbginfo \in BOOLEAN /\ isRet \in BOOLEAN
        /\ cmd = None /\ stage = "enter" /\ oldPc \in Nat /\ nextPc \in Nat /\ count \in Nat
        /\ hit = NoHit /\ result \in BOOLEAN /\ missed \in Nat
    BY DEF Init
  <1>7. RestTyped
    BY <1>2, <1>4, <1>5, <1>6 DEF RestTyped
  <1>q. QED BY <1>2, <1>3, <1>7, TypedIs

(* The labels stay, and commands leave the breakpoints alone too.           *)
LEMMA CommandsKeepBreakpoints == CommandStep => UNCHANGED bpVars
  BY DEF CommandStep, RunEnter, RunHit, RunStep, RunBroken, NextStepOver, NextEnter, NextPass,
         NextLoopEnds, NextExit, FinishEnter, FinishHit, FinishPass, FinishLoopEnds, FinishExit,
         KeepMachine

LEMMA LoadedStays == [Next]_dbgVars => UNCHANGED loaded
  BY CommandsKeepBreakpoints
     DEF Next, Breakpoints, SetBreakpointAddr, SetBreakpointSymbol, SetBreakpointLabel,
         ClearBreakpoint, SetDbginfo, debug_break, debug_step, Command, dbgVars, bpVars

LEMMA StepTyped ==
  ASSUME Typed, NamesKept, [Next]_dbgVars
  PROVE  Typed' /\ NamesKept'
  <1>0. RestTyped /\ BreakpointsTyped /\ LoadedTyped
    BY TypedIs
  <1>r. RestTyped
    BY <1>0
  <1>l. LoadedTyped' /\ file' = file /\ wild' = wild
    BY <1>0, LoadedStays DEF LoadedTyped, loaded
  <1>t. RestTyped' /\ BreakpointsTyped' /\ LoadedTyped' => Typed'
    BY TypedIs, PTL
  <1>1. CASE Breakpoints
    <2>1. BreakpointsTyped' /\ NamesKept'
      BY <1>0, <1>1, BreakpointStep
    <2>2. RestTyped'
      <3>1. UNCHANGED <<pc, frames, swBreak, cmd, stage, oldPc, nextPc, count, isRet,
                        hit, result, start, missed>>
        BY <1>1 DEF Breakpoints, SetBreakpointAddr, SetBreakpointSymbol, SetBreakpointLabel,
                    ClearBreakpoint, SetDbginfo, KeepRun, machine, locals, returned
      <3>2. dbginfo' \in BOOLEAN
        <4>1. UNCHANGED dbginfo \/ \E some \in BOOLEAN : dbginfo' = some
          BY <1>1 DEF Breakpoints, SetBreakpointAddr, SetBreakpointSymbol, SetBreakpointLabel,
                      ClearBreakpoint, SetDbginfo
        <4>q. QED BY <1>0, <4>1 DEF RestTyped
      <3>3. /\ pc' = pc /\ frames' = frames /\ swBreak' = swBreak
            /\ cmd' = cmd /\ stage' = stage /\ oldPc' = oldPc /\ nextPc' = nextPc
            /\ count' = count /\ isRet' = isRet /\ hit' = hit /\ result' = result
            /\ start' = start /\ missed' = missed
        BY <3>1
      <3>q. QED BY <1>r, <3>2, <3>3, ZenonT(30) DEF RestTyped
    <2>q. QED BY <2>1, <2>2, <1>l, <1>t
  <1>2. ASSUME RestTyped', UNCHANGED breakpoints PROVE Typed' /\ NamesKept'
    <2>1. BreakpointsTyped' /\ NamesKept'
      <3>1. breakpoints' = breakpoints /\ file' = file /\ wild' = wild
        BY <1>2, <1>l
      <3>2. BreakpointsTyped'
        BY <1>0, <3>1 DEF BreakpointsTyped
      <3>3. NamesKept'
        BY <3>1, Zenon DEF NamesKept
      <3>q. QED BY <3>2, <3>3
    <2>q. QED BY <1>2, <2>1, <1>l, <1>t
  <1>3. CASE debug_break
    <2>1. RestTyped'
      BY <1>0, <1>3 DEF debug_break, RestTyped, machine, bpVars, locals, returned
    <2>q. QED BY <1>2, <1>3, <2>1 DEF debug_break, bpVars
  <1>4. CASE debug_step
    <2>1. pc' \in Addr /\ frames' \in Seq(Frame)
      BY <1>4, MachineStep DEF debug_step
    <2>2. RestTyped'
      BY <1>0, <1>4, <2>1 DEF debug_step, RestTyped, bpVars, locals, returned
    <2>q. QED BY <1>2, <1>4, <2>2 DEF debug_step, bpVars
  <1>5. CASE \E c \in Commands : Command(c)
    <2>1. PICK c \in Commands : Command(c)
      BY <1>5
    <2>2. start'.pc = pc /\ start'.frames = frames
      BY <2>1 DEF Command
    <2>3. RestTyped'
      BY <1>0, <2>1, <2>2 DEF Command, RestTyped, machine, bpVars, locals
    <2>q. QED BY <1>2, <2>1, <2>3 DEF Command, bpVars
  <1>6. CASE CommandStep
    <2>1. RestTyped'
      BY <1>0, <1>6, RunTyped, NextTyped, FinishTyped DEF CommandStep
    <2>q. QED BY <1>2, <1>6, <2>1, CommandsKeepBreakpoints DEF bpVars
  <1>7. CASE UNCHANGED dbgVars
    <2>1. RestTyped'
      BY <1>0, <1>7 DEF dbgVars, RestTyped, machine, bpVars, locals, returned
    <2>q. QED BY <1>2, <1>7, <2>1 DEF dbgVars, bpVars
  <1>q. QED BY <1>1, <1>3, <1>4, <1>5, <1>6, <1>7 DEF Next

LEMMA AlwaysTyped == Spec => [](Typed /\ NamesKept)
  <1>1. Typed /\ NamesKept /\ [Next]_dbgVars => (Typed /\ NamesKept)'
    BY StepTyped
  <1>q. QED BY <1>1, InitTyped, PTL DEF Spec

(* The type invariant holds.                                               *)
THEOREM Typing == Spec => []TypeOK
  <1>1. Typed => TypeOK
    BY DEF Typed
  <1>q. QED BY <1>1, AlwaysTyped, PTL

(* Unless a bucket has overflowed, a breakpoint is listed under a name of   *)
(* its address: find_label, debug_set_breakpoint_label,                     *)
(* debug_clear_breakpoint, debug_set_dbginfo.                               *)
THEOREM NamesAreTrue == Spec => []BreakpointsKeepNames
  <1>1. NamesKept => BreakpointsKeepNames
    <2> SUFFICES ASSUME NamesKept, ~wild,
                        NEW i \in Slot, breakpoints[i].used, Info(i).label # None
                 PROVE  \/ \E l \in DOMAIN file :
                             file[l].name = Info(i).label /\ file[l].addr = Info(i).address
                        \/ Info(i).label \in DOMAIN Symbols /\ Symbols[Info(i).label] = Info(i).address
      BY DEF BreakpointsKeepNames, Listed
    <2>1. /\ Info(i).address = breakpoints[i].addr
          /\ Info(i).label = IF breakpoints[i].label # None
                             THEN breakpoints[i].label ELSE breakpoints[i].sym
      BY DEF Info
    <2>q. QED BY <2>1 DEF NamesKept
  <1>q. QED BY <1>1, AlwaysTyped, PTL

-----------------------------------------------------------------------------
(* The commands.  When one begins nothing has been hit, and the machine is  *)
(* where the history says that it was.                                     *)
Begins ==
  /\ cmd # None => hit = NoHit
  /\ cmd # None /\ stage = "enter" => start.pc = pc /\ start.frames = frames

Depth == Len(start.frames)

CallerKept == \A i \in 1 .. Depth : frames[i] = start.frames[i]

(* While next is at work the caller's stack is below all that is on it, and *)
(* what returns to the caller returns to the JSR (from an interrupt) or     *)
(* past it.                                                                *)
WithinCall ==
  cmd = "next" /\ stage # "enter" =>
    /\ Code[start.pc].op = "jsr" /\ nextPc = start.pc + Code[start.pc].len
    /\ Len(frames) >= Depth /\ CallerKept
    /\ Len(frames) = Depth => pc \in {start.pc, nextPc}
    /\ Len(frames) > Depth => frames[Depth + 1].to \in {start.pc, nextPc}
    /\ stage = "exit" => swBreak \/ pc = nextPc

(* finish counts the frames above those of its caller, but for those that   *)
(* it has missed.                                                          *)
FinishCounts ==
  cmd = "finish" /\ stage # "enter" =>
    /\ ~isRet => Len(frames) = Depth + count + missed /\ CallerKept
    /\ isRet /\ Depth > 0 /\ missed = 0 =>
         frames = SubSeq(start.frames, 1, Depth - 1) /\ pc = start.frames[Depth].to
    /\ isRet /\ Depth > 0 /\ missed > 0 =>
         Len(frames) = Depth - 1 + missed /\ CallerKept
    /\ stage = "exit" => isRet \/ swBreak

LEMMA Popped ==
  ASSUME NEW s \in Seq(Frame), Len(s) > 0
  PROVE  LET t == SubSeq(s, 1, Len(s) - 1)
         IN /\ t \in Seq(Frame) /\ Len(t) = Len(s) - 1
            /\ \A i \in 1 .. Len(s) - 1 : t[i] = s[i]
  <1>1. Len(s) \in Nat /\ Len(s) - 1 \in Int /\ \A i \in 1 .. Len(s) - 1 : s[i] \in Frame
    OBVIOUS
  <1>2. LET t == SubSeq(s, 1, Len(s) - 1)
        IN /\ t \in Seq(Frame)
           /\ Len(t) = IF 1 <= Len(s) - 1 THEN Len(s) - 1 - 1 + 1 ELSE 0
           /\ \A i \in 1 .. Len(s) - 1 - 1 + 1 : t[i] = s[1 + i - 1]
    BY <1>1, SubSeqProperties
  <1>3. Len(s) - 1 - 1 + 1 = Len(s) - 1 /\ \A i \in 1 .. Len(s) - 1 : 1 + i - 1 = i
    BY <1>1
  <1>q. QED BY <1>1, <1>2, <1>3

(* Two stacks of the same length with the same frames are one.              *)
LEMMA SameStack ==
  ASSUME NEW s \in Seq(Frame), NEW t \in Seq(Frame), Len(s) = Len(t),
         \A i \in 1 .. Len(s) : s[i] = t[i]
  PROVE  s = t
  BY SeqEqual

(* What one step of the machine does to the frames, one by one.            *)
LEMMA StackStep ==
  ASSUME Typed, debug_step_i
  PROVE  LET n == Len(frames)
         IN \/ Code[pc].op \in {"op", "jmp", "branch"} /\ frames' = frames
            \/ /\ Code[pc].op = "jsr"
               /\ Len(frames') = n + 1 /\ \A i \in 1 .. n : frames'[i] = frames[i]
               /\ frames'[n + 1].to = pc + Code[pc].len
            \/ /\ Interrupt
               /\ Len(frames') = n + 1 /\ \A i \in 1 .. n : frames'[i] = frames[i]
               /\ frames'[n + 1].to = pc
            \/ /\ Code[pc].op \in {"rts", "rti"} /\ n > 0
               /\ frames' = SubSeq(frames, 1, n - 1)
               /\ Len(frames') = n - 1 /\ \A i \in 1 .. n - 1 : frames'[i] = frames[i]
               /\ pc' = frames[n].to
  <1>1. frames \in Seq(Frame)
    BY DEF Typed, TypeOK
  <1> DEFINE n == Len(frames)
  <1>2. n \in Nat
    BY <1>1
  <1>3. ASSUME NEW f, frames' = Append(frames, f)
        PROVE  Len(frames') = n + 1 /\ frames'[n + 1] = f /\ \A i \in 1 .. n : frames'[i] = frames[i]
    BY <1>1, <1>3
  <1>4. CASE Code[pc].op = "jsr" /\ frames' = Append(frames, [kind |-> "jsr", to |-> pc + Code[pc].len])
    BY <1>3, <1>4
  <1>5. CASE Interrupt /\ frames' = Append(frames, [kind |-> "int", to |-> pc])
    BY <1>3, <1>5
  <1>6. CASE /\ Code[pc].op \in {"rts", "rti"} /\ frames # <<>>
             /\ pc' = frames[Len(frames)].to
             /\ frames' = SubSeq(frames, 1, Len(frames) - 1)
    <2>1. n > 0
      BY <1>1, <1>6
    <2>2. Len(frames') = n - 1 /\ \A i \in 1 .. n - 1 : frames'[i] = frames[i]
      BY <1>1, <1>6, <2>1, Popped
    <2>q. QED BY <1>6, <2>1, <2>2
  <1>q. QED BY <1>4, <1>5, <1>6, MachineStep

(* What the user and ctrl-C do to a command.                               *)
LEMMA UserStep ==
  ASSUME \/ Breakpoints \/ debug_break \/ debug_step
         \/ \E c \in Commands : Command(c)
         \/ UNCHANGED dbgVars
  PROVE  \/ cmd = None /\ cmd' = None
         \/ /\ cmd = None /\ stage' = "enter" /\ hit' = NoHit
            /\ start'.pc = pc /\ start'.frames = frames /\ pc' = pc /\ frames' = frames
         \/ /\ pc' = pc /\ frames' = frames /\ cmd' = cmd /\ stage' = stage
            /\ nextPc' = nextPc /\ count' = count /\ isRet' = isRet /\ hit' = hit
            /\ start' = start /\ missed' = missed
            /\ swBreak => swBreak'
  <1>1. CASE Breakpoints
    BY <1>1 DEF Breakpoints, SetBreakpointAddr, SetBreakpointSymbol, SetBreakpointLabel,
                ClearBreakpoint, SetDbginfo, KeepRun, Idle
  <1>2. CASE debug_break
    BY <1>2 DEF debug_break, machine, locals, returned
  <1>3. CASE debug_step
    BY <1>3 DEF debug_step, Idle
  <1>4. CASE \E c \in Commands : Command(c)
    <2>1. PICK c \in Commands : Command(c)
      BY <1>4
    <2>2. start' = [pc |-> pc, frames |-> frames]
      BY <2>1 DEF Command
    <2>q. QED BY <2>1, <2>2 DEF Command, machine, Idle
  <1>5. CASE UNCHANGED dbgVars
    BY <1>5 DEF dbgVars, machine, locals, returned
  <1>q. QED BY <1>1, <1>2, <1>3, <1>4, <1>5

(* A command's step ends the command, or leaves its beginning as it was.    *)
LEMMA CommandGoesOn ==
  ASSUME CommandStep
  PROVE  \/ cmd' = None
         \/ cmd' = cmd /\ stage' # "enter" /\ hit' = hit /\ start' = start
  <1>1. CASE RunEnter \/ RunStep
    BY <1>1 DEF RunEnter, RunStep, returned
  <1>2. CASE RunHit \/ RunBroken
    BY <1>2 DEF RunHit, RunBroken, Return
  <1>3. CASE NextEnter \/ NextPass \/ NextLoopEnds
    BY <1>3 DEF NextEnter, NextPass, NextLoopEnds, Return, returned
  <1>4. CASE NextStepOver \/ NextExit
    BY <1>4 DEF NextStepOver, NextExit, Return
  <1>5. CASE FinishEnter \/ FinishPass \/ FinishLoopEnds
    BY <1>5 DEF FinishEnter, FinishPass, FinishLoopEnds, returned
  <1>6. CASE FinishHit \/ FinishExit
    BY <1>6 DEF FinishHit, FinishExit, Return
  <1>q. QED BY <1>1, <1>2, <1>3, <1>4, <1>5, <1>6 DEF CommandStep

LEMMA NextSplits ==
  [Next]_dbgVars <=>
    \/ Breakpoints \/ debug_break \/ debug_step
    \/ \E c \in Commands : Command(c)
    \/ UNCHANGED dbgVars
    \/ CommandStep
  BY DEF Next

LEMMA BeginsStep ==
  ASSUME Begins, [Next]_dbgVars
  PROVE  Begins'
  <1>1. CASE CommandStep
    BY <1>1, CommandGoesOn DEF Begins
  <1>2. CASE ~CommandStep
    BY <1>2, UserStep, NextSplits DEF Begins
  <1>q. QED BY <1>1, <1>2

(* next.                                                                   *)
LEMMA WithinCallPass ==
  ASSUME Typed, WithinCall, NextPass, cmd' # None
  PROVE  WithinCall'
  <1>1. /\ cmd = "next" /\ stage = "loop" /\ nextPc # pc /\ debug_step_i
        /\ stage' = "loop" /\ nextPc' = nextPc /\ start' = start
    BY DEF NextPass, NextGoesOn, Return
  <1>2. /\ Code[start.pc].op = "jsr" /\ nextPc = start.pc + Code[start.pc].len
        /\ Len(frames) >= Depth /\ \A i \in 1 .. Depth : frames[i] = start.frames[i]
        /\ Len(frames) = Depth => pc = start.pc
        /\ Len(frames) > Depth => frames[Depth + 1].to \in {start.pc, nextPc}
    BY <1>1 DEF WithinCall, CallerKept
  <1>3. Len(frames) \in Nat /\ Depth \in Nat /\ Depth' = Depth
    BY <1>1 DEF Typed, TypeOK, Depth
  <1> DEFINE n == Len(frames)
             d == Depth
  <1> SUFFICES /\ Len(frames') >= d /\ \A i \in 1 .. d : frames'[i] = start.frames[i]
               /\ Len(frames') = d => pc' \in {start.pc, nextPc}
               /\ Len(frames') > d => frames'[d + 1].to \in {start.pc, nextPc}
    BY <1>1, <1>2, <1>3 DEF WithinCall, CallerKept
  <1>4. n \in Nat /\ d \in Nat /\ n >= d
    BY <1>2, <1>3
  <1>5. /\ \A i \in 1 .. d : frames[i] = start.frames[i]
        /\ n = d => pc = start.pc /\ Code[pc].op = "jsr" /\ nextPc = pc + Code[pc].len
        /\ n > d => frames[d + 1].to \in {start.pc, nextPc}
    BY <1>2
  <1>6. \/ Code[pc].op \in {"op", "jmp", "branch"} /\ frames' = frames
        \/ /\ Code[pc].op = "jsr"
           /\ Len(frames') = n + 1 /\ \A i \in 1 .. n : frames'[i] = frames[i]
           /\ frames'[n + 1].to = pc + Code[pc].len
        \/ /\ Len(frames') = n + 1 /\ \A i \in 1 .. n : frames'[i] = frames[i]
           /\ frames'[n + 1].to = pc
        \/ /\ Code[pc].op \in {"rts", "rti"} /\ n > 0
           /\ Len(frames') = n - 1 /\ \A i \in 1 .. n - 1 : frames'[i] = frames[i]
           /\ pc' = frames[n].to
    BY <1>1, StackStep
  <1> HIDE DEF n, d
  <1>7. CASE Code[pc].op \in {"op", "jmp", "branch"} /\ frames' = frames
    <2>1. n > d
      BY <1>4, <1>5, <1>7
    <2>q. QED BY <1>4, <1>5, <1>7, <2>1 DEF n
  <1>8. CASE /\ Len(frames') = n + 1 /\ \A i \in 1 .. n : frames'[i] = frames[i]
             /\ \/ frames'[n + 1].to = pc
                \/ Code[pc].op = "jsr" /\ frames'[n + 1].to = pc + Code[pc].len
    <2>1. \A i \in 1 .. d : i \in 1 .. n
      BY <1>4
    <2>2. CASE n = d
      BY <1>4, <1>5, <1>8, <2>1, <2>2
    <2>3. CASE n > d
      <3>1. d + 1 \in 1 .. n
        BY <1>4, <2>3
      <3>q. QED BY <1>4, <1>5, <1>8, <2>1, <2>3, <3>1
    <2>q. QED BY <1>4, <2>2, <2>3
  <1>9. CASE /\ Code[pc].op \in {"rts", "rti"} /\ n > 0
             /\ Len(frames') = n - 1 /\ \A i \in 1 .. n - 1 : frames'[i] = frames[i]
             /\ pc' = frames[n].to
    <2>1. n > d
      BY <1>4, <1>5, <1>9
    <2>2. \A i \in 1 .. d : i \in 1 .. n - 1
      BY <1>4, <2>1
    <2>3. CASE n = d + 1
      <3>1. n - 1 = d
        BY <1>4, <2>3
      <3>q. QED BY <1>4, <1>5, <1>9, <2>1, <2>2, <2>3, <3>1
    <2>4. CASE n > d + 1
      <3>1. d + 1 \in 1 .. n - 1 /\ n - 1 > d
        BY <1>4, <2>4
      <3>q. QED BY <1>4, <1>5, <1>9, <2>1, <2>2, <3>1
    <2>q. QED BY <1>4, <2>1, <2>3, <2>4
  <1>q. QED BY <1>6, <1>7, <1>8, <1>9

LEMMA WithinCallStep ==
  ASSUME Typed, Begins, WithinCall, [Next]_dbgVars
  PROVE  WithinCall'
  <1>1. CASE ~CommandStep
    <2>1. CASE cmd' # "next" \/ stage' = "enter"
      BY <2>1 DEF WithinCall
    <2>2. CASE cmd' = "next" /\ stage' # "enter"
      BY <1>1, <2>2, UserStep, NextSplits DEF WithinCall, CallerKept, Depth, None
    <2>q. QED BY <2>1, <2>2
  <1>2. CASE CommandStep /\ (cmd' = None \/ cmd # "next")
    BY <1>2, CommandGoesOn DEF WithinCall, None
  <1>3. CASE CommandStep /\ cmd' # None /\ cmd = "next"
    <2>1. \/ NextEnter \/ NextPass \/ NextLoopEnds
      BY <1>3 DEF CommandStep, RunEnter, RunHit, RunStep, RunBroken, NextStepOver, NextExit,
                  FinishEnter, FinishHit, FinishPass, FinishLoopEnds, FinishExit, Return
    <2>2. CASE NextEnter
      <3>1. /\ start.pc = pc /\ start.frames = frames /\ Code[pc].op = "jsr"
            /\ nextPc' = pc + Code[pc].len /\ stage' = "loop"
            /\ pc' = pc /\ frames' = frames /\ start' = start
        BY <1>3, <2>2, Others DEF NextEnter, Begins, cpu_is_subroutine, KeepMachine, machine
      <3>2. Len(frames) \in Nat
        BY DEF Typed, TypeOK
      <3>q. QED BY <3>1, <3>2 DEF WithinCall, CallerKept, Depth
    <2>3. CASE NextLoopEnds
      BY <2>3 DEF NextLoopEnds, NextGoesOn, KeepMachine, machine, locals, WithinCall, CallerKept, Depth
    <2>q. QED BY <1>3, <2>1, <2>2, <2>3, WithinCallPass
  <1>q. QED BY <1>1, <1>2, <1>3

(* finish.  The opcode at pc is counted, and an instruction is executed or  *)
(* an interrupt entered; what the count says of the frames and what there  *)
(* is differ by what is missed, which is never less than before.           *)
LEMMA FinishCountsPass ==
  ASSUME Typed, FinishCounts, FinishPass
  PROVE  FinishCounts'
  <1> DEFINE n == Len(frames)
             d == Depth
             m == missed
             op == Code[pc].op
  <1>1. /\ cmd = "finish" /\ stage = "loop" /\ ~isRet /\ debug_step_i
        /\ stage' = "loop" /\ start' = start
        /\ count' = CountAfter(op)
        /\ isRet' = (op \in {"rti", "rts"} /\ count = 0)
        /\ missed' = m + (IF Interrupt THEN MissedInto(op) ELSE 0)
    BY DEF FinishPass
  <1>2. /\ n \in Nat /\ d \in Nat /\ count \in Nat /\ m \in Nat /\ Depth' = d
        /\ frames \in Seq(Frame) /\ start.frames \in Seq(Frame) /\ pc \in Addr
    BY <1>1 DEF Typed, TypeOK, Depth
  <1>3. n = d + count + m /\ \A i \in 1 .. d : frames[i] = start.frames[i]
    BY <1>1 DEF FinishCounts, CallerKept
  <1>s. SUFFICES
          /\ ~isRet' => Len(frames') = d + count' + missed'
                        /\ \A i \in 1 .. d : frames'[i] = start.frames[i]
          /\ isRet' /\ d > 0 /\ missed' = 0 =>
               frames' = SubSeq(start.frames, 1, d - 1) /\ pc' = start.frames[d].to
          /\ isRet' /\ d > 0 /\ missed' > 0 =>
               Len(frames') = d - 1 + missed' /\ \A i \in 1 .. d : frames'[i] = start.frames[i]
    BY <1>1, <1>2 DEF FinishCounts, CallerKept
  <1>4. op \in {"op", "jmp", "branch", "jsr", "rts", "rti"}
    BY <1>2, Program
  <1>5. \/ ~Interrupt /\ op \in {"op", "jmp", "branch"} /\ frames' = frames
        \/ /\ ~Interrupt /\ op = "jsr"
           /\ Len(frames') = n + 1 /\ \A i \in 1 .. n : frames'[i] = frames[i]
        \/ /\ Interrupt
           /\ Len(frames') = n + 1 /\ \A i \in 1 .. n : frames'[i] = frames[i]
        \/ /\ ~Interrupt /\ op \in {"rts", "rti"} /\ n > 0
           /\ frames' = SubSeq(frames, 1, n - 1)
           /\ Len(frames') = n - 1 /\ \A i \in 1 .. n - 1 : frames'[i] = frames[i]
           /\ pc' = frames[n].to
    <2> HIDE DEF op
    <2>1. op = Code[pc].op /\ (Interrupt => \E f : frames' = Append(frames, f))
      BY DEF op, Interrupt
    <2>2. CASE Interrupt
      BY <1>2, <2>1, <2>2
    <2>3. CASE ~Interrupt
      BY <1>1, <2>1, <2>3, StackStep
    <2>q. QED BY <2>2, <2>3
  <1>6. /\ op = "jsr" => count' = count + 1 /\ ~isRet'
        /\ op \in {"op", "jmp", "branch"} => count' = count /\ ~isRet'
        /\ op \in {"rts", "rti"} =>
             IF count > 0 THEN count' = count - 1 /\ ~isRet' ELSE count = 0 /\ isRet'
    <2>1. isRet' <=> (op \in {"rti", "rts"} /\ count = 0)
      BY <1>1
    <2>2. op \in {"op", "jmp", "branch", "jsr"} => ~isRet'
      BY <2>1
    <2>3. op \in {"rts", "rti"} => IF count > 0 THEN ~isRet' ELSE count = 0 /\ isRet'
      BY <1>2, <2>1
    <2>4. /\ op = "jsr" => count' = count + 1
          /\ op \in {"op", "jmp", "branch"} => count' = count
          /\ op \in {"rts", "rti"} /\ count > 0 => count' = count - 1
      BY <1>1, <1>2 DEF CountAfter
    <2>q. QED BY <2>2, <2>3, <2>4
  <1>7. /\ ~Interrupt => missed' = m
        /\ Interrupt /\ op = "jsr" => missed' = m
        /\ Interrupt /\ op \in {"op", "jmp", "branch"} => missed' = m + 1
        /\ Interrupt /\ op \in {"rts", "rti"} => missed' = m + 2
    BY <1>1, <1>2 DEF MissedInto
  <1>8. \A i \in 1 .. d : i \in 1 .. n
    BY <1>2, <1>3
  <1> HIDE DEF n, d, m, op
  <1>9. CASE ~Interrupt /\ op \in {"op", "jmp", "branch"} /\ frames' = frames
    <2>1. Len(frames') = n
      BY <1>9 DEF n
    <2>q. QED BY <1>2, <1>3, <1>6, <1>7, <1>9, <2>1
  <1>10. CASE /\ ~Interrupt /\ op = "jsr"
              /\ Len(frames') = n + 1 /\ \A i \in 1 .. n : frames'[i] = frames[i]
    <2>1. Len(frames') = d + count' + missed' /\ ~isRet'
      BY <1>2, <1>3, <1>6, <1>7, <1>10
    <2>2. \A i \in 1 .. d : frames'[i] = start.frames[i]
      BY <1>3, <1>8, <1>10
    <2>q. QED BY <2>1, <2>2
  <1>11. CASE /\ Interrupt
              /\ Len(frames') = n + 1 /\ \A i \in 1 .. n : frames'[i] = frames[i]
    <2>1. \A i \in 1 .. d : frames'[i] = start.frames[i]
      BY <1>3, <1>8, <1>11
    <2>2. CASE op = "jsr"
      BY <1>2, <1>3, <1>6, <1>7, <1>11, <2>1, <2>2
    <2>3. CASE op \in {"op", "jmp", "branch"}
      BY <1>2, <1>3, <1>6, <1>7, <1>11, <2>1, <2>3
    <2>4. CASE op \in {"rts", "rti"}
      <3>1. missed' = m + 2 /\ missed' > 0 /\ missed' # 0
        BY <1>2, <1>7, <1>11, <2>4
      <3>2. CASE count > 0
        <4>1. ~isRet' /\ count' = count - 1
          BY <1>6, <2>4, <3>2
        <4>2. Len(frames') = d + count' + missed'
          <5>1. n + 1 = d + (count - 1) + (m + 2)
            BY <1>2, <1>3
          <5>q. QED BY <1>11, <3>1, <4>1, <5>1
        <4>q. QED BY <2>1, <4>1, <4>2
      <3>3. CASE count = 0
        <4>1. isRet'
          BY <1>6, <2>4, <3>3
        <4>2. Len(frames') = d - 1 + missed'
          BY <1>2, <1>3, <1>11, <3>1, <3>3
        <4>q. QED BY <2>1, <3>1, <4>1, <4>2
      <3>q. QED BY <1>2, <3>2, <3>3
    <2>q. QED BY <1>4, <2>2, <2>3, <2>4
  <1>12. CASE /\ ~Interrupt /\ op \in {"rts", "rti"} /\ n > 0
              /\ frames' = SubSeq(frames, 1, n - 1)
              /\ Len(frames') = n - 1 /\ \A i \in 1 .. n - 1 : frames'[i] = frames[i]
              /\ pc' = frames[n].to
    <2>1. missed' = m
      BY <1>7, <1>12
    <2>2. ASSUME n > d PROVE \A i \in 1 .. d : frames'[i] = start.frames[i]
      <3>1. \A i \in 1 .. d : i \in 1 .. n - 1
        BY <1>2, <2>2
      <3>q. QED BY <1>3, <1>12, <3>1
    <2>3. CASE count > 0
      <3>1. n > d /\ count' = count - 1 /\ ~isRet'
        BY <1>2, <1>3, <1>6, <1>12, <2>3
      <3>2. Len(frames') = d + count' + missed'
        BY <1>2, <1>3, <1>12, <2>1, <3>1
      <3>q. QED BY <2>2, <3>1, <3>2
    <2>4. CASE count = 0 /\ m > 0
      <3>1. n > d /\ isRet' /\ missed' # 0
        BY <1>2, <1>3, <1>6, <1>12, <2>1, <2>4
      <3>2. Len(frames') = d - 1 + missed'
        BY <1>2, <1>3, <1>12, <2>1, <2>4
      <3>q. QED BY <2>2, <3>1, <3>2
    <2>5. CASE count = 0 /\ m = 0
      <3>1. n = d /\ isRet' /\ missed' = 0 /\ ~(missed' > 0)
        BY <1>2, <1>3, <1>6, <1>12, <2>1, <2>5
      <3>2. frames = start.frames
        <4>1. Len(frames) = Len(start.frames)
          BY <3>1 DEF n, d, Depth
        <4>2. \A i \in 1 .. Len(frames) : frames[i] = start.frames[i]
          BY <1>3, <3>1 DEF n
        <4>q. QED BY <1>2, <4>1, <4>2, SameStack
      <3>q. QED BY <1>12, <3>1, <3>2
    <2>q. QED BY <1>2, <2>3, <2>4, <2>5
  <1>q. QED BY <1>5, <1>9, <1>10, <1>11, <1>12

LEMMA FinishCountsStep ==
  ASSUME Typed, Begins, FinishCounts, [Next]_dbgVars
  PROVE  FinishCounts'
  <1>1. CASE ~CommandStep
    <2>1. CASE cmd' # "finish" \/ stage' = "enter"
      BY <2>1 DEF FinishCounts
    <2>2. CASE cmd' = "finish" /\ stage' # "enter"
      <3>1. /\ pc' = pc /\ frames' = frames /\ cmd' = cmd /\ stage' = stage
            /\ count' = count /\ isRet' = isRet /\ start' = start
            /\ missed' = missed /\ (swBreak => swBreak')
        BY <1>1, <2>2, UserStep, NextSplits DEF None
      <3>2. Depth' = Depth /\ (CallerKept => CallerKept')
        BY <3>1 DEF Depth, CallerKept
      <3>q. QED BY <3>1, <3>2 DEF FinishCounts
    <2>q. QED BY <2>1, <2>2
  <1>2. CASE CommandStep /\ (cmd' = None \/ cmd # "finish")
    BY <1>2, CommandGoesOn DEF FinishCounts, None
  <1>3. CASE CommandStep /\ cmd' # None /\ cmd = "finish"
    <2>1. FinishEnter \/ FinishPass \/ FinishLoopEnds
      BY <1>3 DEF CommandStep, RunEnter, RunHit, RunStep, RunBroken, NextStepOver, NextEnter,
                  NextPass, NextLoopEnds, NextExit, FinishHit, FinishExit, Return
    <2>2. CASE FinishEnter
      <3>1. /\ start.frames = frames /\ count' = 0 /\ missed' = 0 /\ isRet' = FALSE /\ stage' = "loop"
            /\ frames' = frames /\ start' = start
        BY <1>3, <2>2, Others DEF FinishEnter, Begins, KeepMachine, machine
      <3>2. Len(frames) \in Nat /\ Depth' = Len(frames) /\ CallerKept'
        BY <3>1 DEF Typed, TypeOK, Depth, CallerKept
      <3>q. QED BY <3>1, <3>2 DEF FinishCounts
    <2>3. CASE FinishLoopEnds
      <3>1. /\ pc' = pc /\ frames' = frames /\ cmd' = cmd /\ stage = "loop"
            /\ count' = count /\ isRet' = isRet /\ start' = start
            /\ missed' = missed /\ swBreak' = swBreak /\ (isRet \/ swBreak)
        BY <2>3 DEF FinishLoopEnds, KeepMachine, machine, locals
      <3>2. Depth' = Depth /\ (CallerKept => CallerKept')
        BY <3>1 DEF Depth, CallerKept
      <3>q. QED BY <3>1, <3>2 DEF FinishCounts
    <2>q. QED BY <1>3, <2>1, <2>2, <2>3, FinishCountsPass
  <1>q. QED BY <1>1, <1>2, <1>3

LEMMA AlwaysCounted == Spec => [](Typed /\ Begins /\ WithinCall /\ FinishCounts)
  <1> DEFINE I == Begins /\ WithinCall /\ FinishCounts
  <1>1. Init => I
    BY DEF Init, Begins, WithinCall, FinishCounts, None
  <1>2. Typed /\ I /\ [Next]_dbgVars => I'
    BY BeginsStep, WithinCallStep, FinishCountsStep
  <1>q. QED BY <1>1, <1>2, AlwaysTyped, PTL DEF Spec

-----------------------------------------------------------------------------
(* run and finish execute nothing at a breakpoint, and stop for one only    *)
(* where it is: debug_run, debug_finish, dbg_eval_breakpoints.              *)
THEOREM HonouringBreakpoints == Spec => RunsHonourBreakpoints
  <1> DEFINE Step ==
        /\ cmd \in {"run", "finish"} /\ <<pc, frames>>' # <<pc, frames>> =>
             \A i \in Slot : breakpoints[i].used => breakpoints[i].addr # pc
        /\ (Returns("run") \/ Returns("finish")) /\ hit' \in Slot =>
             breakpoints[hit'].used /\ breakpoints[hit'].addr = pc'
  <1>1. ASSUME Begins, Next PROVE Step
    <2>1. CASE ~CommandStep
      BY <1>1, <2>1, UserStep, NextSplits DEF Returns, None
    <2>2. CASE RunStep \/ FinishPass
      BY <2>2 DEF RunStep, FinishPass, AnyHit, Hits, Returns, None
    <2>3. CASE RunHit \/ FinishHit
      <3>1. AnyHit(pc) /\ hit' = FirstHit(pc) /\ pc' = pc /\ frames' = frames
        BY <2>3 DEF RunHit, FinishHit, Return, KeepMachine, machine
      <3>q. QED BY <3>1, FirstHitIs DEF Hits
    <2>4. CASE RunBroken \/ FinishExit
      <3>1. /\ pc' = pc /\ frames' = frames /\ cmd # None
            /\ hit' = SwRequest \/ hit' = hit
        BY <2>4 DEF RunBroken, FinishExit, Return, KeepMachine, machine, None
      <3>2. hit' \notin Slot
        BY <1>1, <3>1, Others DEF Begins, Slot, SwRequest, NoHit
      <3>q. QED BY <3>1, <3>2
    <2>5. CASE RunEnter \/ FinishEnter \/ FinishLoopEnds
      BY <2>5 DEF RunEnter, FinishEnter, FinishLoopEnds, KeepMachine, machine, Returns, None
    <2>6. CASE NextStepOver \/ NextEnter \/ NextPass \/ NextLoopEnds \/ NextExit
      BY <2>6 DEF NextStepOver, NextEnter, NextPass, NextLoopEnds, NextExit, Returns
    <2>q. QED BY <1>1, <2>1, <2>2, <2>3, <2>4, <2>5, <2>6 DEF CommandStep
  <1>2. Step => [Step]_dbgVars
    OBVIOUS
  <1>3. Begins /\ [Next]_dbgVars => [Step]_dbgVars
    <2>1. UNCHANGED dbgVars => [Step]_dbgVars
      OBVIOUS
    <2>q. QED BY <1>1, <1>2, <2>1
  <1> HIDE DEF Step
  <1>4. Spec => [][Step]_dbgVars
    BY <1>3, AlwaysCounted, PTL DEF Spec
  <1>q. QED BY <1>4 DEF Step, RunsHonourBreakpoints

(* next ends past the call, and leaves the caller's stack as it was.        *)
THEOREM NextCompletes == Spec => NextCompletesCall
  <1> DEFINE Step ==
        Completes("next") /\ Code[start.pc].op = "jsr" =>
          LET n == Len(start.frames)
          IN /\ pc' = start.pc + Code[start.pc].len
             /\ frames' # start.frames => Len(frames') > n
             /\ \A i \in 1 .. n : frames'[i] = start.frames[i]
  <1>1. ASSUME Typed, Begins, WithinCall, Next PROVE Step
    <2> SUFFICES ASSUME cmd = "next", cmd' = None, ~result', Code[start.pc].op = "jsr"
                 PROVE  /\ pc' = start.pc + Code[start.pc].len
                        /\ frames' # start.frames => Len(frames') > Depth
                        /\ \A i \in 1 .. Depth : frames'[i] = start.frames[i]
      BY DEF Completes, Returns, Depth
    <2>1. NextStepOver \/ NextPass \/ NextExit
      <3>1. CommandStep
        BY <1>1, UserStep, NextSplits DEF None
      <3>q. QED BY <3>1 DEF CommandStep, RunEnter, RunHit, RunStep, RunBroken, NextEnter, NextLoopEnds,
                  FinishEnter, FinishHit, FinishPass, FinishLoopEnds, FinishExit, None
    <2>2. ~NextStepOver
      BY <1>1 DEF NextStepOver, cpu_is_subroutine, Begins, None
    <2>3. ~NextPass
      BY DEF NextPass, Return, None
    <2>4. NextExit
      BY <2>1, <2>2, <2>3
    <2>5. stage = "exit" /\ ~swBreak /\ pc' = pc /\ frames' = frames
      BY <2>4 DEF NextExit, Return, KeepMachine, machine
    <2>6. /\ pc = nextPc /\ nextPc = start.pc + Code[start.pc].len
          /\ Len(frames) >= Depth /\ CallerKept
      BY <1>1, <2>5 DEF WithinCall
    <2>7. ASSUME Len(frames) = Depth PROVE frames = start.frames
      BY <1>1, <2>6, <2>7, SameStack DEF Typed, TypeOK, CallerKept, Depth
    <2>8. Len(frames) \in Nat /\ Depth \in Nat
      BY <1>1 DEF Typed, TypeOK, Depth
    <2>q. QED BY <2>5, <2>6, <2>7, <2>8 DEF CallerKept
  <1>2. Step => [Step]_dbgVars
    OBVIOUS
  <1>3. UNCHANGED dbgVars => [Step]_dbgVars
    OBVIOUS
  <1>4. Typed /\ Begins /\ WithinCall /\ [Next]_dbgVars => [Step]_dbgVars
    BY <1>1, <1>2, <1>3
  <1> HIDE DEF Step
  <1>5. Spec => [][Step]_dbgVars
    BY <1>4, AlwaysCounted, PTL DEF Spec
  <1>q. QED BY <1>5 DEF Step, NextCompletesCall

(* finish leaves the subroutine it was called in, or, if it has missed the  *)
(* frames of interrupts, stops as many frames above: debug_finish.          *)
THEOREM FinishLeaves == Spec => FinishStaysWithin
  <1> DEFINE Step ==
        Completes("finish") /\ start.frames # <<>> =>
          LET n == Len(start.frames)
          IN IF missed = 0
             THEN frames' = SubSeq(start.frames, 1, n - 1) /\ pc' = start.frames[n].to
             ELSE /\ Len(frames') = n - 1 + missed
                  /\ \A i \in 1 .. n : frames'[i] = start.frames[i]
  <1>1. ASSUME Typed, Begins, FinishCounts, Next PROVE Step
    <2> SUFFICES ASSUME cmd = "finish", cmd' = None, ~result', start.frames # <<>>
                 PROVE  IF missed = 0
                        THEN /\ frames' = SubSeq(start.frames, 1, Depth - 1)
                             /\ pc' = start.frames[Depth].to
                        ELSE /\ Len(frames') = Depth - 1 + missed
                             /\ \A i \in 1 .. Depth : frames'[i] = start.frames[i]
      BY DEF Completes, Returns, Depth
    <2>1. FinishHit \/ FinishExit
      <3>1. CommandStep
        BY <1>1, UserStep, NextSplits DEF None
      <3>q. QED BY <3>1 DEF CommandStep, RunEnter, RunHit, RunStep, RunBroken,
                  NextStepOver, NextEnter, NextPass, NextLoopEnds, NextExit,
                  FinishEnter, FinishPass, FinishLoopEnds, None
    <2>2. FinishExit
      BY <2>1 DEF FinishHit, Return
    <2>3. stage = "exit" /\ ~swBreak /\ pc' = pc /\ frames' = frames
      BY <2>2 DEF FinishExit, Return, KeepMachine, machine
    <2>4. Depth > 0
      BY <1>1 DEF Typed, Depth
    <2>5. missed \in Nat /\ isRet
      BY <1>1, <2>3 DEF Typed, TypeOK, FinishCounts
    <2>q. QED BY <1>1, <2>3, <2>4, <2>5 DEF FinishCounts, CallerKept
  <1>2. Step => [Step]_dbgVars
    OBVIOUS
  <1>3. UNCHANGED dbgVars => [Step]_dbgVars
    OBVIOUS
  <1>4. Typed /\ Begins /\ FinishCounts /\ [Next]_dbgVars => [Step]_dbgVars
    BY <1>1, <1>2, <1>3
  <1> HIDE DEF Step
  <1>5. Spec => [][Step]_dbgVars
    BY <1>4, AlwaysCounted, PTL DEF Spec
  <1>q. QED BY <1>5 DEF Step, FinishStaysWithin
================================================================================
