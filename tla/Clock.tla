-------------------------------- MODULE Clock --------------------------------
(***************************************************************************)
(* The clock scheduler of the emulator core, core/src/clock.c.              *)
(*                                                                         *)
(* The caller ticks the main clock; clock_main_half_tick advances virtual  *)
(* time by half of its period and makes, on the way, every edge of the     *)
(* clocks derived from it.  The derived clocks are kept in a list sorted   *)
(* by the nanoseconds that remain to their next edge; each pass of the     *)
(* loop takes the head off the list, ticks it, charges the time to all     *)
(* the others and puts the head back in its place.                         *)
(*                                                                         *)
(* One pass of the loop is one step here: the callbacks run in the middle  *)
(* of a pass, but they see a clock only through the edges it makes.        *)
(* Callbacks that add or remove clocks are not modelled (no caller in the  *)
(* repository does that); clock_add and clock_remove happen between ticks. *)
(*                                                                         *)
(* now, born, edges, mainEdges and halves are history variables: the code  *)
(* has no absolute time, and the promise it makes is about absolute time.  *)
(***************************************************************************)
EXTENDS Integers, SequencesExt

CONSTANTS
  Clk,          \* struct clk_s objects that clock_add can allocate
  MainConfigs,  \* the clock_config_t's emu_init may be given
  Configs,      \* the clock_config_t's clock_add may be given
  NsPerSec,     \* HZ_NS_CONVERT, which is also CLOCK_MAX_FREQUENCY
  MaxHalves     \* bound of the model: half ticks that are run

ConfigType == [timing_type : {"CLOCK_FREQ", "CLOCK_PERIOD"}, timing : Nat]

ASSUME ClockAssumption ==
  /\ MainConfigs \subseteq ConfigType
  /\ Configs \subseteq ConfigType
  /\ NsPerSec \in Nat \ {0}

VARIABLES
  mainPeriod,   \* mainClk->period
  mainPhase,    \* mainClk->cur_phase: the next edge is the active one
  clks,         \* cxt->clks, the list of derived clocks
  period,       \* clk->period
  ticks,        \* clk->ticks: ns of the phase that remain
  phase,        \* clk->cur_phase
  step,         \* "idle", or "loop" inside clock_main_half_tick
  remaining,    \* remainingTicks
  rerun,        \* rerunLoop
  mainTicked,   \* mainTicked
  now, born, edges, mainEdges, halves   \* history

clockVars == <<mainPeriod, mainPhase, clks, period, ticks, phase>>
loopVars  == <<step, remaining, rerun, mainTicked>>
history   == <<now, born, edges, mainEdges, halves>>
vars      == <<clockVars, loopVars, history>>

-----------------------------------------------------------------------------
(* clock_alloc_clk: which configurations it accepts, and the period that a  *)
(* frequency stands for, rounded to the nearest ns.                        *)
Accepted(cfg) ==
  /\ cfg.timing # 0
  /\ cfg.timing_type = "CLOCK_FREQ" => cfg.timing <= NsPerSec

PeriodOf(cfg) ==
  IF cfg.timing_type = "CLOCK_PERIOD" THEN cfg.timing
  ELSE (NsPerSec + (cfg.timing \div 2)) \div cfg.timing

(* The ns a derived clock stays in the phase it enters by the edge it makes *)
(* now: half a period rounded down after NEGEDGE, the rest after POSEDGE.  *)
\* (a mutant: rounding down in both phases)
PhaseLengthRoundedDown(p, ph) == p \div 2

PhaseLength(p, ph) == IF ph THEN p \div 2 ELSE p - (p \div 2)

(* The ns that one half tick of the main clock stands for.                  *)
\* (a mutant: the main clock rounded like a derived one)
HalfTickAsDerived(p, ph) == IF ph THEN p - (p \div 2) ELSE p \div 2

HalfTick(p, ph) == IF ph THEN p \div 2 ELSE p - (p \div 2)

(* Position n is where list_insert_before puts clock c: before the first    *)
(* entry that has at least as long to go, at the tail if there is none.    *)
IsPlace(list, n, c, left) ==
  /\ n \in 1 .. Len(list) + 1
  /\ \A i \in 1 .. n - 1 : left[list[i]] < left[c]
  /\ n <= Len(list) => left[list[n]] >= left[c]

InList(c) == \E i \in 1 .. Len(clks) : clks[i] = c

-----------------------------------------------------------------------------
(* emu_init: clock_init with the main clock's configuration.                *)
Init ==
  /\ \E cfg \in MainConfigs : Accepted(cfg) /\ mainPeriod = PeriodOf(cfg)
  /\ mainPhase = FALSE
  /\ clks = <<>>
  /\ period = [c \in Clk |-> 1]
  /\ ticks = [c \in Clk |-> 0]
  /\ phase = [c \in Clk |-> FALSE]
  /\ step = "idle"
  /\ remaining = 0 /\ rerun = FALSE /\ mainTicked = FALSE
  /\ now = 0 /\ mainEdges = 0 /\ halves = 0
  /\ born = [c \in Clk |-> 0]
  /\ edges = [c \in Clk |-> 0]

(* clock_add, for a configuration that clock_alloc_clk accepts (it returns  *)
(* NULL for the others and changes nothing).                               *)
ClockAdd(c, cfg) ==
  /\ step = "idle"
  /\ ~InList(c)
  /\ Accepted(cfg)
  /\ period' = [period EXCEPT ![c] = PeriodOf(cfg)]
  /\ ticks' = [ticks EXCEPT ![c] = PeriodOf(cfg) \div 2]
  /\ phase' = [phase EXCEPT ![c] = FALSE]
  /\ \E n \in 1 .. Len(clks) + 1 :
        /\ IsPlace(clks, n, c, ticks')
        /\ clks' = InsertAt(clks, n, c)
  /\ born' = [born EXCEPT ![c] = now]
  /\ edges' = [edges EXCEPT ![c] = 0]
  /\ UNCHANGED <<mainPeriod, mainPhase, loopVars, now, mainEdges, halves>>

(* clock_remove, which unlinks and frees the clock.                         *)
ClockRemove(i) ==
  /\ step = "idle"
  /\ clks' = RemoveAt(clks, i)
  /\ UNCHANGED <<mainPeriod, mainPhase, period, ticks, phase, loopVars, history>>

(* The main clock makes its edge: main_hlr (the cpu) on NEGEDGE, then the   *)
(* callbacks, then the phase changes.                                      *)
TickMain ==
  /\ mainPhase' = ~mainPhase
  /\ mainEdges' = mainEdges + 1
  /\ mainTicked' = TRUE

\* (a mutant: without the mainTicked flag)
TickMainAlways(consumed) ==
  IF consumed = remaining THEN TickMain
  ELSE UNCHANGED <<mainPhase, mainEdges, mainTicked>>

TickMainIfLast(consumed) ==
  IF consumed = remaining /\ ~mainTicked THEN TickMain
  ELSE UNCHANGED <<mainPhase, mainEdges, mainTicked>>

(* clock_main_half_tick when there is no derived clock.                     *)
HalfTickAlone ==
  /\ step = "idle" /\ clks = <<>>
  /\ halves < MaxHalves
  /\ TickMain
  /\ now' = now + HalfTick(mainPeriod, mainPhase)
  /\ halves' = halves + 1
  /\ UNCHANGED <<mainPeriod, clks, period, ticks, phase, step, remaining,
                 rerun, born, edges>>

HalfTickBegin ==
  /\ step = "idle" /\ clks # <<>>
  /\ halves < MaxHalves
  /\ step' = "loop"
  /\ remaining' = HalfTick(mainPeriod, mainPhase)
  /\ rerun' = FALSE
  /\ mainTicked' = FALSE
  /\ UNCHANGED <<clockVars, history>>

LoopGuard == remaining > 0 \/ rerun

(* What is left of each clock in list when consumed ns pass.                *)
Charge(list, consumed) ==
  [c \in Clk |-> IF \E i \in 1 .. Len(list) : list[i] = c
                 THEN ticks[c] - consumed ELSE ticks[c]]

(* rerunLoop: an entry of the list has reached 0.                           *)
\* (a mutant: set by any entry at all)
AlwaysDue(list, left) == list # <<>>

AnyDue(list, left) == \E i \in 1 .. Len(list) : left[list[i]] = 0

(* A pass of the loop in which the head of the list ticks.                  *)
TickHead ==
  /\ step = "loop" /\ LoopGuard
  /\ LET h        == Head(clks)
         rest     == Tail(clks)
         consumed == ticks[h]
         left     == [Charge(rest, consumed) EXCEPT
                        ![h] = PhaseLength(period[h], phase[h])]
     IN /\ remaining >= consumed
        /\ phase' = [phase EXCEPT ![h] = ~phase[h]]
        /\ edges' = [edges EXCEPT ![h] = edges[h] + 1]
        /\ TickMainIfLast(consumed)
        /\ ticks' = left
        /\ rerun' = AnyDue(rest, left)
        /\ \E n \in 1 .. Len(rest) + 1 :
              /\ IsPlace(rest, n, h, left)
              /\ clks' = InsertAt(rest, n, h)
        /\ remaining' = remaining - consumed
        /\ now' = now + consumed
  /\ UNCHANGED <<mainPeriod, period, step, born, halves>>

(* A pass in which no derived clock is due before the main one.             *)
TickMainOnly ==
  /\ step = "loop" /\ LoopGuard
  /\ remaining < ticks[Head(clks)]
  /\ TickMainIfLast(remaining)
  /\ ticks' = Charge(clks, remaining)
  /\ rerun' = AnyDue(clks, ticks')
  /\ remaining' = 0
  /\ now' = now + remaining
  /\ UNCHANGED <<mainPeriod, clks, period, phase, step, born, edges, halves>>

HalfTickEnd ==
  /\ step = "loop" /\ ~LoopGuard
  /\ step' = "idle"
  /\ halves' = halves + 1
  /\ UNCHANGED <<clockVars, remaining, rerun, mainTicked,
                 now, born, edges, mainEdges>>

Next ==
  \/ \E c \in Clk, cfg \in Configs : ClockAdd(c, cfg)
  \/ \E i \in 1 .. Len(clks) : ClockRemove(i)
  \/ HalfTickAlone
  \/ HalfTickBegin
  \/ TickHead
  \/ TickMainOnly
  \/ HalfTickEnd

Spec == Init /\ [][Next]_vars

(* clock_main_half_tick is a sequential function: a loop that has begun     *)
(* keeps running.                                                          *)
FairSpec == Spec /\ WF_vars(TickHead \/ TickMainOnly \/ HalfTickEnd)

-----------------------------------------------------------------------------
Live == {c \in Clk : InList(c)}

Ideal == INSTANCE IdealClocks WITH live <- Live

TypeOK ==
  /\ mainPeriod \in Nat \ {0}
  /\ mainPhase \in BOOLEAN
  /\ clks \in Seq(Clk)
  /\ period \in [Clk -> Nat \ {0}]
  /\ ticks \in [Clk -> Nat]
  /\ phase \in [Clk -> BOOLEAN]
  /\ step \in {"idle", "loop"}
  /\ remaining \in Nat
  /\ rerun \in BOOLEAN
  /\ mainTicked \in BOOLEAN
  /\ now \in Nat /\ mainEdges \in Nat /\ halves \in Nat
  /\ born \in [Clk -> Nat]
  /\ edges \in [Clk -> Nat]

(* The list is sorted by the time that remains and holds no clock twice     *)
(* ("always sorted for lowest to highest remaining ticks",                 *)
(* clock_priv_types.h): without it, charging the head's time to the others *)
(* would underflow their unsigned ticks.                                   *)
ListSorted ==
  \A i, j \in 1 .. Len(clks) :
    i < j => clks[i] # clks[j] /\ ticks[clks[i]] <= ticks[clks[j]]

(* The relative times that clock.c keeps are at every pass of the loop the  *)
(* absolute time of the ideal clock's next edge, and the phase is that of  *)
(* the number of edges made: no rounding error accumulates, however many   *)
(* clocks share the list and in whatever order they are due.               *)
TicksAreTimeToEdge ==
  \A c \in Live :
    /\ now + ticks[c] = Ideal!DueAt(c)
    /\ phase[c] <=> edges[c] % 2 = 1

(* The main clock's next edge is where its ideal square wave has it, and    *)
(* the ns that a half tick has still to consume lead exactly there.        *)
MainKeepsTime ==
  /\ mainPhase <=> mainEdges % 2 = 1
  /\ step = "idle" => now + HalfTick(mainPeriod, mainPhase) = Ideal!MainDueAt
  /\ step = "loop" =>
       /\ clks # <<>>
       /\ mainTicked =>
            /\ remaining = 0
            /\ now + HalfTick(mainPeriod, mainPhase) = Ideal!MainDueAt
       /\ ~mainTicked =>
            /\ now + remaining = Ideal!MainDueAt
            /\ remaining > 0 \/ HalfTick(mainPeriod, mainPhase) = 0

(* Every half tick that was run made exactly one edge of the main clock     *)
(* (clock_main_tick, clock.c:312: two halves are one cycle of the cpu).    *)
MainOncePerHalfTick == step = "idle" => mainEdges = halves

(* The list implements the ideal square waves: every edge of every clock is *)
(* made, in order of time and at its exact time.                           *)
ImplementsIdealClocks == Ideal!IdealSpec

(* A half tick that has begun ends: the loop of clock.c:212 terminates.     *)
HalfTickTerminates == step = "loop" ~> step = "idle"
==============================================================================
