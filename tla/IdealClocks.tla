----------------------------- MODULE IdealClocks -----------------------------
(***************************************************************************)
(* What the clock module of the emulator core promises (core/inc/clock.h,   *)
(* core/src/clock.c): every clock is a square wave of its own period, in    *)
(* one common virtual time measured in nanoseconds.                         *)
(*                                                                         *)
(* A derived clock of period p that was added at time b makes its n-th     *)
(* edge (counting from 0: POSEDGE, NEGEDGE, POSEDGE, ...) exactly at       *)
(* b + EdgeTime(p, n).  The main clock's inactive half is the longer one   *)
(* when its period is odd (MainEdgeTime).  Time never passes an edge that  *)
(* is due, of any clock.                                                   *)
(*                                                                         *)
(* Module Clock (the list of remaining times that clock.c keeps) is shown  *)
(* to implement this one.                                                  *)
(***************************************************************************)
EXTENDS Integers

CONSTANT Clk          \* the clocks that can be derived from the main one

VARIABLES
  now,                \* virtual time, in ns
  mainPeriod,         \* period of the main clock
  mainEdges,          \* edges the main clock has made
  live,               \* the derived clocks that exist
  period,             \* period of each of them
  born,               \* the time at which it was added
  edges               \* edges it has made since

idealVars == <<now, mainPeriod, mainEdges, live, period, born, edges>>

(* Time from the start of a clock to its n-th edge: the inactive phase is   *)
(* half the period rounded down, a cycle is the whole period.              *)
EdgeTime(p, n) == (n \div 2) * p + (IF n % 2 = 0 THEN p \div 2 ELSE p)

(* The same for the main clock, whose inactive phase is rounded up.         *)
MainEdgeTime(p, n) ==
  (n \div 2) * p + (IF n % 2 = 0 THEN p - (p \div 2) ELSE p)

DueAt(c)  == born[c] + EdgeTime(period[c], edges[c])
MainDueAt == MainEdgeTime(mainPeriod, mainEdges)

IdealInit ==
  /\ now = 0
  /\ mainPeriod \in Nat \ {0}
  /\ mainEdges = 0
  /\ live = {}
  /\ period \in [Clk -> Nat \ {0}]
  /\ born = [c \in Clk |-> 0]
  /\ edges = [c \in Clk |-> 0]

Add(c) ==
  /\ c \notin live
  /\ live' = live \cup {c}
  /\ period'[c] \in Nat \ {0}
  /\ period' = [period EXCEPT ![c] = period'[c]]
  /\ born' = [born EXCEPT ![c] = now]
  /\ edges' = [edges EXCEPT ![c] = 0]
  /\ UNCHANGED <<now, mainPeriod, mainEdges>>

Remove(c) ==
  /\ c \in live
  /\ live' = live \ {c}
  /\ UNCHANGED <<now, mainPeriod, mainEdges, period, born, edges>>

(* Time moves forward to now', never past an edge that is due, and some of *)
(* the clocks whose edge is due at now' make it (clocks that are due at    *)
(* the same instant may do so in several steps).                           *)
Elapse ==
  /\ now' >= now
  /\ \A c \in live : DueAt(c) >= now'
  /\ MainDueAt >= now'
  /\ edges' \in [Clk -> Nat]
  /\ \A c \in Clk :
       \/ edges'[c] = edges[c]
       \/ c \in live /\ DueAt(c) = now' /\ edges'[c] = edges[c] + 1
  /\ \/ mainEdges' = mainEdges
     \/ MainDueAt = now' /\ mainEdges' = mainEdges + 1
  /\ UNCHANGED <<mainPeriod, live, period, born>>

IdealNext ==
  \/ \E c \in Clk : Add(c) \/ Remove(c)
  \/ Elapse

IdealSpec == IdealInit /\ [][IdealNext]_idealVars
==============================================================================
