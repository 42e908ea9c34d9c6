--------------------------------- MODULE Heap ---------------------------------
(***************************************************************************)
(* What the program holds of memory and of the operating system, and the   *)
(* intrusive lists of core/util that its objects are linked into.          *)
(*                                                                         *)
(* A memory m is a record:                                                 *)
(*   live   the objects that are allocated: structures, open files, the    *)
(*          read thread, the socket's name in the file system              *)
(*   ptr    the objects that a handle which is not NULL points to          *)
(*   lists  the lists, from first to last                                  *)
(*   faults history: objects that were used or freed and were not live     *)
(*                                                                         *)
(* Functions that can fail are sets: the memories they may leave behind.   *)
(***************************************************************************)
EXTENDS Integers, Sequences, SequencesExt

CONSTANT
  Fallible   \* the allocations and system calls that may fail

Static == "static"   \* what is never freed

(* The lists, each with the object that holds its head: the connections of  *)
(* the bus, the derived clocks, the callbacks of a clock, those of the VIA, *)
(* and what waits for signals.                                             *)
Anchor == [conns |-> "emu", clks |-> "emu", mainclk |-> "mainclk",
           aciaclk |-> "aciaclk", callbacks |-> "via", signals |-> Static]

NoMemory(files) ==
  [live |-> files \cup {Static}, ptr |-> {}, lists |-> [l \in DOMAIN Anchor |-> <<>>],
   faults |-> {}]

Uses(m, objects) == [m EXCEPT !.faults = @ \cup (objects \ m.live)]

(* malloc, open, socket, ...: the object alone, and as a call that may fail. *)
Made(m, o)  == [m EXCEPT !.live = @ \cup {o}, !.ptr = @ \cup {o}]
Tried(m, o) == {Made(m, o)} \cup {m : x \in {o} \cap Fallible}

(* free, close: the pointer is left as it was.                              *)
free(m, o)   == [Uses(m, {o}) EXCEPT !.live = @ \ {o}]
Forget(m, o) == [m EXCEPT !.ptr = @ \ {o}]

-----------------------------------------------------------------------------
(* core/util: the neighbours of an entry are written to, also the head.     *)
ListOf(m, o)  == CHOOSE l \in DOMAIN Anchor : Contains(m.lists[l], o)
Place(s, o)   == CHOOSE k \in DOMAIN s : s[k] = o

Neighbours(m, l, o) ==
  LET s == m.lists[l]
      i == Place(s, o)
  IN {IF i = 1 THEN Anchor[l] ELSE s[i - 1],
      IF i = Len(s) THEN Anchor[l] ELSE s[i + 1]}

list_add_tail(m, l, o) ==
  LET n == [m EXCEPT !.lists[l] = Append(@, o)]
  IN Uses(n, {o} \cup Neighbours(n, l, o))

IsLinked(m, o) == \E l \in DOMAIN Anchor : Contains(m.lists[l], o)

list_remove(m, o) ==
  IF ~IsLinked(m, o) THEN Uses(m, {o})
  ELSE LET l == ListOf(m, o)
       IN [Uses(m, {o} \cup Neighbours(m, l, o)) EXCEPT !.lists[l] = RemoveAt(@, Place(@, o))]

list_free(m, l) ==
  [Uses(m, {Anchor[l]} \cup ToSet(m.lists[l])) EXCEPT
     !.live = @ \ ToSet(m.lists[l]), !.lists[l] = <<>>]
===============================================================================
