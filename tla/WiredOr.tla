------------------------------ MODULE WiredOr --------------------------------
(***************************************************************************)
(* What the votes of core/src/bus.c promise: the open-drain lines of a     *)
(* 6502 bus.  A device is plugged into a place of its own and pulls on any *)
(* of the lines; a line is asserted while anybody pulls.  The cpu latches  *)
(* the edge by which the NMI line becomes asserted, and nothing else.      *)
(*                                                                         *)
(* A device that goes away while it pulls leaves the line pulled at its    *)
(* place, until the next device there drives that line.                    *)
(***************************************************************************)
CONSTANTS Client, Signal, Place, Nowhere

VARIABLES
  place,  \* where each device is plugged in, or Nowhere
  pulls,  \* who pulls on each line
  left,   \* the places at which each line has been left pulled
  edge    \* the edge of NMI that the cpu has not taken yet

wiredVars == <<place, pulls, left, edge>>

Asserted(s) == pulls[s] # {} \/ left[s] # {}

WiredInit ==
  /\ place = [c \in Client |-> Nowhere]
  /\ pulls = [s \in Signal |-> {}]
  /\ left = [s \in Signal |-> {}]
  /\ edge = FALSE

Connect(c, p) ==
  /\ place[c] = Nowhere
  /\ \A d \in Client : place[d] # p
  /\ place' = [place EXCEPT ![c] = p]
  /\ UNCHANGED <<pulls, left, edge>>

Disconnect(c) ==
  /\ place[c] # Nowhere
  /\ left' = [s \in Signal |-> left[s] \cup (IF c \in pulls[s] THEN {place[c]} ELSE {})]
  /\ pulls' = [s \in Signal |-> pulls[s] \ {c}]
  /\ place' = [place EXCEPT ![c] = Nowhere]
  /\ UNCHANGED edge

(* A device makes up its mind about one line.  The edge is that of the      *)
(* line, not of the device.                                                *)
Drive(c, s) ==
  /\ place[c] # Nowhere
  /\ \/ pulls' = [pulls EXCEPT ![s] = @ \cup {c}]
     \/ pulls' = [pulls EXCEPT ![s] = @ \ {c}]
  /\ left' = [left EXCEPT ![s] = @ \ {place[c]}]
  /\ edge' = (edge \/ (s = "NMI" /\ ~Asserted(s) /\ pulls'[s] # {}))
  /\ UNCHANGED place

(* The cpu begins the NMI sequence.                                        *)
TakeEdge ==
  /\ edge
  /\ edge' = FALSE
  /\ UNCHANGED <<place, pulls, left>>

WiredNext ==
  \/ \E c \in Client, p \in Place : Connect(c, p)
  \/ \E c \in Client : Disconnect(c)
  \/ \E c \in Client, s \in Signal : Drive(c, s)
  \/ TakeEdge

WiredSpec == WiredInit /\ [][WiredNext]_wiredVars
==============================================================================
