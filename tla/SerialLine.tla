------------------------------ MODULE SerialLine ------------------------------
(***************************************************************************)
(* What the socket transport of the ACIA promises: a serial line.  The      *)
(* bytes that a client sends arrive in their order, each of them once.  At *)
(* most Size of them wait for the ACIA, the others stay on the line; those *)
(* are lost if the client goes away.                                       *)
(***************************************************************************)
EXTENDS Naturals, Sequences

CONSTANTS Byte, Size

VARIABLES
  line,     \* sent, and not arrived yet
  queue,    \* arrived, and not read by the ACIA
  last      \* what the ACIA has read last

lineVars == <<line, queue, last>>

LineInit == line = <<>> /\ queue = <<>> /\ last \in Byte

Send(b) == line' = Append(line, b) /\ UNCHANGED <<queue, last>>

Arrive(n) ==
  /\ n <= Len(line) /\ Len(queue) + n <= Size
  /\ queue' = queue \o SubSeq(line, 1, n)
  /\ line' = SubSeq(line, n + 1, Len(line))
  /\ UNCHANGED last

Receive ==
  /\ queue # <<>>
  /\ last' = Head(queue) /\ queue' = Tail(queue)
  /\ UNCHANGED line

HangUp == line' = <<>> /\ UNCHANGED <<queue, last>>

LineNext ==
  \/ \E b \in Byte : Send(b)
  \/ \E n \in 1 .. Size : Arrive(n)
  \/ Receive
  \/ HangUp

LineSpec == LineInit /\ [][LineNext]_lineVars
================================================================================
