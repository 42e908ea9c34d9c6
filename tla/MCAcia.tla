-------------------------------- MODULE MCAcia ---------------------------------
(***************************************************************************)
(* Acia with bits of one tick, and two lengths of words.                    *)
(***************************************************************************)
EXTENDS Acia

EightBits == [wl |-> 0, sbn |-> FALSE, sbr |-> 0]
FiveBits  == [wl |-> 3, sbn |-> TRUE, sbr |-> 0]

Controls == {EightBits, FiveBits}
OneTick  == [sbr \in {0} |-> 1]
================================================================================
