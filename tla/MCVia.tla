--------------------------------- MODULE MCVia ---------------------------------
(***************************************************************************)
(* ViaPrograms with a timer of three times three counts, and an image of    *)
(* two blocks of two bytes, one of whose numbers takes two bytes.           *)
(***************************************************************************)
EXTENDS ViaPrograms

Pins  == {"PB7", "CLK", "MOSI", "MISO", "SS", "DETECT"}
Disk  == [b \in {0, 256} |-> IF b = 0 THEN <<254, 85>> ELSE <<0, 255>>]
================================================================================
