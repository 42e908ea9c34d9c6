------------------------------ MODULE MCAt28c256 -------------------------------
(***************************************************************************)
(* At28c256 with the two addresses of the keys, a neighbour of one on its   *)
(* page, and an address of the bus that is not the device's.  A load lasts  *)
(* 2 units of time and a write cycle 3; ticks are shorter than either or    *)
(* span both.                                                              *)
(***************************************************************************)
EXTENDS At28c256

OnTheBus == {32768 + 21845, 32768 + 21844, 32768 + 10922, 4096}
================================================================================
