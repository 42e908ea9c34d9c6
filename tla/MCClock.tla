------------------------------- MODULE MCClock -------------------------------
(* Instances of Clock for TLC.                                              *)
EXTENDS Clock

P(n) == [timing_type |-> "CLOCK_PERIOD", timing |-> n]
F(n) == [timing_type |-> "CLOCK_FREQ", timing |-> n]

MCMainConfigs == {P(2), P(3), P(4), P(5)}
MCConfigs     == {P(0), P(1), P(2), P(3), P(7), F(0), F(2), F(5), F(40)}
==============================================================================
