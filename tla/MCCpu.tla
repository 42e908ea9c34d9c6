--------------------------------- MODULE MCCpu ---------------------------------
(* Instances of Cpu for TLC.                                                *)
EXTENDS Cpu

MCVectors == [IRQ |-> 6, NMI |-> 14, RST |-> 61]

(* Any opcode, after each of the instructions that leave a mark on later    *)
(* ones: NOP none, SED the decimal flag, LDA a,X the page flag.            *)
TimingProgram == <<{234, 248, 189}, Opcode>>
TimingTargets == {7}

(* Programs that call, return, push and are interrupted.                    *)
StackOps     == {0, 8, 32, 40, 64, 72, 88, 96, 104}
StackProgram == <<{32}, StackOps, StackOps, StackOps, {64, 96}>>
StackTargets == {5, 62}

No      == {FALSE}
Either  == {TRUE, FALSE}
Nothing == {}
Edges   == {"NMI", "RDY"}
Asked   == {"IRQ", "NMI"}
================================================================================
