----------------------------- MODULE MCDebugger ------------------------------
(* Instances of Debugger for TLC.                                           *)
EXTENDS Debugger, TLC

I(op, len, to) == [op |-> op, len |-> len, to |-> to]

(* A loop that calls a subroutine, which may call itself, and a handler.    *)
NestedCalls ==
  0 :> I("jsr", 3, 6) @@ 3 :> I("jmp", 3, 0) @@
  6 :> I("branch", 2, 12) @@ 8 :> I("jsr", 3, 6) @@ 11 :> I("op", 1, 0) @@
  12 :> I("rts", 1, 0) @@ 13 :> I("rti", 1, 0)

(* A file that fits, with a name that comes twice and lines that are not    *)
(* taken, and one with three labels for a bucket of two.                   *)
L(kind, name, addr) == [kind |-> kind, name |-> name, addr |-> addr]
MCLabelsFiles ==
  {<<L("local", "@l", 6), L("invalid", "h", 65536), L("global", "g", 3),
     L("global", "g", 8), L("global", "h", 12)>>,
   <<L("global", "h", 3), L("global", "h", 6), L("global", "h", 12)>>}
MCBucket  == ("@l" :> 0) @@ ("g" :> 1) @@ ("h" :> 0)
MCSymbols == "f" :> 8

(* The write has hit both breakpoints, the table and sw_break: one is in    *)
(* use with a label that is none, one is not in use and has a label, and   *)
(* of the table nothing that can be found is left.                         *)
B(used, addr, label) == [used |-> used, addr |-> addr, label |-> label, sym |-> None]
MCWildHandles ==
  {[breakpoints |-> (0 :> B(TRUE, 8, Garbage)) @@ (1 :> B(FALSE, 0, "h")),
    labels |-> {[at |-> 1, name |-> Garbage, addr |-> 12]}, swBreak |-> TRUE]}

All == {"run", "next", "finish"}
InNested == {11}
==============================================================================
