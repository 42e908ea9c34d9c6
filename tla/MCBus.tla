-------------------------------- MODULE MCBus --------------------------------
(* Instances of Bus for TLC.                                                *)
EXTENDS Bus, TLC

Range2(first, last) == [type |-> "RANGE", start |-> first, end |-> last]
Mask2(mask, value)  == [type |-> "MASK", mask |-> mask, value |-> value]

(* All addresses by a range, and the odd one by a mask.                     *)
Overlapping == {Range2(0, 1), Mask2(1, 1)}

(* Those, a range that is empty and a mask that selects nothing, which are *)
(* refused.                                                                *)
WithInvalid == Overlapping \cup {Range2(1, 0), Mask2(0, 0)}

H(r, p, w) == [read |-> r, peek |-> p, write |-> w]
Memories   == {H(TRUE, TRUE, TRUE)}

(* A RAM of both addresses, and a ROM of the upper one.                     *)
Chip(size, rom, base) == [size |-> size, rom |-> rom, base |-> base]
MCChips == {Chip(2, FALSE, 0), Chip(1, TRUE, 1)}

SymmetricConn == Permutations(Conn)
==============================================================================
