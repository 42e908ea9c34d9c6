------------------------------- MODULE Memory --------------------------------
(***************************************************************************)
(* Memory instances, io/memory/src/memory.c: RAM and ROM chips, as records *)
(* of what a memory_t keeps, and what the functions on them return.        *)
(***************************************************************************)
EXTENDS Integers

CONSTANTS
  AddrBits,   \* width of the address bus
  Val,        \* bytes
  Open        \* what is read where nobody answers: 0xFF

Addresses == 2 ^ AddrBits

ASSUME MemoryAssumption ==
  /\ AddrBits \in Nat \ {0} /\ Addresses \in Nat \ {0}
  /\ 0 \in Val /\ Open \notin Val

(* The size of a chip, whether it is a ROM, and where it is registered.     *)
memory_init(size, rom, base) ==
  [size |-> size, rom |-> rom, base |-> base, buffer |-> [i \in 0 .. size - 1 |-> 0]]

(* The internal address, in 16 bits.                                        *)
Internal(m, a) == (a - m.base) % Addresses

mem_bus_read_cb(m, a) ==
  IF Internal(m, a) < m.size THEN m.buffer[Internal(m, a)] ELSE Open

(* Whether a write to a is stored; if not, it is logged and ignored.        *)
\* (a mutant: the bounds are looked at and the flag is not)
StoresInRom(m, a) == Internal(m, a) < m.size

Stores(m, a) == ~m.rom /\ Internal(m, a) < m.size

mem_bus_write_cb(m, a, v) ==
  IF Stores(m, a) THEN [m EXCEPT !.buffer[Internal(m, a)] = v] ELSE m

(* A write to the chip itself and not over the bus.                         *)
memory_write(m, i, v) == IF m.rom THEN m ELSE [m EXCEPT !.buffer[i] = v]

(* memory_load_data, of n bytes v.  As many bytes as the offset are cut off *)
(* the data, also when all of it would have fitted; fill is a byte or, for *)
(* none, Open.  With fewer bytes than the offset the length wraps around   *)
(* and memcpy runs over the end of the buffer, so no such data are given.  *)
CopySize(m, n, offset) == (IF n < m.size THEN n ELSE m.size) - offset

memory_load_data(m, n, v, offset, fill) ==
  LET end == offset + CopySize(m, n, offset)
      byte(i) == IF offset <= i /\ i < end THEN v
                 ELSE IF fill # Open THEN fill ELSE m.buffer[i]
  IN [m EXCEPT !.buffer = [i \in DOMAIN m.buffer |-> byte(i)]]

(* The loads that are given to a chip, and what it holds after one.         *)
Loads(m) ==
  {l \in [n : 1 .. m.size, v : Val, offset : 0 .. m.size - 1, fill : Val \cup {Open}] :
     l.n >= l.offset}

Loaded(m) == {memory_load_data(m, l.n, l.v, l.offset, l.fill) : l \in Loads(m)}
==============================================================================
