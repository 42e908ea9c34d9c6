---------------------------- MODULE AddressSpace -----------------------------
(***************************************************************************)
(* What the dispatch of core/src/bus.c promises to the cpu: one flat       *)
(* memory.  Every address belongs to at most one connection, which it      *)
(* keeps for as long as that connection exists; what is stored there is    *)
(* what is loaded until the next store; nothing done to one address is     *)
(* seen at another.                                                        *)
(***************************************************************************)
CONSTANTS Addr, Conn, Val, Open, Nobody

VARIABLES
  owner,  \* to whom each address belongs, or Nobody
  ram,    \* the addresses whose owner stores what is written
  mem,    \* what each address holds, Open if it is nobody's
  bus     \* the value of the last transfer

spaceVars == <<owner, ram, mem, bus>>

SpaceInit ==
  /\ owner = [a \in Addr |-> Nobody]
  /\ ram = {}
  /\ mem = [a \in Addr |-> Open]
  /\ bus = Open

(* An address stays as it is.                                               *)
Stays(a) == owner'[a] = owner[a] /\ mem'[a] = mem[a] /\ (a \in ram' <=> a \in ram)

(* A connection comes: it may only take addresses that nobody has.          *)
Attach(c) ==
  /\ UNCHANGED bus
  /\ \A a \in Addr : Stays(a) \/ (owner[a] = Nobody /\ owner'[a] = c)

(* A connection goes: what is not its own stays as it is.                   *)
Detach(c) ==
  /\ UNCHANGED bus
  /\ \A a \in Addr : IF owner[a] = c THEN owner'[a] # c ELSE Stays(a)

Load(a) ==
  /\ bus' = mem[a]
  /\ UNCHANGED <<mem, owner, ram>>

Store(a, v) ==
  /\ bus' = v
  /\ mem' = IF a \in ram THEN [mem EXCEPT ![a] = v] ELSE mem
  /\ UNCHANGED <<owner, ram>>

(* What belongs to a connection is changed, and not over the bus.           *)
Change(c) ==
  /\ UNCHANGED <<owner, ram, bus>>
  /\ \A a \in Addr : owner[a] # c => mem'[a] = mem[a]

SpaceNext ==
  \/ \E a \in Addr : Load(a)
  \/ \E a \in Addr, v \in Val : Store(a, v)
  \/ \E c \in Conn : Attach(c) \/ Detach(c) \/ Change(c)

SpaceSpec == SpaceInit /\ [][SpaceNext]_spaceVars
==============================================================================
