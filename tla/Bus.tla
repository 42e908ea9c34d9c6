--------------------------------- MODULE Bus ---------------------------------
(***************************************************************************)
(* The dispatch of bus operations, core/src/bus.c:40-433.                  *)
(*                                                                         *)
(* Devices register connections, each with the parameters by which it      *)
(* decodes addresses and with handlers to read, to peek and to write, any  *)
(* of which may be missing.  The connections are a list, in the order of   *)
(* their registration, which every operation walks.  Tracers are told of   *)
(* every operation.  The cpu reads, writes and, while RDY is held,         *)
(* replays its last operation; the debugger peeks.                         *)
(*                                                                         *)
(* Behind each connection there is a chip of memory (Memory), which its    *)
(* handlers access, and which can be loaded and written directly as well.  *)
(* Handlers and tracers that register or unregister while they are called  *)
(* are not modelled: no device does that.                                  *)
(***************************************************************************)
EXTENDS Memory, SequencesExt

CONSTANTS
  Conn,       \* connections that can be allocated
  Decoders,   \* the bus_decode_params_t's that devices register with
  Handlers,   \* the bus_handlers_t's
  Chips,      \* the chips of memory
  Tracer,     \* tracers that can be allocated
  Nobody

Addr == 0 .. Addresses - 1

(* Chips end within the address space, as those of the platform do.         *)
ASSUME BusAssumption ==
  /\ Nobody \notin Conn
  /\ Handlers \subseteq [read : BOOLEAN, peek : BOOLEAN, write : BOOLEAN]
  /\ Chips \subseteq [size : Nat \ {0}, rom : BOOLEAN, base : Addr]
  /\ \A k \in Chips : k.base + k.size <= Addresses

VARIABLES
  conns,     \* bus.connlist
  params,    \* of each connection
  has,       \* handlers of each connection
  chip,      \* the memory behind each connection
  tracers,   \* bus.tracelist
  lastop,    \* bus.lastop
  wanted,    \* history: the last operation that the cpu asked for
  did,       \* history: the last operation on the bus, a replay included
  heard      \* history: what each tracer was last told

connVars == <<conns, params, has, chip>>
busVars  == <<connVars, tracers, lastop, wanted, did, heard>>

-----------------------------------------------------------------------------
(* bus_match_addr.  A custom decoder is the set of the <<addr, write>> that *)
(* it says yes to.                                                         *)
BitOf(x, i) == (x \div 2 ^ i) % 2

Match(p, a, write) ==
  CASE p.type = "RANGE"  -> p.start <= a /\ a <= p.end
    [] p.type = "MASK"   -> \A i \in 0 .. AddrBits - 1 :
                              BitOf(p.value, i) = BitOf(a, i) * BitOf(p.mask, i)
    [] p.type = "CUSTOM" -> <<a, write>> \in p.yes

(* bus_validate_params.                                                     *)
Valid(p) ==
  /\ p.type = "RANGE" => p.start <= p.end
  /\ p.type = "MASK" => p.mask # 0

(* The connection whose value a read, or a peek, returns: the first in the  *)
(* list that matches and has the handler.  Decoders are told that reads    *)
(* are writes (bus.c:117), and the other way around (bus.c:294).           *)
Answering(i, a, handler) == Match(params[conns[i]], a, TRUE) /\ has[conns[i]][handler]

IsFirst(i, a, handler) ==
  Answering(i, a, handler) /\ \A j \in 1 .. i - 1 : ~Answering(j, a, handler)

Answer(a, handler) ==
  IF \E i \in 1 .. Len(conns) : Answering(i, a, handler)
  THEN conns[CHOOSE i \in 1 .. Len(conns) : IsFirst(i, a, handler)]
  ELSE Nobody

ValueOf(a, handler) ==
  LET c == Answer(a, handler) IN IF c = Nobody THEN Open ELSE mem_bus_read_cb(chip[c], a)

(* The chips after a write: every connection that matches takes it.         *)
Takes(c, a) == Contains(conns, c) /\ Match(params[c], a, FALSE) /\ has[c].write

Written(a, v) ==
  [c \in Conn |-> IF Takes(c, a) THEN mem_bus_write_cb(chip[c], a, v) ELSE chip[c]]

-----------------------------------------------------------------------------
Op(write, a, v, sync) == [write |-> write, addr |-> a, val |-> v, sync |-> sync]

NoOp == Op(FALSE, 0, Open, FALSE)

TellTracers(op) ==
  heard' = [t \in Tracer |-> IF Contains(tracers, t) THEN op ELSE heard[t]]

(* bus_read_peek_i.  Only a read is traced and remembered, and lastop.val   *)
(* is left alone then.                                                     *)
\* (a mutant: a peek is remembered as well)
CommitsPeek(peek) == TRUE

Commits(peek) == ~peek

bus_read_peek_i(a, peek, sync) ==
  /\ IF Commits(peek)
     THEN /\ TellTracers(Op(FALSE, a, ValueOf(a, IF peek THEN "peek" ELSE "read"), sync))
          /\ lastop' = [lastop EXCEPT !.write = FALSE, !.addr = a, !.sync = sync]
     ELSE UNCHANGED <<heard, lastop>>
  /\ UNCHANGED <<connVars, tracers>>

bus_write(a, v) ==
  /\ chip' = Written(a, v)
  /\ TellTracers(Op(TRUE, a, v, FALSE))
  /\ lastop' = Op(TRUE, a, v, FALSE)
  /\ UNCHANGED <<conns, params, has, tracers>>

-----------------------------------------------------------------------------
Fresh(k) == memory_init(k.size, k.rom, k.base)

(* What the fields of a connection are when it is not allocated.            *)
Blank ==
  [params |-> CHOOSE p \in Decoders : Valid(p), has |-> CHOOSE h \in Handlers : TRUE,
   chip |-> Fresh(CHOOSE k \in Chips : TRUE)]

(* There is something to register, and a way to.                            *)
ASSUME BlankAssumption ==
  (\E p \in Decoders : Valid(p)) /\ Handlers # {} /\ Chips # {}

(* bus_init, with lastop zeroed by emu_init.                                *)
Init ==
  /\ conns = <<>> /\ tracers = <<>>
  /\ params = [c \in Conn |-> Blank.params]
  /\ has = [c \in Conn |-> Blank.has]
  /\ chip = [c \in Conn |-> Blank.chip]
  /\ lastop = NoOp /\ wanted = NoOp /\ did = NoOp
  /\ heard = [t \in Tracer |-> NoOp]

(* emu_bus_register, and memory_register of a new chip.                     *)
Register(c, p, h, k) ==
  /\ ~Contains(conns, c)
  /\ Valid(p)
  /\ conns' = Append(conns, c)
  /\ params' = [params EXCEPT ![c] = p]
  /\ has' = [has EXCEPT ![c] = h]
  /\ chip' = [chip EXCEPT ![c] = Fresh(k)]
  /\ UNCHANGED <<tracers, lastop, wanted, did, heard>>

(* memory_load_data and memory_write, of a chip that is registered.         *)
PutDirectly(c, m) ==
  /\ Contains(conns, c)
  /\ chip' = [chip EXCEPT ![c] = m]
  /\ UNCHANGED <<conns, params, has, tracers, lastop, wanted, did, heard>>

LoadData(c) == \E m \in Loaded(chip[c]) : PutDirectly(c, m)

WriteChip(c) ==
  \E i \in DOMAIN chip[c].buffer, v \in Val : PutDirectly(c, memory_write(chip[c], i, v))

(* emu_bus_unregister, which frees the connection.                          *)
Unregister(i) ==
  /\ conns' = RemoveAt(conns, i)
  /\ params' = [params EXCEPT ![conns[i]] = Blank.params]
  /\ has' = [has EXCEPT ![conns[i]] = Blank.has]
  /\ chip' = [chip EXCEPT ![conns[i]] = Blank.chip]
  /\ UNCHANGED <<tracers, lastop, wanted, did, heard>>

(* emu_bus_add_tracer and emu_bus_remove_tracer.                            *)
AddTracer(t) ==
  /\ ~Contains(tracers, t)
  /\ tracers' = Append(tracers, t)
  /\ heard' = [heard EXCEPT ![t] = did]
  /\ UNCHANGED <<connVars, lastop, wanted, did>>

RemoveTracer(i) ==
  /\ tracers' = RemoveAt(tracers, i)
  /\ heard' = [heard EXCEPT ![tracers[i]] = NoOp]
  /\ UNCHANGED <<connVars, lastop, wanted, did>>

(* bus_read and bus_sync_read, bus_write, bus_peek.                         *)
Read(a, sync) ==
  /\ bus_read_peek_i(a, FALSE, sync)
  /\ did' = Op(FALSE, a, ValueOf(a, "read"), sync)
  /\ wanted' = did'

Write(a, v) ==
  /\ bus_write(a, v)
  /\ did' = Op(TRUE, a, v, FALSE)
  /\ wanted' = did'

Peek(a) == bus_read_peek_i(a, TRUE, FALSE) /\ UNCHANGED <<did, wanted>>

(* bus_replay.                                                              *)
Replay ==
  /\ \/ /\ lastop.write
        /\ bus_write(lastop.addr, lastop.val)
        /\ did' = Op(TRUE, lastop.addr, lastop.val, FALSE)
     \/ /\ ~lastop.write
        /\ bus_read_peek_i(lastop.addr, FALSE, lastop.sync)
        /\ did' = Op(FALSE, lastop.addr, ValueOf(lastop.addr, "read"), lastop.sync)
  /\ UNCHANGED wanted

Next ==
  \/ \E c \in Conn, p \in Decoders, h \in Handlers, k \in Chips : Register(c, p, h, k)
  \/ \E c \in Conn : LoadData(c) \/ WriteChip(c)
  \/ \E i \in 1 .. Len(conns) : Unregister(i)
  \/ \E t \in Tracer : AddTracer(t)
  \/ \E i \in 1 .. Len(tracers) : RemoveTracer(i)
  \/ \E a \in Addr, sync \in BOOLEAN : Read(a, sync)
  \/ \E a \in Addr, v \in Val : Write(a, v)
  \/ \E a \in Addr : Peek(a)
  \/ Replay

Spec == Init /\ [][Next]_busVars

-----------------------------------------------------------------------------
Operation ==
  [write : BOOLEAN, addr : Addr, val : Val \cup {Open}, sync : BOOLEAN]

IsChip(m) ==
  /\ m \in [size : Nat \ {0}, rom : BOOLEAN, base : Addr, buffer : [0 .. m.size - 1 -> Val]]
  /\ m.base + m.size <= Addresses

TypeOK ==
  /\ conns \in Seq(Conn) /\ tracers \in Seq(Tracer)
  /\ params \in [Conn -> Decoders]
  /\ \A c \in Conn : params[c].type = "RANGE" => params[c].start <= params[c].end
  /\ has \in [Conn -> Handlers]
  /\ DOMAIN chip = Conn /\ \A c \in Conn : IsChip(chip[c])
  /\ lastop \in Operation /\ wanted \in Operation /\ did \in Operation
  /\ heard \in [Tracer -> Operation]

(* The address is in a RAM that the connection writes to.                   *)
IsRamOf(c, a) ==
  Takes(c, a) /\ ~chip[c].rom /\ a \in chip[c].base .. chip[c].base + chip[c].size - 1

(* The connections form one flat memory: whatever overlaps, mirrors or      *)
(* shadows there are, and whichever connections come and go, an address    *)
(* stays with the connection that had it first, and holds what was last    *)
(* written to it (multiple connections on an address only log a warning,   *)
(* bus.c:123-126).                                                         *)
Space == INSTANCE AddressSpace WITH
  owner <- [a \in Addr |-> Answer(a, "read")],
  ram   <- {a \in Addr : IsRamOf(Answer(a, "read"), a)},
  mem   <- [a \in Addr |-> ValueOf(a, "read")],
  bus   <- did.val

ImplementsAddressSpace == Space!SpaceSpec

(* What a device sees while RDY is held is the operation that the cpu asked *)
(* for last, over and over, whatever was peeked, registered or traced in   *)
(* between ("only log the last operation if it is committed", bus.c:150).  *)
ReplayRepeats ==
  /\ did.write = wanted.write /\ did.addr = wanted.addr /\ did.sync = wanted.sync
  /\ wanted.write => did.val = wanted.val

(* Tracers are told of every transfer, replays too, with the value that     *)
(* went over the bus, and of nothing else ("only trace on actual bus       *)
(* transactions", bus.c:139).                                              *)
TracersHearTheBus == \A t \in Tracer : Contains(tracers, t) => heard[t] = did
==============================================================================
