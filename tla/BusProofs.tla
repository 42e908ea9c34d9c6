------------------------------ MODULE BusProofs ------------------------------
(***************************************************************************)
(* Proofs about core/src/bus.c.                                            *)
(*                                                                         *)
(* Of the dispatch (Bus, Memory), for every width of the address bus, set  *)
(* of connections, decoders, handlers, chips and tracers: the invariants   *)
(* of Bus, and that the dispatch implements the flat memory of             *)
(* AddressSpace.  Of the signal votes (BusSignals), for any number of      *)
(* devices and of voters, in the second half of the module: who holds a    *)
(* voter, and that the votes implement the pins of WiredOr.                *)
(*                                                                         *)
(* The refinement of AddressSpace comes down to what each action does to   *)
(* the owner of one address.  Registering appends, so the first to answer  *)
(* stays the first; unregistering moves those behind up, in the same       *)
(* order; a write reaches every chip that decodes the address and is seen  *)
(* at one address of each.                                                 *)
(***************************************************************************)
EXTENDS Bus, BusSignals, SequenceTheorems, WellFoundedInduction, TLAPS

(* The internal address of a chip: the offset from its base, or, below the  *)
(* base, a number that lies outside of every chip.                          *)
LEMMA AddressesPositive == Addresses \in Nat /\ Addresses > 0
BY MemoryAssumption

LEMMA SmallRemainder ==
  ASSUME NEW n \in Nat, n > 0, NEW x \in 0 .. n - 1
  PROVE  x % n = x /\ (x - n) % n = x
<1>1. x % n = x
  OBVIOUS
<1>2. (x - n) % n = x
  OBVIOUS
<1> QED BY <1>1, <1>2

LEMMA InternalCases ==
  ASSUME NEW m, IsChip(m), NEW a \in Addr
  PROVE  Internal(m, a) = IF a >= m.base THEN a - m.base ELSE a - m.base + Addresses
<1>1. m.base \in 0 .. Addresses - 1 /\ a \in 0 .. Addresses - 1 /\ Addresses \in Nat /\ Addresses > 0
  BY AddressesPositive DEF IsChip, Addr
<1> DEFINE d == a - m.base
<1>2. CASE a >= m.base
  <2>1. d \in 0 .. Addresses - 1
    BY <1>1, <1>2
  <2>2. d % Addresses = d
    BY <2>1, <1>1, SmallRemainder
  <2> QED BY <2>2, <1>2 DEF Internal
<1>3. CASE ~(a >= m.base)
  <2>1. d + Addresses \in 0 .. Addresses - 1 /\ (d + Addresses) - Addresses = d
    BY <1>1, <1>3
  <2>2. ((d + Addresses) - Addresses) % Addresses = d + Addresses
    BY <2>1, <1>1, SmallRemainder
  <2>3. d % Addresses = d + Addresses
    BY <2>1, <2>2
  <2> QED BY <2>3, <1>3 DEF Internal
<1> QED BY <1>2, <1>3

LEMMA ChipNumbers ==
  ASSUME NEW m, IsChip(m)
  PROVE  /\ m.size \in Nat /\ m.size > 0 /\ m.base \in Nat /\ m.rom \in BOOLEAN
         /\ m.base + m.size <= Addresses
BY AddressesPositive DEF IsChip, Addr

LEMMA InternalRange ==
  ASSUME NEW m, IsChip(m), NEW a \in Addr
  PROVE  /\ Internal(m, a) \in Nat /\ a \in Nat
         /\ a >= m.base => Internal(m, a) = a - m.base
         /\ a < m.base => Internal(m, a) = a - m.base + Addresses /\ Internal(m, a) >= m.size
<1>1. a \in Nat /\ Addresses \in Nat
  BY AddressesPositive DEF Addr
<1>2. Internal(m, a) = IF a >= m.base THEN a - m.base ELSE a - m.base + Addresses
  BY InternalCases
<1> QED BY <1>1, <1>2, ChipNumbers

(* A set of positions has a first one.                                      *)
LEMMA FirstPosition ==
  ASSUME NEW n \in Nat, NEW T, T \subseteq 1 .. n, T # {}
  PROVE  \E i \in T : \A j \in T : i <= j
<1>1. T \subseteq Nat
  OBVIOUS
<1>2. PICK i \in T : \A j \in T : ~(<<j, i>> \in OpToRel(<, Nat))
  BY <1>1, WFMin, NatLessThanWellFounded, Zenon
<1>3. \A j \in T : ~(j < i)
  BY <1>1, <1>2, Zenon DEF OpToRel
<1> QED BY <1>1, <1>3

-----------------------------------------------------------------------------
(* Chips of memory: whatever is done to one it stays a chip of its size,    *)
(* kind and place, and a write to one address is seen at that one only.     *)

SameShape(m, k) == IsChip(m) /\ m.size = k.size /\ m.rom = k.rom /\ m.base = k.base

LEMMA ReadsAByte ==
  ASSUME NEW m, IsChip(m), NEW a \in Addr
  PROVE  mem_bus_read_cb(m, a) \in Val \cup {Open}
<1>1. Internal(m, a) \in Nat
  BY InternalRange
<1>2. CASE Internal(m, a) < m.size
  <2>1. Internal(m, a) \in 0 .. m.size - 1
    BY <1>1, <1>2 DEF IsChip
  <2> QED BY <2>1, <1>2 DEF mem_bus_read_cb, IsChip
<1>3. CASE ~(Internal(m, a) < m.size)
  BY <1>3 DEF mem_bus_read_cb
<1> QED BY <1>2, <1>3

LEMMA PutKeepsShape ==
  ASSUME NEW m, IsChip(m), NEW b \in [0 .. m.size - 1 -> Val]
  PROVE  SameShape([m EXCEPT !.buffer = b], m)
BY DEF SameShape, IsChip

LEMMA WriteKeepsShape ==
  ASSUME NEW m, IsChip(m), NEW i \in 0 .. m.size - 1, NEW v \in Val
  PROVE  /\ SameShape([m EXCEPT !.buffer[i] = v], m)
         /\ [m EXCEPT !.buffer[i] = v].buffer = [m.buffer EXCEPT ![i] = v]
<1>1. [m.buffer EXCEPT ![i] = v] \in [0 .. m.size - 1 -> Val]
  BY DEF IsChip
<1>2. [m EXCEPT !.buffer[i] = v] = [m EXCEPT !.buffer = [m.buffer EXCEPT ![i] = v]]
  BY DEF IsChip
<1>3. SameShape([m EXCEPT !.buffer[i] = v], m)
  BY <1>1, <1>2, PutKeepsShape
<1>4. [m EXCEPT !.buffer[i] = v].buffer = [m.buffer EXCEPT ![i] = v]
  BY <1>2 DEF IsChip
<1> QED BY <1>3, <1>4

LEMMA BusWriteKeepsShape ==
  ASSUME NEW m, IsChip(m), NEW a \in Addr, NEW v \in Val
  PROVE  SameShape(mem_bus_write_cb(m, a, v), m)
<1>1. CASE Stores(m, a)
  <2>1. Internal(m, a) \in 0 .. m.size - 1
    BY <1>1, AddressesPositive, InternalCases DEF Stores, IsChip, Addr
  <2> QED BY <1>1, <2>1, WriteKeepsShape DEF mem_bus_write_cb
<1>2. CASE ~Stores(m, a)
  BY <1>2 DEF mem_bus_write_cb, SameShape
<1> QED BY <1>1, <1>2

LEMMA DirectWriteKeepsShape ==
  ASSUME NEW m, IsChip(m), NEW i \in DOMAIN m.buffer, NEW v \in Val
  PROVE  SameShape(memory_write(m, i, v), m)
<1>1. i \in 0 .. m.size - 1
  BY DEF IsChip
<1> QED BY <1>1, WriteKeepsShape DEF memory_write, SameShape

LEMMA LoadKeepsShape ==
  ASSUME NEW m, IsChip(m), NEW k \in Loaded(m)
  PROVE  SameShape(k, m)
<1>1. PICK l \in Loads(m) : k = memory_load_data(m, l.n, l.v, l.offset, l.fill)
  BY DEF Loaded
<1>2. l.v \in Val /\ l.fill \in Val \cup {Open}
  BY <1>1 DEF Loads
<1>3. DOMAIN m.buffer = 0 .. m.size - 1 /\ \A i \in DOMAIN m.buffer : m.buffer[i] \in Val
  BY DEF IsChip
<1> DEFINE end == l.offset + CopySize(m, l.n, l.offset)
           byte(i) == IF l.offset <= i /\ i < end THEN l.v
                      ELSE IF l.fill # Open THEN l.fill ELSE m.buffer[i]
           b == [i \in DOMAIN m.buffer |-> byte(i)]
<1>4. k = [m EXCEPT !.buffer = b]
  BY <1>1 DEF memory_load_data
<1>5. b \in [0 .. m.size - 1 -> Val]
  BY <1>2, <1>3
<1> HIDE DEF b
<1> QED BY <1>4, <1>5, PutKeepsShape

LEMMA FreshIsChip ==
  ASSUME NEW k \in Chips
  PROVE  IsChip(Fresh(k))
<1>1. k.size \in Nat \ {0} /\ k.rom \in BOOLEAN /\ k.base \in Addr /\ k.base + k.size <= Addresses
  BY BusAssumption
<1>2. [i \in 0 .. k.size - 1 |-> 0] \in [0 .. k.size - 1 -> Val]
  BY MemoryAssumption
<1> QED BY <1>1, <1>2 DEF Fresh, memory_init, IsChip

LEMMA BusWriteIsLocal ==
  ASSUME NEW m, IsChip(m), NEW a \in Addr, NEW b \in Addr, a # b, NEW v \in Val
  PROVE  mem_bus_read_cb(mem_bus_write_cb(m, a, v), b) = mem_bus_read_cb(m, b)
<1>1. CASE Stores(m, a)
  <2> DEFINE i == Internal(m, a)  j == Internal(m, b)
             w == [m EXCEPT !.buffer[i] = v]
  <2>1. i < m.size
    BY <1>1 DEF Stores
  <2>2. i \in 0 .. m.size - 1 /\ j \in Nat
    BY <2>1, InternalRange, ChipNumbers
  <2>3. i # j
    BY <2>1, InternalRange, ChipNumbers
  <2>4. SameShape(w, m) /\ w.buffer = [m.buffer EXCEPT ![i] = v]
    BY <2>2, WriteKeepsShape
  <2>5. Internal(w, b) = j
    BY <2>4 DEF Internal, SameShape
  <2>6. w.buffer[j] = m.buffer[j] \/ ~(j < m.size)
    BY <2>2, <2>3, <2>4 DEF IsChip
  <2>7. mem_bus_write_cb(m, a, v) = w
    BY <1>1 DEF mem_bus_write_cb
  <2> QED BY <2>4, <2>5, <2>6, <2>7 DEF mem_bus_read_cb, SameShape
<1>2. CASE ~Stores(m, a)
  BY <1>2 DEF mem_bus_write_cb
<1> QED BY <1>1, <1>2

LEMMA BusWriteIsRead ==
  ASSUME NEW m, IsChip(m), NEW a \in Addr, NEW v \in Val,
         ~m.rom, a \in m.base .. m.base + m.size - 1
  PROVE  mem_bus_read_cb(mem_bus_write_cb(m, a, v), a) = v
<1> DEFINE i == Internal(m, a)
           w == [m EXCEPT !.buffer[i] = v]
<1>1. i \in 0 .. m.size - 1 /\ i < m.size
  BY InternalRange, ChipNumbers
<1>2. Stores(m, a)
  BY <1>1 DEF Stores
<1>3. SameShape(w, m) /\ w.buffer = [m.buffer EXCEPT ![i] = v]
  BY <1>1, WriteKeepsShape
<1>4. Internal(w, a) = i
  BY <1>3 DEF Internal, SameShape
<1>5. w.buffer[i] = v
  BY <1>1, <1>3 DEF IsChip
<1>6. mem_bus_write_cb(m, a, v) = w
  BY <1>2 DEF mem_bus_write_cb
<1> QED BY <1>1, <1>3, <1>4, <1>5, <1>6 DEF mem_bus_read_cb, SameShape, IsChip

LEMMA BusWriteIsRefused ==
  ASSUME NEW m, IsChip(m), NEW a \in Addr, NEW v \in Val,
         m.rom \/ a \notin m.base .. m.base + m.size - 1
  PROVE  mem_bus_write_cb(m, a, v) = m
<1>1. ~Stores(m, a)
  BY AddressesPositive, InternalCases DEF Stores, IsChip, Addr
<1> QED BY <1>1 DEF mem_bus_write_cb

-----------------------------------------------------------------------------
(* Who answers: the first position that does, if any does.                  *)
ReadHandlers == {"read", "peek"}

AnswersFirst(a, h) ==
  \/ /\ \A i \in 1 .. Len(conns) : ~Answering(i, a, h)
     /\ Answer(a, h) = Nobody
  \/ \E i \in 1 .. Len(conns) : IsFirst(i, a, h) /\ Answer(a, h) = conns[i]

LEMMA AnswerFacts == conns \in Seq(Conn) => \A a \in Addr, h \in ReadHandlers : AnswersFirst(a, h)
<1> SUFFICES ASSUME conns \in Seq(Conn), NEW a \in Addr, NEW h \in ReadHandlers
             PROVE  AnswersFirst(a, h)
  OBVIOUS
<1> DEFINE T == {i \in 1 .. Len(conns) : Answering(i, a, h)}
<1>1. CASE T = {}
  BY <1>1 DEF AnswersFirst, Answer
<1>2. CASE T # {}
  <2>1. T \subseteq 1 .. Len(conns) /\ Len(conns) \in Nat
    <3>1. Len(conns) \in Nat
      BY LenProperties
    <3>2. T \subseteq 1 .. Len(conns)
      OBVIOUS
    <3> QED BY <3>1, <3>2
  <2>2. \E i \in T : \A j \in T : i <= j
    <3> HIDE DEF T
    <3> QED BY <1>2, <2>1, FirstPosition
  <2>3. PICK i \in T : \A j \in T : i <= j
    BY <2>2
  <2>4. i \in 1 .. Len(conns) /\ Answering(i, a, h)
    BY <2>3
  <2>5. \A j \in 1 .. i - 1 : j \in 1 .. Len(conns) /\ ~(i <= j)
    BY <2>1, <2>4
  <2>6. \A j \in 1 .. i - 1 : ~Answering(j, a, h)
    BY <2>3, <2>5
  <2>7. IsFirst(i, a, h)
    BY <2>4, <2>6 DEF IsFirst
  <2>8. ASSUME NEW j \in 1 .. Len(conns), IsFirst(j, a, h)
        PROVE  j = i
    <3>1. Answering(j, a, h) /\ \A k \in 1 .. j - 1 : ~Answering(k, a, h)
      BY <2>8 DEF IsFirst
    <3>2. i <= j
      BY <2>3, <3>1
    <3>3. i \notin 1 .. j - 1
      BY <2>4, <3>1
    <3> QED BY <2>1, <2>4, <2>8, <3>2, <3>3
  <2>9. (CHOOSE j \in 1 .. Len(conns) : IsFirst(j, a, h)) = i
    BY <2>4, <2>7, <2>8
  <2>10. Answer(a, h) = conns[i]
    BY <2>4, <2>9 DEF Answer
  <2> QED BY <2>4, <2>7, <2>10 DEF AnswersFirst
<1> QED BY <1>1, <1>2

LEMMA AnswerFactsNext ==
  (conns \in Seq(Conn) => \A a \in Addr, h \in ReadHandlers : AnswersFirst(a, h))'
BY AnswerFacts, PTL

-----------------------------------------------------------------------------
(* The inductive invariant: what is registered, what tracers have heard,    *)
(* and what the cpu's operations have left.  A connection, and a tracer, is *)
(* in its list once: only then is nothing left of it when it goes.          *)
NoTwice(s) == \A i, j \in 1 .. Len(s) : s[i] = s[j] => i = j

ConnInv ==
  /\ conns \in Seq(Conn) /\ NoTwice(conns)
  /\ params \in [Conn -> Decoders]
  /\ \A c \in Conn : params[c].type = "RANGE" => params[c].start <= params[c].end
  /\ has \in [Conn -> Handlers]
  /\ DOMAIN chip = Conn /\ \A c \in Conn : IsChip(chip[c])

TracerInv ==
  /\ tracers \in Seq(Tracer) /\ NoTwice(tracers)
  /\ did \in Operation /\ heard \in [Tracer -> Operation]
  /\ TracersHearTheBus

LastIsWanted ==
  /\ lastop.write = wanted.write /\ lastop.addr = wanted.addr /\ lastop.sync = wanted.sync
  /\ wanted.write => lastop.val = wanted.val

OpInv ==
  /\ lastop \in Operation /\ wanted \in Operation /\ did \in Operation
  /\ lastop.write => lastop.val \in Val /\ lastop.sync = FALSE
  /\ LastIsWanted /\ ReplayRepeats

BusInv == ConnInv /\ TracerInv /\ OpInv

LEMMA BlankFacts ==
  /\ Blank.params \in Decoders /\ Valid(Blank.params)
  /\ Blank.has \in Handlers
  /\ IsChip(Blank.chip)
<1>1. /\ (CHOOSE p \in Decoders : Valid(p)) \in Decoders
      /\ Valid(CHOOSE p \in Decoders : Valid(p))
  BY BlankAssumption
<1>2. (CHOOSE h \in Handlers : TRUE) \in Handlers /\ (CHOOSE k \in Chips : TRUE) \in Chips
  BY BlankAssumption
<1>3. Blank.params = (CHOOSE p \in Decoders : Valid(p))
  BY DEF Blank
<1>4. Blank.has = (CHOOSE h \in Handlers : TRUE)
  BY DEF Blank
<1>5. Blank.chip = Fresh(CHOOSE k \in Chips : TRUE)
  BY DEF Blank
<1>6. IsChip(Blank.chip)
  BY <1>2, <1>5, FreshIsChip
<1> QED BY <1>1, <1>2, <1>3, <1>4, <1>6

(* The value of an operation on the bus.                                    *)
LEMMA ValueTyped ==
  ASSUME ConnInv, NEW a \in Addr, NEW h \in ReadHandlers
  PROVE  Answer(a, h) \in Conn \cup {Nobody} /\ ValueOf(a, h) \in Val \cup {Open}
<1>1. AnswersFirst(a, h)
  BY AnswerFacts DEF ConnInv
<1>2. Answer(a, h) \in Conn \cup {Nobody}
  <2>1. \A i \in 1 .. Len(conns) : conns[i] \in Conn
    BY ElementOfSeq DEF ConnInv
  <2> QED BY <1>1, <2>1 DEF AnswersFirst
<1>3. CASE Answer(a, h) = Nobody
  BY <1>3 DEF ValueOf
<1>4. CASE Answer(a, h) \in Conn
  <2>1. IsChip(chip[Answer(a, h)]) /\ Answer(a, h) # Nobody
    BY <1>4, BusAssumption DEF ConnInv
  <2>2. mem_bus_read_cb(chip[Answer(a, h)], a) \in Val \cup {Open}
    BY <2>1, ReadsAByte
  <2>3. ValueOf(a, h) = mem_bus_read_cb(chip[Answer(a, h)], a)
    BY <2>1 DEF ValueOf
  <2> QED BY <1>2, <2>2, <2>3
<1> QED BY <1>2, <1>3, <1>4

LEMMA OpTyped ==
  ASSUME NEW w \in BOOLEAN, NEW a \in Addr, NEW v \in Val \cup {Open}, NEW sync \in BOOLEAN
  PROVE  Op(w, a, v, sync) \in Operation
BY DEF Op, Operation

LEMMA NoOpTyped == NoOp \in Operation
<1>1. 0 \in Addr
  BY AddressesPositive DEF Addr
<1> QED BY <1>1, OpTyped DEF NoOp

(* What bus_read_peek_i does when it is a read.                             *)
LEMMA ReadStep ==
  ASSUME NEW a \in Addr, NEW sync \in BOOLEAN, bus_read_peek_i(a, FALSE, sync)
  PROVE  /\ TellTracers(Op(FALSE, a, ValueOf(a, "read"), sync))
         /\ lastop' = [lastop EXCEPT !.write = FALSE, !.addr = a, !.sync = sync]
         /\ UNCHANGED <<conns, params, has, chip, tracers>>
BY DEF bus_read_peek_i, Commits, connVars

-----------------------------------------------------------------------------
(* Lists: an entry that is appended, and one that is removed.               *)
LEMMA AppendedList ==
  ASSUME NEW S, NEW s \in Seq(S), NEW e \in S, NoTwice(s), ~Contains(s, e)
  PROVE  /\ Append(s, e) \in Seq(S) /\ NoTwice(Append(s, e))
         /\ Len(Append(s, e)) = Len(s) + 1 /\ Append(s, e)[Len(s) + 1] = e
         /\ \A i \in 1 .. Len(s) : Append(s, e)[i] = s[i]
<1>1. /\ Append(s, e) \in Seq(S) /\ Len(s) \in Nat
      /\ Len(Append(s, e)) = Len(s) + 1 /\ Append(s, e)[Len(s) + 1] = e
      /\ \A i \in 1 .. Len(s) : Append(s, e)[i] = s[i]
  OBVIOUS
<1>2. \A i \in 1 .. Len(s) : s[i] # e
  BY DEF Contains
<1> DEFINE t == Append(s, e)
<1> HIDE DEF t
<1>3. NoTwice(t)
  <2> SUFFICES ASSUME NEW i \in 1 .. Len(s) + 1, NEW j \in 1 .. Len(s) + 1, t[i] = t[j]
               PROVE  i = j
    BY <1>1 DEF NoTwice, t
  <2>1. CASE i \in 1 .. Len(s) /\ j \in 1 .. Len(s)
    BY <2>1, <1>1 DEF NoTwice, t
  <2>2. CASE i = Len(s) + 1 \/ j = Len(s) + 1
    BY <2>2, <1>1, <1>2 DEF t
  <2> QED BY <1>1, <2>1, <2>2
<1> QED BY <1>1, <1>3 DEF t

LEMMA RemovedList ==
  ASSUME NEW S, NEW s \in Seq(S), NEW n \in 1 .. Len(s), NoTwice(s)
  PROVE  /\ RemoveAt(s, n) \in Seq(S) /\ NoTwice(RemoveAt(s, n))
         /\ Len(RemoveAt(s, n)) = Len(s) - 1
         /\ \A i \in 1 .. Len(s) - 1 :
              RemoveAt(s, n)[i] = IF i < n THEN s[i] ELSE s[i + 1]
         /\ \A i \in 1 .. Len(s) - 1 : RemoveAt(s, n)[i] # s[n]
<1> DEFINE a == SubSeq(s, 1, n - 1)
           b == SubSeq(s, n + 1, Len(s))
           t == RemoveAt(s, n)
<1>1. /\ a \in Seq(S) /\ Len(a) = n - 1
      /\ \A i \in 1 .. n - 1 : a[i] = s[i]
  OBVIOUS
<1>2. /\ b \in Seq(S) /\ Len(b) = Len(s) - n
      /\ \A i \in 1 .. Len(s) - n : b[i] = s[n + i]
  OBVIOUS
<1>3. n \in Nat /\ Len(s) \in Nat /\ n <= Len(s)
  OBVIOUS
<1>4. t = a \o b
  BY DEF RemoveAt
<1> HIDE DEF a, b, t
<1>5. t \in Seq(S) /\ Len(t) = Len(s) - 1
  <2>1. t \in Seq(S) /\ Len(t) = Len(a) + Len(b)
    BY <1>1, <1>2, <1>4, ConcatProperties
  <2> QED BY <1>1, <1>2, <1>3, <2>1
<1>6. \A i \in 1 .. Len(s) - 1 : t[i] = IF i < n THEN s[i] ELSE s[i + 1]
  <2> SUFFICES ASSUME NEW i \in 1 .. Len(s) - 1
               PROVE  t[i] = IF i < n THEN s[i] ELSE s[i + 1]
    OBVIOUS
  <2>1. t[i] = IF i <= Len(a) THEN a[i] ELSE b[i - Len(a)]
    BY <1>1, <1>2, <1>3, <1>4, ConcatProperties
  <2>2. CASE i < n
    BY <1>1, <1>3, <2>1, <2>2
  <2>3. CASE ~(i < n)
    <3>1. i - Len(a) \in 1 .. Len(s) - n /\ n + (i - Len(a)) = i + 1
      BY <1>1, <1>3, <2>3
    <3>2. b[i - Len(a)] = s[i + 1]
      BY <1>2, <3>1
    <3> QED BY <1>1, <1>3, <2>1, <2>3, <3>2
  <2> QED BY <2>2, <2>3
<1>7. \A i \in 1 .. Len(s) - 1 : t[i] # s[n]
  <2> SUFFICES ASSUME NEW i \in 1 .. Len(s) - 1
               PROVE  t[i] # s[n]
    OBVIOUS
  <2>1. \A k \in 1 .. Len(s) : s[k] = s[n] => k = n
    BY <1>3 DEF NoTwice
  <2>2. CASE i < n
    BY <1>3, <1>6, <2>1, <2>2
  <2>3. CASE ~(i < n)
    BY <1>3, <1>6, <2>1, <2>3
  <2> QED BY <2>2, <2>3
<1>8. NoTwice(t)
  <2> SUFFICES ASSUME NEW i \in 1 .. Len(s) - 1, NEW j \in 1 .. Len(s) - 1, t[i] = t[j]
               PROVE  i = j
    BY <1>5 DEF NoTwice
  <2> DEFINE ii == IF i < n THEN i ELSE i + 1
             jj == IF j < n THEN j ELSE j + 1
  <2>1. ii \in 1 .. Len(s) /\ jj \in 1 .. Len(s)
    BY <1>3
  <2>2. t[i] = s[ii] /\ t[j] = s[jj]
    BY <1>6
  <2>3. ii = jj
    <3> HIDE DEF ii, jj
    <3> QED BY <2>1, <2>2 DEF NoTwice
  <2> QED BY <1>3, <2>3
<1> QED BY <1>5, <1>6, <1>7, <1>8 DEF t

-----------------------------------------------------------------------------
(* The connections, by the actions that change them.                        *)
LEMMA ConnsKept == ASSUME ConnInv, UNCHANGED connVars PROVE ConnInv'
BY DEF ConnInv, connVars

LEMMA RegisterKeeps ==
  ASSUME ConnInv, NEW c \in Conn, NEW p \in Decoders, NEW h \in Handlers, NEW k \in Chips,
         Register(c, p, h, k)
  PROVE  ConnInv'
<1>1. /\ ~Contains(conns, c) /\ Valid(p) /\ conns' = Append(conns, c)
      /\ params' = [params EXCEPT ![c] = p] /\ has' = [has EXCEPT ![c] = h]
      /\ chip' = [chip EXCEPT ![c] = Fresh(k)]
  BY DEF Register
<1>2. conns' \in Seq(Conn) /\ NoTwice(conns)'
  BY <1>1, AppendedList DEF ConnInv, NoTwice
<1>3. params' \in [Conn -> Decoders] /\ has' \in [Conn -> Handlers]
  BY <1>1 DEF ConnInv
<1>4. \A d \in Conn : params'[d].type = "RANGE" => params'[d].start <= params'[d].end
  <2>1. p.type = "RANGE" => p.start <= p.end
    BY <1>1 DEF Valid
  <2> QED BY <1>1, <2>1 DEF ConnInv
<1>5. DOMAIN chip' = Conn /\ \A d \in Conn : IsChip(chip'[d])
  <2>1. IsChip(Fresh(k))
    BY FreshIsChip
  <2> QED BY <1>1, <2>1 DEF ConnInv
<1> QED BY <1>2, <1>3, <1>4, <1>5 DEF ConnInv

LEMMA UnregisterKeeps ==
  ASSUME ConnInv, NEW n \in 1 .. Len(conns), Unregister(n)
  PROVE  ConnInv'
<1>1. /\ conns' = RemoveAt(conns, n)
      /\ params' = [params EXCEPT ![conns[n]] = Blank.params]
      /\ has' = [has EXCEPT ![conns[n]] = Blank.has]
      /\ chip' = [chip EXCEPT ![conns[n]] = Blank.chip]
  BY DEF Unregister
<1>2. conns' \in Seq(Conn) /\ NoTwice(conns)'
  BY <1>1, RemovedList DEF ConnInv, NoTwice
<1>3. params' \in [Conn -> Decoders] /\ has' \in [Conn -> Handlers]
  BY <1>1, BlankFacts DEF ConnInv
<1>4. \A d \in Conn : params'[d].type = "RANGE" => params'[d].start <= params'[d].end
  <2>1. Blank.params.type = "RANGE" => Blank.params.start <= Blank.params.end
    BY BlankFacts DEF Valid
  <2> QED BY <1>1, <2>1 DEF ConnInv
<1>5. DOMAIN chip' = Conn /\ \A d \in Conn : IsChip(chip'[d])
  BY <1>1, BlankFacts DEF ConnInv
<1> QED BY <1>2, <1>3, <1>4, <1>5 DEF ConnInv

(* A load, or a write to a chip itself, puts a chip of the same shape there. *)
LEMMA DirectPuts ==
  ASSUME ConnInv, NEW c \in Conn, LoadData(c) \/ WriteChip(c)
  PROVE  \E m : SameShape(m, chip[c]) /\ PutDirectly(c, m)
<1>1. IsChip(chip[c])
  BY DEF ConnInv
<1>2. CASE LoadData(c)
  <2>1. PICK m \in Loaded(chip[c]) : PutDirectly(c, m)
    BY <1>2 DEF LoadData
  <2> QED BY <1>1, <2>1, LoadKeepsShape
<1>3. CASE WriteChip(c)
  <2>1. PICK i \in DOMAIN chip[c].buffer, v \in Val : PutDirectly(c, memory_write(chip[c], i, v))
    BY <1>3 DEF WriteChip
  <2>2. SameShape(memory_write(chip[c], i, v), chip[c])
    BY <1>1, DirectWriteKeepsShape
  <2> QED BY <2>1, <2>2
<1> QED BY <1>2, <1>3

LEMMA PutKeeps ==
  ASSUME ConnInv, NEW c \in Conn, NEW m, SameShape(m, chip[c]), PutDirectly(c, m)
  PROVE  ConnInv'
<1>1. chip' = [chip EXCEPT ![c] = m] /\ UNCHANGED <<conns, params, has>>
  BY DEF PutDirectly
<1>2. DOMAIN chip' = Conn /\ \A d \in Conn : IsChip(chip'[d])
  BY <1>1 DEF ConnInv, SameShape
<1> QED BY <1>1, <1>2 DEF ConnInv, NoTwice

(* A write over the bus.                                                    *)
LEMMA WrittenShapes ==
  ASSUME ConnInv, NEW a \in Addr, NEW v \in Val
  PROVE  DOMAIN Written(a, v) = Conn /\ \A c \in Conn : SameShape(Written(a, v)[c], chip[c])
<1>1. DOMAIN Written(a, v) = Conn
  BY DEF Written
<1>2. ASSUME NEW c \in Conn
      PROVE  SameShape(Written(a, v)[c], chip[c])
  <2>1. IsChip(chip[c])
    BY DEF ConnInv
  <2>2. SameShape(chip[c], chip[c])
    BY <2>1 DEF SameShape
  <2>3. SameShape(mem_bus_write_cb(chip[c], a, v), chip[c])
    BY <2>1, BusWriteKeepsShape
  <2>4. Written(a, v)[c] = IF Takes(c, a) THEN mem_bus_write_cb(chip[c], a, v) ELSE chip[c]
    BY DEF Written
  <2> QED BY <2>2, <2>3, <2>4
<1> QED BY <1>1, <1>2

LEMMA BusWriteKeeps ==
  ASSUME ConnInv, NEW a \in Addr, NEW v \in Val, bus_write(a, v)
  PROVE  ConnInv'
<1>1. chip' = Written(a, v) /\ UNCHANGED <<conns, params, has>>
  BY DEF bus_write
<1>2. DOMAIN chip' = Conn /\ \A d \in Conn : IsChip(chip'[d])
  BY <1>1, WrittenShapes DEF SameShape
<1> QED BY <1>1, <1>2 DEF ConnInv, NoTwice

-----------------------------------------------------------------------------
(* The tracers.                                                             *)
LEMMA TracersKept ==
  ASSUME TracerInv, UNCHANGED <<tracers, did, heard>>
  PROVE  TracerInv'
BY DEF TracerInv, NoTwice, TracersHearTheBus, Contains

LEMMA TracersTold ==
  ASSUME TracerInv, NEW op \in Operation, TellTracers(op), did' = op, UNCHANGED tracers
  PROVE  TracerInv'
<1>1. heard' = [t \in Tracer |-> IF Contains(tracers, t) THEN op ELSE heard[t]]
  BY DEF TellTracers
<1>2. heard' \in [Tracer -> Operation]
  BY <1>1 DEF TracerInv
<1>3. \A t \in Tracer : Contains(tracers, t) => heard'[t] = op
  BY <1>1
<1>4. TracersHearTheBus'
  BY <1>3 DEF TracersHearTheBus, Contains
<1> QED BY <1>2, <1>4 DEF TracerInv, NoTwice

LEMMA AddTracerKeeps ==
  ASSUME TracerInv, NEW t \in Tracer, AddTracer(t)
  PROVE  TracerInv'
<1>1. /\ ~Contains(tracers, t) /\ tracers' = Append(tracers, t)
      /\ heard' = [heard EXCEPT ![t] = did] /\ did' = did
  BY DEF AddTracer
<1>2. tracers \in Seq(Tracer) /\ NoTwice(tracers)
  BY DEF TracerInv
<1>3. /\ tracers' \in Seq(Tracer) /\ NoTwice(tracers')
      /\ Len(tracers') = Len(tracers) + 1 /\ tracers'[Len(tracers) + 1] = t
      /\ \A i \in 1 .. Len(tracers) : tracers'[i] = tracers[i]
  BY <1>1, <1>2, AppendedList
<1>4. heard' \in [Tracer -> Operation]
  BY <1>1 DEF TracerInv
<1>5. ASSUME NEW u \in Tracer, Contains(tracers', u)
      PROVE  heard'[u] = did
  <2>1. CASE u = t
    BY <1>1, <2>1 DEF TracerInv
  <2>2. CASE u # t
    <3>1. PICK i \in 1 .. Len(tracers') : tracers'[i] = u
      BY <1>5 DEF Contains
    <3>2. i \in 1 .. Len(tracers) /\ tracers[i] = u
      BY <1>2, <1>3, <2>2, <3>1
    <3>3. heard[u] = did
      BY <3>2 DEF TracerInv, TracersHearTheBus, Contains
    <3> QED BY <1>1, <2>2, <3>3 DEF TracerInv
  <2> QED BY <2>1, <2>2
<1>6. TracersHearTheBus'
  BY <1>1, <1>5 DEF TracersHearTheBus, Contains
<1> QED BY <1>1, <1>3, <1>4, <1>6 DEF TracerInv, NoTwice

LEMMA RemoveTracerKeeps ==
  ASSUME TracerInv, NEW n \in 1 .. Len(tracers), RemoveTracer(n)
  PROVE  TracerInv'
<1>1. /\ tracers' = RemoveAt(tracers, n)
      /\ heard' = [heard EXCEPT ![tracers[n]] = NoOp] /\ did' = did
  BY DEF RemoveTracer
<1>2. tracers \in Seq(Tracer) /\ NoTwice(tracers)
  BY DEF TracerInv
<1>3. /\ tracers' \in Seq(Tracer) /\ NoTwice(tracers') /\ Len(tracers') = Len(tracers) - 1
      /\ \A i \in 1 .. Len(tracers) - 1 :
           tracers'[i] = IF i < n THEN tracers[i] ELSE tracers[i + 1]
      /\ \A i \in 1 .. Len(tracers) - 1 : tracers'[i] # tracers[n]
  <2> DEFINE r == RemoveAt(tracers, n)
  <2> HIDE DEF r
  <2>1. /\ r \in Seq(Tracer) /\ NoTwice(r) /\ Len(r) = Len(tracers) - 1
        /\ \A i \in 1 .. Len(tracers) - 1 :
             r[i] = IF i < n THEN tracers[i] ELSE tracers[i + 1]
        /\ \A i \in 1 .. Len(tracers) - 1 : r[i] # tracers[n]
    BY <1>2, RemovedList DEF r
  <2>2. tracers' = r
    BY <1>1 DEF r
  <2> QED BY <2>1, <2>2
<1>4. heard' \in [Tracer -> Operation]
  <2>1. NoOp \in Operation
    BY NoOpTyped
  <2> QED BY <1>1, <2>1 DEF TracerInv
<1>5. ASSUME NEW u \in Tracer, Contains(tracers', u)
      PROVE  heard'[u] = did
  <2>1. PICK i \in 1 .. Len(tracers') : tracers'[i] = u
    BY <1>5 DEF Contains
  <2>2. i \in 1 .. Len(tracers) - 1 /\ u # tracers[n]
    BY <1>3, <2>1
  <2>3. u = IF i < n THEN tracers[i] ELSE tracers[i + 1]
    BY <1>3, <2>1, <2>2
  <2>4. Contains(tracers, u)
    <3>1. i \in 1 .. Len(tracers) /\ i + 1 \in 1 .. Len(tracers)
      BY <1>2, <2>2
    <3> QED BY <2>3, <3>1 DEF Contains
  <2>5. heard[u] = did
    BY <2>4 DEF TracerInv, TracersHearTheBus
  <2> QED BY <1>1, <2>2, <2>5 DEF TracerInv
<1>6. TracersHearTheBus'
  BY <1>1, <1>5 DEF TracersHearTheBus, Contains
<1> QED BY <1>1, <1>3, <1>4, <1>6 DEF TracerInv, NoTwice

-----------------------------------------------------------------------------
(* What the cpu asked for last, and what is done again while RDY is held.   *)
LEMMA OpKept ==
  ASSUME OpInv, UNCHANGED <<lastop, wanted, did>>
  PROVE  OpInv'
BY DEF OpInv, LastIsWanted, ReplayRepeats

LEMMA OpOfRead ==
  ASSUME OpInv, ConnInv, NEW a \in Addr, NEW sync \in BOOLEAN,
         lastop' = [lastop EXCEPT !.write = FALSE, !.addr = a, !.sync = sync],
         did' = Op(FALSE, a, ValueOf(a, "read"), sync)
  PROVE  /\ did' \in Operation /\ lastop' \in Operation
         /\ did'.write = FALSE /\ did'.addr = a /\ did'.sync = sync
         /\ lastop'.write = FALSE /\ lastop'.addr = a /\ lastop'.sync = sync
<1>1. did' \in Operation
  <2> DEFINE v == ValueOf(a, "read")
  <2>1. v \in Val \cup {Open}
    BY ValueTyped DEF ReadHandlers
  <2> HIDE DEF v
  <2>2. Op(FALSE, a, v, sync) \in Operation
    BY <2>1, OpTyped
  <2> QED BY <2>2 DEF v
<1>2. did'.write = FALSE /\ did'.addr = a /\ did'.sync = sync
  BY DEF Op
<1>3. lastop' \in Operation
  BY DEF OpInv, Operation
<1>4. lastop'.write = FALSE /\ lastop'.addr = a /\ lastop'.sync = sync
  BY DEF OpInv, Operation
<1> QED BY <1>1, <1>2, <1>3, <1>4

LEMMA OpOfWrite ==
  ASSUME NEW a \in Addr, NEW v \in Val,
         lastop' = Op(TRUE, a, v, FALSE), did' = Op(TRUE, a, v, FALSE)
  PROVE  /\ did' = lastop' /\ lastop' \in Operation
         /\ lastop'.write = TRUE /\ lastop'.addr = a /\ lastop'.val = v /\ lastop'.sync = FALSE
<1>1. lastop' \in Operation
  BY OpTyped
<1> QED BY <1>1 DEF Op

LEMMA ReadKeeps ==
  ASSUME BusInv, NEW a \in Addr, NEW sync \in BOOLEAN, Read(a, sync)
  PROVE  BusInv'
<1>1. /\ bus_read_peek_i(a, FALSE, sync)
      /\ did' = Op(FALSE, a, ValueOf(a, "read"), sync) /\ wanted' = did'
  BY DEF Read
<1>2. /\ TellTracers(did')
      /\ lastop' = [lastop EXCEPT !.write = FALSE, !.addr = a, !.sync = sync]
      /\ UNCHANGED connVars /\ UNCHANGED tracers
  BY <1>1, ReadStep DEF connVars
<1>3. /\ did' \in Operation /\ lastop' \in Operation
      /\ did'.write = FALSE /\ did'.addr = a /\ did'.sync = sync
      /\ lastop'.write = FALSE /\ lastop'.addr = a /\ lastop'.sync = sync
  BY <1>1, <1>2, OpOfRead DEF BusInv
<1>4. ConnInv'
  BY <1>2, ConnsKept DEF BusInv
<1>5. TracerInv'
  BY <1>2, <1>3, TracersTold DEF BusInv
<1>6. OpInv'
  BY <1>1, <1>3 DEF OpInv, LastIsWanted, ReplayRepeats
<1> QED BY <1>4, <1>5, <1>6 DEF BusInv

LEMMA WriteKeeps ==
  ASSUME BusInv, NEW a \in Addr, NEW v \in Val, Write(a, v)
  PROVE  BusInv'
<1>1. bus_write(a, v) /\ did' = Op(TRUE, a, v, FALSE) /\ wanted' = did'
  BY DEF Write
<1>2. TellTracers(did') /\ lastop' = Op(TRUE, a, v, FALSE) /\ UNCHANGED tracers
  BY <1>1 DEF bus_write
<1>3. /\ did' = lastop' /\ lastop' \in Operation
      /\ lastop'.write = TRUE /\ lastop'.addr = a /\ lastop'.val = v /\ lastop'.sync = FALSE
  BY <1>1, <1>2, OpOfWrite
<1>4. ConnInv'
  BY <1>1, BusWriteKeeps DEF BusInv
<1>5. TracerInv'
  BY <1>2, <1>3, TracersTold DEF BusInv
<1>6. OpInv'
  BY <1>1, <1>3 DEF OpInv, LastIsWanted, ReplayRepeats
<1> QED BY <1>4, <1>5, <1>6 DEF BusInv

LEMMA ReplayKeeps ==
  ASSUME BusInv, Replay
  PROVE  BusInv'
<1>1. wanted' = wanted /\ lastop \in Operation /\ wanted \in Operation
  BY DEF Replay, BusInv, OpInv
<1>2. lastop.addr \in Addr /\ lastop.sync \in BOOLEAN
  BY <1>1 DEF Operation
<1>3. CASE /\ lastop.write
           /\ bus_write(lastop.addr, lastop.val)
           /\ did' = Op(TRUE, lastop.addr, lastop.val, FALSE)
  <2> DEFINE a == lastop.addr  v == lastop.val
  <2>1. v \in Val /\ LastIsWanted
    BY <1>3 DEF BusInv, OpInv
  <2>2. /\ TellTracers(did') /\ lastop' = Op(TRUE, a, v, FALSE)
        /\ UNCHANGED tracers
    BY <1>3 DEF bus_write
  <2>3. /\ did' = lastop' /\ lastop' \in Operation
        /\ lastop'.write = TRUE /\ lastop'.addr = a /\ lastop'.val = v /\ lastop'.sync = FALSE
    <3> HIDE DEF a, v
    <3>1. a \in Addr /\ v \in Val /\ did' = Op(TRUE, a, v, FALSE)
      BY <1>2, <1>3, <2>1 DEF a, v
    <3> QED BY <3>1, <2>2, OpOfWrite
  <2>4. ConnInv'
    BY <1>2, <1>3, <2>1, BusWriteKeeps DEF BusInv
  <2>5. TracerInv'
    BY <2>2, <2>3, TracersTold DEF BusInv
  <2>6. wanted.write = TRUE /\ wanted.addr = a /\ wanted.val = v /\ wanted.sync = lastop.sync
    BY <1>3, <2>1 DEF LastIsWanted
  <2>7. lastop.sync = FALSE
    BY <1>3 DEF BusInv, OpInv
  <2>8. OpInv'
    BY <1>1, <2>1, <2>3, <2>6, <2>7 DEF OpInv, LastIsWanted, ReplayRepeats
  <2> QED BY <2>4, <2>5, <2>8 DEF BusInv
<1>4. CASE /\ ~lastop.write
           /\ bus_read_peek_i(lastop.addr, FALSE, lastop.sync)
           /\ did' = Op(FALSE, lastop.addr, ValueOf(lastop.addr, "read"), lastop.sync)
  <2> DEFINE a == lastop.addr  sync == lastop.sync
  <2>1. /\ TellTracers(did')
        /\ lastop' = [lastop EXCEPT !.write = FALSE, !.addr = a, !.sync = sync]
        /\ UNCHANGED connVars /\ UNCHANGED tracers
    BY <1>2, <1>4, ReadStep DEF connVars
  <2>2. /\ did' \in Operation /\ lastop' \in Operation
        /\ did'.write = FALSE /\ did'.addr = a /\ did'.sync = sync
        /\ lastop'.write = FALSE /\ lastop'.addr = a /\ lastop'.sync = sync
    BY <1>2, <1>4, <2>1, OpOfRead DEF BusInv
  <2>3. ConnInv'
    BY <2>1, ConnsKept DEF BusInv
  <2>4. TracerInv'
    BY <2>1, <2>2, TracersTold DEF BusInv
  <2>5. wanted.write = FALSE /\ wanted.addr = a /\ wanted.sync = sync
    BY <1>4, <1>1 DEF BusInv, OpInv, LastIsWanted, Operation
  <2>6. OpInv'
    BY <1>1, <2>2, <2>5 DEF OpInv, LastIsWanted, ReplayRepeats
  <2> QED BY <2>3, <2>4, <2>6 DEF BusInv
<1> QED BY <1>3, <1>4 DEF Replay

-----------------------------------------------------------------------------
LEMMA InitInv == Init => BusInv
<1> SUFFICES ASSUME Init PROVE BusInv
  OBVIOUS
<1>1. /\ conns = <<>> /\ tracers = <<>>
      /\ params = [c \in Conn |-> Blank.params] /\ has = [c \in Conn |-> Blank.has]
      /\ chip = [c \in Conn |-> Blank.chip]
      /\ lastop = NoOp /\ wanted = NoOp /\ did = NoOp
      /\ heard = [t \in Tracer |-> NoOp]
  BY DEF Init
<1>2. /\ conns \in Seq(Conn) /\ NoTwice(conns)
      /\ tracers \in Seq(Tracer) /\ NoTwice(tracers)
  BY <1>1 DEF NoTwice
<1>3. NoOp \in Operation /\ NoOp.write = FALSE
  BY NoOpTyped DEF NoOp, Op
<1>4. ConnInv
  <2>1. Blank.params.type = "RANGE" => Blank.params.start <= Blank.params.end
    BY BlankFacts DEF Valid
  <2> QED BY <1>1, <1>2, <2>1, BlankFacts DEF ConnInv
<1>5. TracerInv
  <2>1. TracersHearTheBus
    BY <1>1 DEF TracersHearTheBus
  <2> QED BY <1>1, <1>2, <1>3, <2>1 DEF TracerInv
<1>6. OpInv
  BY <1>1, <1>3 DEF OpInv, LastIsWanted, ReplayRepeats
<1> QED BY <1>4, <1>5, <1>6 DEF BusInv

LEMMA NextKeepsInv == BusInv /\ [Next]_busVars => BusInv'
<1> SUFFICES ASSUME BusInv, [Next]_busVars PROVE BusInv'
  OBVIOUS
<1> USE DEF BusInv
<1>1. ASSUME NEW c \in Conn, NEW p \in Decoders, NEW h \in Handlers, NEW k \in Chips,
             Register(c, p, h, k)
      PROVE  BusInv'
  <2>1. ConnInv'
    BY <1>1, RegisterKeeps
  <2>2. UNCHANGED <<tracers, lastop, wanted, did, heard>>
    BY <1>1 DEF Register
  <2> QED BY <2>1, <2>2, TracersKept, OpKept
<1>2. ASSUME NEW c \in Conn, LoadData(c) \/ WriteChip(c)
      PROVE  BusInv'
  <2>1. PICK m : SameShape(m, chip[c]) /\ PutDirectly(c, m)
    BY <1>2, DirectPuts
  <2>2. ConnInv'
    BY <2>1, PutKeeps
  <2>3. UNCHANGED <<tracers, lastop, wanted, did, heard>>
    BY <2>1 DEF PutDirectly
  <2> QED BY <2>2, <2>3, TracersKept, OpKept
<1>3. ASSUME NEW n \in 1 .. Len(conns), Unregister(n)
      PROVE  BusInv'
  <2>1. ConnInv'
    BY <1>3, UnregisterKeeps
  <2>2. UNCHANGED <<tracers, lastop, wanted, did, heard>>
    BY <1>3 DEF Unregister
  <2> QED BY <2>1, <2>2, TracersKept, OpKept
<1>4. ASSUME NEW t \in Tracer, AddTracer(t)
      PROVE  BusInv'
  <2>1. TracerInv'
    BY <1>4, AddTracerKeeps
  <2>2. UNCHANGED <<connVars, lastop, wanted, did>>
    BY <1>4 DEF AddTracer
  <2> QED BY <2>1, <2>2, ConnsKept, OpKept
<1>5. ASSUME NEW n \in 1 .. Len(tracers), RemoveTracer(n)
      PROVE  BusInv'
  <2>1. TracerInv'
    BY <1>5, RemoveTracerKeeps
  <2>2. UNCHANGED <<connVars, lastop, wanted, did>>
    BY <1>5 DEF RemoveTracer
  <2> QED BY <2>1, <2>2, ConnsKept, OpKept
<1>6. ASSUME NEW a \in Addr, Peek(a)
      PROVE  BusInv'
  <2>1. UNCHANGED <<connVars, tracers, lastop, wanted, did, heard>>
    BY <1>6 DEF Peek, bus_read_peek_i, Commits
  <2> QED BY <2>1, ConnsKept, TracersKept, OpKept
<1>7. CASE UNCHANGED busVars
  <2>1. UNCHANGED <<connVars, tracers, lastop, wanted, did, heard>>
    BY <1>7 DEF busVars
  <2> QED BY <2>1, ConnsKept, TracersKept, OpKept
<1>8. ASSUME NEW a \in Addr, NEW sync \in BOOLEAN, Read(a, sync)
      PROVE  BusInv'
  BY <1>8, ReadKeeps
<1>9. ASSUME NEW a \in Addr, NEW v \in Val, Write(a, v)
      PROVE  BusInv'
  BY <1>9, WriteKeeps
<1>10. CASE Replay
  BY <1>10, ReplayKeeps
<1> QED BY <1>1, <1>2, <1>3, <1>4, <1>5, <1>6, <1>7, <1>8, <1>9, <1>10 DEF Next

(* The invariant of the dispatch holds always.                              *)
THEOREM BusAlwaysConsistent == Spec => []BusInv
BY InitInv, NextKeepsInv, PTL DEF Spec

(* Connections and tracers are a list of those that are registered, each    *)
(* connection has decoder, handlers and a chip that ends within the address *)
(* space, and what went over the bus was a byte or nobody's answer.         *)
THEOREM BusTypeCorrect == Spec => []TypeOK
<1>1. BusInv => TypeOK
  BY DEF BusInv, ConnInv, TracerInv, OpInv, TypeOK
<1> QED BY <1>1, BusAlwaysConsistent, PTL

(* What bus_replay does again is what the cpu asked for last, whatever was  *)
(* peeked, registered, loaded or traced since.                              *)
THEOREM ReplayAlwaysRepeats == Spec => []ReplayRepeats
<1>1. BusInv => ReplayRepeats
  BY DEF BusInv, OpInv
<1> QED BY <1>1, BusAlwaysConsistent, PTL

(* Every tracer has heard the last transfer of the bus, whichever tracers   *)
(* came and went, and no peek.                                              *)
THEOREM TracersAlwaysHear == Spec => []TracersHearTheBus
<1>1. BusInv => TracersHearTheBus
  BY DEF BusInv, TracerInv
<1> QED BY <1>1, BusAlwaysConsistent, PTL

-----------------------------------------------------------------------------
(* The dispatch implements the flat memory.  An address stays as it is when *)
(* the one who answers there does, with its chip and its part in writes.    *)
Owned(a) == Answer(a, "read")
Holds(a) == ValueOf(a, "read")
InRam(a) == IsRamOf(Owned(a), a)

Same(a) == Owned(a)' = Owned(a) /\ Holds(a)' = Holds(a) /\ (InRam(a)' <=> InRam(a))

AnswerIs(a) ==
  /\ \A i \in 1 .. Len(conns) : IsFirst(i, a, "read") => Owned(a) = conns[i]
  /\ (\A i \in 1 .. Len(conns) : ~Answering(i, a, "read")) => Owned(a) = Nobody

LEMMA AnswerIsFirst == conns \in Seq(Conn) => \A a \in Addr : AnswerIs(a)
<1> SUFFICES ASSUME conns \in Seq(Conn), NEW a \in Addr
             PROVE  AnswerIs(a)
  OBVIOUS
<1>1. AnswersFirst(a, "read")
  BY AnswerFacts DEF ReadHandlers
<1>2. ASSUME NEW i \in 1 .. Len(conns), IsFirst(i, a, "read")
      PROVE  Owned(a) = conns[i]
  <2>1. Answering(i, a, "read") /\ \A k \in 1 .. i - 1 : ~Answering(k, a, "read")
    BY <1>2 DEF IsFirst
  <2>2. PICK j \in 1 .. Len(conns) : IsFirst(j, a, "read") /\ Answer(a, "read") = conns[j]
    BY <1>1, <2>1 DEF AnswersFirst
  <2>3. Answering(j, a, "read") /\ \A k \in 1 .. j - 1 : ~Answering(k, a, "read")
    BY <2>2 DEF IsFirst
  <2>4. i \in Int /\ j \in Int /\ i >= 1 /\ j >= 1 /\ i \notin 1 .. j - 1 /\ j \notin 1 .. i - 1
    BY <2>1, <2>3
  <2>5. i = j
    BY <2>4
  <2> QED BY <2>2, <2>5 DEF Owned
<1>3. ASSUME \A i \in 1 .. Len(conns) : ~Answering(i, a, "read")
      PROVE  Owned(a) = Nobody
  BY <1>3 DEF Answer, Owned
<1> QED BY <1>2, <1>3 DEF AnswerIs

LEMMA AnswerIsFirstNext == (conns \in Seq(Conn) => \A a \in Addr : AnswerIs(a))'
BY AnswerIsFirst, PTL

(* The owner is registered, and is not Nobody.                              *)
LEMMA OwnerCases ==
  ASSUME ConnInv, NEW a \in Addr
  PROVE  \/ /\ Owned(a) = Nobody /\ Holds(a) = Open /\ ~InRam(a)
            /\ \A i \in 1 .. Len(conns) : ~Answering(i, a, "read")
         \/ /\ Owned(a) \in Conn /\ Owned(a) # Nobody
            /\ Holds(a) = mem_bus_read_cb(chip[Owned(a)], a)
            /\ \E i \in 1 .. Len(conns) : IsFirst(i, a, "read") /\ Owned(a) = conns[i]
<1>1. AnswersFirst(a, "read")
  BY AnswerFacts DEF ReadHandlers, ConnInv
<1>2. \A i \in 1 .. Len(conns) : conns[i] \in Conn /\ conns[i] # Nobody
  BY BusAssumption, ElementOfSeq DEF ConnInv
<1>3. CASE Owned(a) = Nobody
  <2>1. \A i \in 1 .. Len(conns) : ~Answering(i, a, "read")
    BY <1>1, <1>2, <1>3 DEF AnswersFirst, Owned
  <2>2. ~Contains(conns, Nobody)
    BY <1>2 DEF Contains
  <2>3. ~InRam(a)
    BY <1>3, <2>2 DEF InRam, IsRamOf, Takes
  <2>4. Holds(a) = Open
    BY <1>3 DEF Holds, ValueOf, Owned
  <2> QED BY <1>3, <2>1, <2>3, <2>4
<1>4. CASE Owned(a) # Nobody
  <2>1. PICK i \in 1 .. Len(conns) : IsFirst(i, a, "read") /\ Owned(a) = conns[i]
    BY <1>1, <1>4 DEF AnswersFirst, Owned
  <2>2. Holds(a) = mem_bus_read_cb(chip[Owned(a)], a)
    BY <1>4 DEF Holds, ValueOf, Owned
  <2> QED BY <1>2, <1>4, <2>1, <2>2
<1> QED BY <1>3, <1>4

LEMMA OwnerCasesNext ==
  ConnInv' => \A a \in Addr :
    \/ /\ Owned(a)' = Nobody /\ Holds(a)' = Open /\ ~InRam(a)'
       /\ \A i \in 1 .. Len(conns') : ~Answering(i, a, "read")'
    \/ /\ Owned(a)' \in Conn /\ Owned(a)' # Nobody
       /\ Holds(a)' = mem_bus_read_cb(chip'[Owned(a)'], a)
       /\ \E i \in 1 .. Len(conns') : IsFirst(i, a, "read")' /\ Owned(a)' = conns'[i]
<1>1. ConnInv => \A a \in Addr :
        \/ /\ Owned(a) = Nobody /\ Holds(a) = Open /\ ~InRam(a)
           /\ \A i \in 1 .. Len(conns) : ~Answering(i, a, "read")
        \/ /\ Owned(a) \in Conn /\ Owned(a) # Nobody
           /\ Holds(a) = mem_bus_read_cb(chip[Owned(a)], a)
           /\ \E i \in 1 .. Len(conns) : IsFirst(i, a, "read") /\ Owned(a) = conns[i]
  BY OwnerCases
<1>2. (ConnInv => \A a \in Addr :
        \/ /\ Owned(a) = Nobody /\ Holds(a) = Open /\ ~InRam(a)
           /\ \A i \in 1 .. Len(conns) : ~Answering(i, a, "read")
        \/ /\ Owned(a) \in Conn /\ Owned(a) # Nobody
           /\ Holds(a) = mem_bus_read_cb(chip[Owned(a)], a)
           /\ \E i \in 1 .. Len(conns) : IsFirst(i, a, "read") /\ Owned(a) = conns[i])'
  BY <1>1, PTL
<1> QED BY <1>2

(* The same owner, whose chip reads and is written the same there.          *)
LEMMA SameOwner ==
  ASSUME ConnInv, ConnInv', NEW a \in Addr, Owned(a)' = Owned(a),
         Owned(a) # Nobody =>
           /\ mem_bus_read_cb(chip'[Owned(a)], a) = mem_bus_read_cb(chip[Owned(a)], a)
           /\ chip'[Owned(a)].rom = chip[Owned(a)].rom
           /\ chip'[Owned(a)].base = chip[Owned(a)].base
           /\ chip'[Owned(a)].size = chip[Owned(a)].size
           /\ Contains(conns', Owned(a)) <=> Contains(conns, Owned(a))
           /\ params'[Owned(a)] = params[Owned(a)] /\ has'[Owned(a)] = has[Owned(a)]
  PROVE  Same(a)
<1>1. CASE Owned(a) = Nobody
  <2>1. Holds(a) = Open /\ ~InRam(a)
    BY <1>1, OwnerCases
  <2>2. Holds(a)' = Open /\ ~InRam(a)'
    BY <1>1, OwnerCasesNext
  <2> QED BY <2>1, <2>2 DEF Same
<1>2. CASE Owned(a) # Nobody
  <2>1. Holds(a) = mem_bus_read_cb(chip[Owned(a)], a)
    BY <1>2, OwnerCases
  <2>2. Holds(a)' = mem_bus_read_cb(chip'[Owned(a)], a)
    BY <1>2, OwnerCasesNext
  <2>3. InRam(a)' <=> InRam(a)
    BY <1>2 DEF InRam, IsRamOf, Takes
  <2> QED BY <1>2, <2>1, <2>2, <2>3 DEF Same
<1> QED BY <1>1, <1>2

LEMMA OwnersStay ==
  ASSUME ConnInv, UNCHANGED <<conns, params, has>>, NEW a \in Addr
  PROVE  Owned(a)' = Owned(a)
<1>1. \A i : Answering(i, a, "read")' <=> Answering(i, a, "read")
  BY DEF Answering
<1>2. \A i : IsFirst(i, a, "read")' <=> IsFirst(i, a, "read")
  BY <1>1 DEF IsFirst
<1>3. AnswerIs(a)'
  BY AnswerIsFirstNext DEF ConnInv
<1>4. CASE Owned(a) = Nobody
  BY <1>1, <1>3, <1>4, OwnerCases DEF AnswerIs
<1>5. CASE Owned(a) # Nobody
  <2>1. PICK i \in 1 .. Len(conns) : IsFirst(i, a, "read") /\ Owned(a) = conns[i]
    BY <1>5, OwnerCases
  <2> QED BY <1>2, <1>3, <2>1 DEF AnswerIs
<1> QED BY <1>4, <1>5

(* Nothing but the chips has changed, and those keep their shape.           *)
LEMMA SameWhenRead ==
  ASSUME ConnInv, ConnInv', NEW a \in Addr, UNCHANGED <<conns, params, has>>,
         \A c \in Conn : SameShape(chip'[c], chip[c]),
         Owned(a) \in Conn =>
           mem_bus_read_cb(chip'[Owned(a)], a) = mem_bus_read_cb(chip[Owned(a)], a)
  PROVE  Same(a)
<1>1. Owned(a)' = Owned(a)
  BY OwnersStay
<1>2. CASE Owned(a) = Nobody
  BY <1>1, <1>2, SameOwner
<1>3. CASE Owned(a) \in Conn
  <2>1. SameShape(chip'[Owned(a)], chip[Owned(a)])
    BY <1>3
  <2> QED BY <1>1, <1>3, <2>1, SameOwner DEF SameShape
<1> QED BY <1>2, <1>3, OwnerCases

LEMMA RegisterOwns ==
  ASSUME ConnInv, ConnInv', NEW c \in Conn, NEW p \in Decoders, NEW h \in Handlers,
         NEW k \in Chips, Register(c, p, h, k), NEW a \in Addr
  PROVE  Same(a) \/ (Owned(a) = Nobody /\ Owned(a)' = c)
<1>1. /\ ~Contains(conns, c) /\ conns' = Append(conns, c)
      /\ params' = [params EXCEPT ![c] = p] /\ has' = [has EXCEPT ![c] = h]
      /\ chip' = [chip EXCEPT ![c] = Fresh(k)]
  BY DEF Register
<1>2. /\ conns' \in Seq(Conn) /\ Len(conns) \in Nat
      /\ Len(conns') = Len(conns) + 1 /\ conns'[Len(conns) + 1] = c
      /\ \A i \in 1 .. Len(conns) : conns'[i] = conns[i] /\ conns[i] # c
  <2>1. conns \in Seq(Conn) /\ NoTwice(conns)
    BY DEF ConnInv
  <2>2. \A i \in 1 .. Len(conns) : conns[i] # c
    BY <1>1 DEF Contains
  <2> QED BY <1>1, <2>1, <2>2, AppendedList
<1>3. \A d \in Conn : d # c => params'[d] = params[d] /\ has'[d] = has[d] /\ chip'[d] = chip[d]
  BY <1>1 DEF ConnInv
<1>4. \A i \in 1 .. Len(conns) : Answering(i, a, "read")' <=> Answering(i, a, "read")
  <2>1. \A i \in 1 .. Len(conns) : conns[i] \in Conn
    BY ElementOfSeq DEF ConnInv
  <2> QED BY <1>2, <1>3, <2>1 DEF Answering
<1>5. CASE Owned(a) = Nobody
  <2>1. \A i \in 1 .. Len(conns) : ~Answering(i, a, "read")'
    BY <1>4, <1>5, OwnerCases
  <2>2. CASE Owned(a)' = Nobody
    BY <1>5, <2>2, SameOwner
  <2>3. CASE Owned(a)' # Nobody
    <3>1. PICK i \in 1 .. Len(conns') : IsFirst(i, a, "read")' /\ Owned(a)' = conns'[i]
      BY <2>3, OwnerCasesNext
    <3>2. Answering(i, a, "read")'
      BY <3>1 DEF IsFirst
    <3>3. i = Len(conns) + 1
      BY <1>2, <2>1, <3>2
    <3> QED BY <1>2, <1>5, <3>1, <3>3
  <2> QED BY <2>2, <2>3
<1>6. CASE Owned(a) # Nobody
  <2>1. PICK i \in 1 .. Len(conns) : IsFirst(i, a, "read") /\ Owned(a) = conns[i]
    BY <1>6, OwnerCases
  <2>2. /\ i \in 1 .. Len(conns') /\ \A j \in 1 .. i - 1 : j \in 1 .. Len(conns)
        /\ conns'[i] = conns[i] /\ conns[i] # c /\ conns[i] \in Conn
    BY <1>2, <1>6, <2>1, OwnerCases
  <2>3. IsFirst(i, a, "read")'
    BY <1>4, <2>1, <2>2 DEF IsFirst
  <2>4. Owned(a)' = conns'[i]
    <3>1. AnswerIs(a)'
      BY <1>2, AnswerIsFirstNext
    <3> QED BY <2>2, <2>3, <3>1 DEF AnswerIs
  <2>5. Contains(conns', Owned(a)) /\ Contains(conns, Owned(a))
    BY <2>1, <2>2 DEF Contains
  <2> QED BY <1>3, <2>1, <2>2, <2>4, <2>5, SameOwner
<1> QED BY <1>5, <1>6

LEMMA UnregisterLeaves ==
  ASSUME ConnInv, ConnInv', NEW n \in 1 .. Len(conns), Unregister(n), NEW a \in Addr
  PROVE  IF Owned(a) = conns[n] THEN Owned(a)' # conns[n] ELSE Same(a)
<1> DEFINE c == conns[n]
<1>1. /\ conns' = RemoveAt(conns, n)
      /\ params' = [params EXCEPT ![c] = Blank.params]
      /\ has' = [has EXCEPT ![c] = Blank.has]
      /\ chip' = [chip EXCEPT ![c] = Blank.chip]
  BY DEF Unregister
<1>2. /\ c \in Conn /\ c # Nobody /\ Len(conns) \in Nat
      /\ \A i \in 1 .. Len(conns) : conns[i] \in Conn
  BY BusAssumption, ElementOfSeq DEF ConnInv
<1>3. /\ Len(conns') = Len(conns) - 1
      /\ \A i \in 1 .. Len(conns) - 1 :
           conns'[i] = IF i < n THEN conns[i] ELSE conns[i + 1]
      /\ \A i \in 1 .. Len(conns) - 1 : conns'[i] # c
  <2> DEFINE r == RemoveAt(conns, n)
  <2>1. conns \in Seq(Conn) /\ NoTwice(conns)
    BY DEF ConnInv
  <2> HIDE DEF r
  <2>2. /\ Len(r) = Len(conns) - 1
        /\ \A i \in 1 .. Len(conns) - 1 : r[i] = IF i < n THEN conns[i] ELSE conns[i + 1]
        /\ \A i \in 1 .. Len(conns) - 1 : r[i] # conns[n]
    BY <2>1, RemovedList DEF r
  <2>3. conns' = r
    BY <1>1 DEF r
  <2> QED BY <2>2, <2>3
<1>4. \A d \in Conn : d # c => params'[d] = params[d] /\ has'[d] = has[d] /\ chip'[d] = chip[d]
  BY <1>1 DEF ConnInv
<1> HIDE DEF c
(* Positions before n stay, those behind it move up by one.                 *)
<1>5. \A i \in 1 .. Len(conns) - 1 :
        LET k == IF i < n THEN i ELSE i + 1
        IN  Answering(i, a, "read")' <=> Answering(k, a, "read")
  <2> SUFFICES ASSUME NEW i \in 1 .. Len(conns) - 1, NEW k \in 1 .. Len(conns),
                      k = IF i < n THEN i ELSE i + 1
               PROVE  Answering(i, a, "read")' <=> Answering(k, a, "read")
    BY <1>2
  <2>1. conns'[i] = conns[k] /\ conns[k] # c /\ conns[k] \in Conn
    BY <1>2, <1>3
  <2> QED BY <1>4, <2>1 DEF Answering
<1>6. CASE Owned(a) = c
  <2>1. \A i \in 1 .. Len(conns') : conns'[i] # c
    BY <1>3
  <2>2. Owned(a)' # c
    BY <1>2, <2>1, OwnerCasesNext
  <2> QED BY <1>6, <2>2 DEF c
<1>7. CASE Owned(a) = Nobody
  <2>1. \A i \in 1 .. Len(conns) : ~Answering(i, a, "read")
    BY <1>7, OwnerCases
  <2>2. \A i \in 1 .. Len(conns) - 1 : ~Answering(i, a, "read")'
    <3> SUFFICES ASSUME NEW i \in 1 .. Len(conns) - 1
                 PROVE  ~Answering(i, a, "read")'
      OBVIOUS
    <3>1. (IF i < n THEN i ELSE i + 1) \in 1 .. Len(conns)
      BY <1>2
    <3> QED BY <1>5, <2>1, <3>1
  <2>3. Owned(a)' = Nobody
    <3>1. \A i \in 1 .. Len(conns') : ~Answering(i, a, "read")'
      BY <1>3, <2>2
    <3>2. AnswerIs(a)'
      BY AnswerIsFirstNext DEF ConnInv
    <3> QED BY <3>1, <3>2 DEF AnswerIs
  <2>4. Same(a)
    BY <1>7, <2>3, SameOwner
  <2> QED BY <1>2, <1>7, <2>4 DEF c
<1>8. CASE Owned(a) # c /\ Owned(a) # Nobody
  <2>1. PICK i \in 1 .. Len(conns) : IsFirst(i, a, "read") /\ Owned(a) = conns[i]
    BY <1>8, OwnerCases
  <2> DEFINE j == IF i < n THEN i ELSE i - 1
  <2>2. /\ i # n /\ j \in 1 .. Len(conns) - 1 /\ i = IF j < n THEN j ELSE j + 1
    BY <1>2, <1>8, <2>1 DEF c
  <2>3. Answering(i, a, "read") /\ \A k \in 1 .. i - 1 : ~Answering(k, a, "read")
    BY <2>1 DEF IsFirst
  <2> HIDE DEF j
  <2>4. Answering(j, a, "read")' /\ conns'[j] = Owned(a)
    BY <1>3, <1>5, <2>1, <2>2, <2>3
  <2>5. \A k \in 1 .. j - 1 : ~Answering(k, a, "read")'
    <3> SUFFICES ASSUME NEW k \in 1 .. j - 1
                 PROVE  ~Answering(k, a, "read")'
      OBVIOUS
    <3>1. k \in 1 .. Len(conns) - 1 /\ (IF k < n THEN k ELSE k + 1) \in 1 .. i - 1
      BY <1>2, <2>2
    <3> QED BY <1>5, <2>3, <3>1
  <2>6. j \in 1 .. Len(conns')
    BY <1>3, <2>2
  <2>7. Owned(a)' = Owned(a)
    <3>1. IsFirst(j, a, "read")'
      BY <2>4, <2>5 DEF IsFirst
    <3>2. AnswerIs(a)'
      BY AnswerIsFirstNext DEF ConnInv
    <3> QED BY <2>4, <2>6, <3>1, <3>2 DEF AnswerIs
  <2>8. Contains(conns', Owned(a)) /\ Contains(conns, Owned(a)) /\ Owned(a) \in Conn
    BY <1>2, <2>1, <2>4, <2>6 DEF Contains
  <2>9. Same(a)
    BY <1>4, <1>8, <2>7, <2>8, SameOwner
  <2> QED BY <1>8, <2>9 DEF c
<1> QED BY <1>6, <1>7, <1>8

(* What the flat memory of the refinement is made of.                       *)
Owners == [a \in Addr |-> Owned(a)]
Rams   == {a \in Addr : InRam(a)}
Held   == [a \in Addr |-> Holds(a)]

LEMMA Mapped ==
  /\ Owners = [a \in Addr |-> Answer(a, "read")]
  /\ Rams = {a \in Addr : IsRamOf(Answer(a, "read"), a)}
  /\ Held = [a \in Addr |-> ValueOf(a, "read")]
BY DEF Owners, Rams, Held, Owned, InRam, Holds

LEMMA MappedNext ==
  /\ Owners' = [a \in Addr |-> Answer(a, "read")']
  /\ Rams' = {a \in Addr : IsRamOf(Answer(a, "read"), a)'}
  /\ Held' = [a \in Addr |-> ValueOf(a, "read")']
BY DEF Owners, Rams, Held, Owned, InRam, Holds

LEMMA AllSame ==
  ASSUME \A a \in Addr : Same(a)
  PROVE  Owners' = Owners /\ Rams' = Rams /\ Held' = Held
BY DEF Same, Owners, Rams, Held

LEMMA KeptIsSame ==
  ASSUME ConnInv, ConnInv', UNCHANGED connVars
  PROVE  Owners' = Owners /\ Rams' = Rams /\ Held' = Held
<1>1. \A c \in Conn : SameShape(chip'[c], chip[c])
  BY DEF connVars, ConnInv, SameShape
<1>2. \A a \in Addr : Same(a)
  BY <1>1, SameWhenRead DEF connVars
<1> QED BY <1>2, AllSame

(* A write over the bus is seen at its address, if that is in a RAM which   *)
(* its owner writes to, and nowhere else.                                   *)
LEMMA WriteStores ==
  ASSUME BusInv, BusInv', NEW a \in Addr, NEW v \in Val, bus_write(a, v)
  PROVE  /\ Owners' = Owners /\ Rams' = Rams
         /\ Held' = IF a \in Rams THEN [Held EXCEPT ![a] = v] ELSE Held
<1>1. ConnInv /\ ConnInv'
  BY DEF BusInv
<1>2. chip' = Written(a, v) /\ UNCHANGED <<conns, params, has>>
  BY DEF bus_write
<1>3. \A c \in Conn : SameShape(chip'[c], chip[c]) /\ IsChip(chip[c])
  BY <1>1, <1>2, WrittenShapes DEF ConnInv
<1>4. \A c \in Conn :
        chip'[c] = IF Takes(c, a) THEN mem_bus_write_cb(chip[c], a, v) ELSE chip[c]
  BY <1>2 DEF Written
<1>5. ASSUME NEW b \in Addr, b # a \/ ~InRam(a)
      PROVE  Same(b)
  <2>1. ASSUME Owned(b) \in Conn
        PROVE  mem_bus_read_cb(chip'[Owned(b)], b) = mem_bus_read_cb(chip[Owned(b)], b)
    <3> DEFINE c == Owned(b)
    <3>1. IsChip(chip[c])
      BY <1>3, <2>1
    <3>2. CASE ~Takes(c, a)
      BY <1>4, <2>1, <3>2
    <3>3. CASE Takes(c, a) /\ b # a
      <4>1. chip'[c] = mem_bus_write_cb(chip[c], a, v)
        BY <1>4, <2>1, <3>3
      <4>2. mem_bus_read_cb(mem_bus_write_cb(chip[c], a, v), b) = mem_bus_read_cb(chip[c], b)
        <5> HIDE DEF c
        <5> QED BY <3>1, <3>3, BusWriteIsLocal
      <4> QED BY <4>1, <4>2
    <3>4. CASE Takes(c, a) /\ b = a
      <4>1. ~IsRamOf(c, a)
        BY <1>5, <3>4 DEF InRam
      <4>2. chip[c].rom \/ a \notin chip[c].base .. chip[c].base + chip[c].size - 1
        BY <3>4, <4>1 DEF IsRamOf
      <4>3. chip'[c] = mem_bus_write_cb(chip[c], a, v)
        BY <1>4, <2>1, <3>4
      <4>4. mem_bus_write_cb(chip[c], a, v) = chip[c]
        <5> HIDE DEF c
        <5> QED BY <3>1, <4>2, BusWriteIsRefused
      <4> QED BY <4>3, <4>4
    <3> QED BY <3>2, <3>3, <3>4
  <2> QED BY <1>1, <1>2, <1>3, <2>1, SameWhenRead
<1>6. CASE ~InRam(a)
  <2>1. Owners' = Owners /\ Rams' = Rams /\ Held' = Held
    BY <1>5, <1>6, AllSame
  <2> QED BY <1>6, <2>1 DEF Rams
<1>7. CASE InRam(a)
  <2> DEFINE c == Owned(a)
  <2>1. c \in Conn /\ Owned(a)' = c /\ c # Nobody
    BY <1>1, <1>2, <1>7, OwnerCases, OwnersStay
  <2>2. Takes(c, a) /\ ~chip[c].rom /\ a \in chip[c].base .. chip[c].base + chip[c].size - 1
    BY <1>7 DEF InRam, IsRamOf
  <2>3. Holds(a)' = mem_bus_read_cb(chip'[c], a)
    BY <1>1, <2>1, OwnerCasesNext
  <2>4. mem_bus_read_cb(chip'[c], a) = v
    <3>1. chip'[c] = mem_bus_write_cb(chip[c], a, v) /\ IsChip(chip[c])
      BY <1>3, <1>4, <2>1, <2>2
    <3> HIDE DEF c
    <3> QED BY <2>2, <3>1, BusWriteIsRead
  <2>5. InRam(a)'
    <3>1. SameShape(chip'[c], chip[c])
      BY <1>3, <2>1
    <3> QED BY <1>2, <2>1, <2>2, <3>1 DEF InRam, IsRamOf, Takes, SameShape
  <2>6. \A b \in Addr : Owned(b)' = Owned(b) /\ (InRam(b)' <=> InRam(b))
    BY <1>5, <1>7, <2>1, <2>5 DEF Same
  <2>7. \A b \in Addr : Holds(b)' = IF b = a THEN v ELSE Holds(b)
    BY <1>5, <2>3, <2>4 DEF Same
  <2>8. Held' = [Held EXCEPT ![a] = v]
    BY <2>7 DEF Held
  <2>9. Owners' = Owners /\ Rams' = Rams
    BY <2>6 DEF Owners, Rams
  <2> QED BY <1>7, <2>8, <2>9 DEF Rams
<1> QED BY <1>6, <1>7

(* Each step of the dispatch is one of the flat memory, or leaves it alone. *)
LEMMA LoadsSpace ==
  ASSUME NEW a \in Addr, UNCHANGED connVars, ConnInv, ConnInv', did'.val = Holds(a)
  PROVE  Space!Load(a)
<1>1. Owners' = Owners /\ Rams' = Rams /\ Held' = Held
  BY KeptIsSame
<1>2. did'.val = Held[a]
  BY DEF Held
<1> QED BY <1>1, <1>2, Mapped, MappedNext DEF Space!Load

LEMMA StoresSpace ==
  ASSUME BusInv, BusInv', NEW a \in Addr, NEW v \in Val, bus_write(a, v), did'.val = v
  PROVE  Space!Store(a, v)
<1>1. /\ Owners' = Owners /\ Rams' = Rams
      /\ Held' = IF a \in Rams THEN [Held EXCEPT ![a] = v] ELSE Held
  BY WriteStores
<1> QED BY <1>1, Mapped, MappedNext DEF Space!Store

LEMMA LeavesSpace ==
  ASSUME ConnInv, ConnInv', UNCHANGED connVars, did' = did
  PROVE  UNCHANGED Space!spaceVars
<1>1. Owners' = Owners /\ Rams' = Rams /\ Held' = Held
  BY KeptIsSame
<1> QED BY <1>1, Mapped, MappedNext DEF Space!spaceVars

LEMMA AttachesSpace ==
  ASSUME ConnInv, ConnInv', NEW c \in Conn, NEW p \in Decoders, NEW h \in Handlers,
         NEW k \in Chips, Register(c, p, h, k)
  PROVE  Space!Attach(c)
<1>1. did' = did
  BY DEF Register
<1>2. \A a \in Addr : Same(a) \/ (Owned(a) = Nobody /\ Owned(a)' = c)
  BY RegisterOwns
<1>3. \A a \in Addr : \/ /\ Owners'[a] = Owners[a] /\ Held'[a] = Held[a]
                         /\ a \in Rams' <=> a \in Rams
                      \/ Owners[a] = Nobody /\ Owners'[a] = c
  BY <1>2 DEF Same, Owners, Held, Rams
<1> QED BY <1>1, <1>3, Mapped, MappedNext DEF Space!Attach, Space!Stays

LEMMA DetachesSpace ==
  ASSUME ConnInv, ConnInv', NEW n \in 1 .. Len(conns), Unregister(n)
  PROVE  Space!Detach(conns[n])
<1>1. did' = did
  BY DEF Unregister
<1>2. \A a \in Addr : IF Owned(a) = conns[n] THEN Owned(a)' # conns[n] ELSE Same(a)
  BY UnregisterLeaves
<1>3. \A a \in Addr : IF Owners[a] = conns[n] THEN Owners'[a] # conns[n]
                      ELSE /\ Owners'[a] = Owners[a] /\ Held'[a] = Held[a]
                           /\ a \in Rams' <=> a \in Rams
  BY <1>2 DEF Same, Owners, Held, Rams
<1> QED BY <1>1, <1>3, Mapped, MappedNext DEF Space!Detach, Space!Stays

LEMMA ChangesSpace ==
  ASSUME ConnInv, ConnInv', NEW c \in Conn, NEW m, SameShape(m, chip[c]), PutDirectly(c, m)
  PROVE  Space!Change(c)
<1>1. chip' = [chip EXCEPT ![c] = m] /\ UNCHANGED <<conns, params, has, did>>
  BY DEF PutDirectly
<1>2. \A d \in Conn : SameShape(chip'[d], chip[d]) /\ (d # c => chip'[d] = chip[d])
  BY <1>1 DEF ConnInv, SameShape
<1>3. \A a \in Addr : Owned(a)' = Owned(a)
  BY <1>1, OwnersStay
<1>4. ASSUME NEW a \in Addr, Owned(a) # c
      PROVE  Same(a)
  <2>1. Owned(a) \in Conn => chip'[Owned(a)] = chip[Owned(a)]
    BY <1>2, <1>4
  <2>2. Owned(a) \in Conn =>
          mem_bus_read_cb(chip'[Owned(a)], a) = mem_bus_read_cb(chip[Owned(a)], a)
    BY <2>1
  <2>3. \A d \in Conn : SameShape(chip'[d], chip[d])
    BY <1>2
  <2> QED BY <1>1, <2>2, <2>3, SameWhenRead
<1>5. ASSUME NEW a \in Addr, Owned(a) = c
      PROVE  InRam(a)' <=> InRam(a)
  <2>1. Owned(a)' = c
    BY <1>3, <1>5
  <2>2. /\ chip'[c].rom = chip[c].rom /\ chip'[c].base = chip[c].base
        /\ chip'[c].size = chip[c].size
    BY <1>2 DEF SameShape
  <2>3. IsRamOf(c, a)' <=> IsRamOf(c, a)
    BY <1>1, <2>2 DEF IsRamOf, Takes
  <2> QED BY <1>5, <2>1, <2>3 DEF InRam, IsRamOf, Takes
<1>6. Owners' = Owners /\ Rams' = Rams
  BY <1>3, <1>4, <1>5 DEF Same, Owners, Rams
<1>7. \A a \in Addr : Owners[a] # c => Held'[a] = Held[a]
  BY <1>4 DEF Same, Owners, Held
<1> QED BY <1>1, <1>6, <1>7, Mapped, MappedNext DEF Space!Change

LEMMA InitIsSpace == Init => Space!SpaceInit
<1> SUFFICES ASSUME Init PROVE Space!SpaceInit
  OBVIOUS
<1>1. ConnInv
  BY InitInv DEF BusInv
<1>2. \A i \in 1 .. Len(conns) : FALSE
  BY DEF Init
<1>3. \A a \in Addr : Owned(a) = Nobody /\ Holds(a) = Open /\ ~InRam(a)
  BY <1>1, <1>2, OwnerCases
<1>4. /\ Owners = [a \in Addr |-> Nobody] /\ Rams = {} /\ Held = [a \in Addr |-> Open]
  BY <1>3 DEF Owners, Rams, Held
<1>5. did.val = Open
  BY DEF Init, NoOp, Op
<1> QED BY <1>4, <1>5, Mapped DEF Space!SpaceInit

LEMMA StepIsSpace ==
  BusInv /\ BusInv' /\ [Next]_busVars => [Space!SpaceNext]_(Space!spaceVars)
<1> SUFFICES ASSUME BusInv, BusInv', [Next]_busVars
             PROVE  Space!SpaceNext \/ UNCHANGED Space!spaceVars
  OBVIOUS
<1>1. ConnInv /\ ConnInv'
  BY DEF BusInv
<1>2. ASSUME NEW c \in Conn, NEW p \in Decoders, NEW h \in Handlers, NEW k \in Chips,
             Register(c, p, h, k)
      PROVE  Space!SpaceNext
  BY <1>1, <1>2, AttachesSpace DEF Space!SpaceNext
<1>3. ASSUME NEW c \in Conn, LoadData(c) \/ WriteChip(c)
      PROVE  Space!SpaceNext
  <2>1. PICK m : SameShape(m, chip[c]) /\ PutDirectly(c, m)
    BY <1>1, <1>3, DirectPuts
  <2>2. Space!Change(c)
    BY <1>1, <2>1, ChangesSpace
  <2> QED BY <2>2 DEF Space!SpaceNext
<1>4. ASSUME NEW n \in 1 .. Len(conns), Unregister(n)
      PROVE  Space!SpaceNext
  <2>1. conns[n] \in Conn
    BY <1>1, ElementOfSeq DEF ConnInv
  <2>2. Space!Detach(conns[n])
    BY <1>1, <1>4, DetachesSpace
  <2> QED BY <2>1, <2>2 DEF Space!SpaceNext
<1>5. ASSUME UNCHANGED connVars, did' = did
      PROVE  UNCHANGED Space!spaceVars
  BY <1>1, <1>5, LeavesSpace
<1>6. ASSUME NEW t \in Tracer, AddTracer(t)
      PROVE  UNCHANGED Space!spaceVars
  BY <1>5, <1>6 DEF AddTracer
<1>7. ASSUME NEW n \in 1 .. Len(tracers), RemoveTracer(n)
      PROVE  UNCHANGED Space!spaceVars
  BY <1>5, <1>7 DEF RemoveTracer
<1>8. ASSUME NEW a \in Addr, Peek(a)
      PROVE  UNCHANGED Space!spaceVars
  BY <1>5, <1>8 DEF Peek, bus_read_peek_i, Commits
<1>9. CASE UNCHANGED busVars
  BY <1>5, <1>9 DEF busVars
<1>10. ASSUME NEW a \in Addr, NEW sync \in BOOLEAN, bus_read_peek_i(a, FALSE, sync),
             did' = Op(FALSE, a, ValueOf(a, "read"), sync)
      PROVE  Space!SpaceNext
  <2>1. UNCHANGED connVars
    BY <1>10, ReadStep DEF connVars
  <2>2. did'.val = Holds(a)
    BY <1>10 DEF Op, Holds
  <2>3. Space!Load(a)
    BY <1>1, <2>1, <2>2, LoadsSpace
  <2> QED BY <2>3 DEF Space!SpaceNext
<1>11. ASSUME NEW a \in Addr, NEW v \in Val, bus_write(a, v),
              did' = Op(TRUE, a, v, FALSE)
       PROVE  Space!SpaceNext
  <2>1. did'.val = v
    BY <1>11 DEF Op
  <2>2. Space!Store(a, v)
    BY <1>11, <2>1, StoresSpace
  <2> QED BY <2>2 DEF Space!SpaceNext
<1>12. ASSUME NEW a \in Addr, NEW sync \in BOOLEAN, Read(a, sync)
       PROVE  Space!SpaceNext
  BY <1>10, <1>12 DEF Read
<1>13. ASSUME NEW a \in Addr, NEW v \in Val, Write(a, v)
       PROVE  Space!SpaceNext
  BY <1>11, <1>13 DEF Write
<1>14. CASE Replay
  <2>1. lastop.addr \in Addr /\ lastop.sync \in BOOLEAN /\ (lastop.write => lastop.val \in Val)
    BY DEF BusInv, OpInv, Operation
  <2> QED BY <1>10, <1>11, <1>14, <2>1 DEF Replay
<1> QED BY <1>2, <1>3, <1>4, <1>6, <1>7, <1>8, <1>9, <1>12, <1>13, <1>14 DEF Next

(* Whatever overlaps, mirrors or shadows there are and whichever            *)
(* connections come and go, the dispatch of the bus is one flat memory:     *)
(* an address stays with the connection that had it first, reads return     *)
(* what was last stored, and no access to one address is seen at another.   *)
THEOREM BusIsFlatMemory == Spec => ImplementsAddressSpace
BY BusAlwaysConsistent, InitIsSpace, StepIsSpace, PTL
   DEF Spec, ImplementsAddressSpace, Space!SpaceSpec

-----------------------------------------------------------------------------
(* Any order of calls: voters are neither lost nor shared.                  *)

SignalInv == SignalTypeOK /\ VotersExclusive

(* The lowest free voter exists where any is free; only its being a voter   *)
(* and free matters.                                                       *)
LEMMA FreeVoters == Free \subseteq Voter /\ Free \cap allocated = {}
BY DEF Free

(* The initial state: nothing is allocated.                                 *)
LEMMA InvInit == SignalInit => SignalInv
<1> SUFFICES ASSUME SignalInit PROVE SignalInv
  OBVIOUS
<1>1. allocated = {} /\ \A c \in Client : handle[c] = Invalid
  BY DEF SignalInit
<1>2. VotersExclusive
  BY <1>1 DEF VotersExclusive
<1>3. /\ votes \in [Signal -> SUBSET Voter] /\ left \in [Signal -> SUBSET Voter]
      /\ handle \in [Client -> Voter \cup {Invalid}] /\ asked \in [Client -> SUBSET Signal]
  BY DEF SignalInit
<1>4. allocated \subseteq Voter /\ edgePending \in BOOLEAN
  BY DEF SignalInit
<1> QED BY <1>2, <1>3, <1>4 DEF SignalInv, SignalTypeOK

(* A registration hands out a voter nobody holds, or changes nothing.       *)
LEMMA Registers ==
  ASSUME SignalInv, NEW c \in Client, RegisterSigVoter(c)
  PROVE  /\ handle[c] = Invalid
         /\ UNCHANGED <<votes, edgePending, asked, left>>
         /\ \/ UNCHANGED <<allocated, handle>>
            \/ \E v \in Free : /\ v \in Voter /\ v # Invalid
                               /\ \A d \in Client : handle[d] # v
                               /\ allocated' = allocated \cup {v}
                               /\ handle' = [handle EXCEPT ![c] = v]
<1>1. ASSUME NEW v \in Free PROVE v \in Voter /\ v # Invalid /\ \A d \in Client : handle[d] # v
  <2>1. v \in Voter /\ v \notin allocated /\ v # Invalid
    BY FreeVoters, SignalAssumption
  <2> QED BY <2>1 DEF SignalInv, VotersExclusive
<1> QED BY <1>1 DEF RegisterSigVoter

LEMMA InvRegister ==
  ASSUME SignalInv, NEW c \in Client, RegisterSigVoter(c)
  PROVE  SignalInv'
<1>1. CASE UNCHANGED <<allocated, handle>>
  BY <1>1, Registers DEF SignalInv, SignalTypeOK, VotersExclusive
<1>2. CASE ~UNCHANGED <<allocated, handle>>
  <2>1. PICK v \in Free : /\ v \in Voter /\ v # Invalid
                          /\ \A d \in Client : handle[d] # v
                          /\ allocated' = allocated \cup {v}
                          /\ handle' = [handle EXCEPT ![c] = v]
    BY <1>2, Registers
  <2>2. handle \in [Client -> Voter \cup {Invalid}] /\ handle[c] = Invalid
    BY Registers DEF SignalInv, SignalTypeOK
  <2>3. handle'[c] = v /\ \A d \in Client : d # c => handle'[d] = handle[d]
    BY <2>1, <2>2
  <2>4. SignalTypeOK'
    <3>1. allocated' \subseteq Voter
      BY <2>1 DEF SignalInv, SignalTypeOK
    <3>2. handle' \in [Client -> Voter \cup {Invalid}]
      BY <2>1, <2>2
    <3> QED BY <3>1, <3>2, Registers DEF SignalInv, SignalTypeOK
  <2>5. allocated' = {handle'[d] : d \in Client} \ {Invalid}
    BY <2>1, <2>2, <2>3 DEF SignalInv, VotersExclusive
  <2>6. \A d, e \in Client : handle'[d] = handle'[e] => d = e \/ handle'[d] = Invalid
    BY <2>1, <2>3 DEF SignalInv, VotersExclusive
  <2> QED BY <2>4, <2>5, <2>6 DEF SignalInv, VotersExclusive
<1> QED BY <1>1, <1>2

(* A device that gives its voter back is the only one that held it.         *)
LEMMA Unregisters ==
  ASSUME SignalInv, NEW c \in Client, UnregisterSigVoter(c)
  PROVE  /\ handle[c] \in Voter /\ handle[c] # Invalid
         /\ handle'[c] = Invalid
         /\ \A d \in Client : d # c => handle'[d] = handle[d] /\ handle[d] # handle[c]
         /\ asked'[c] = {}
         /\ \A d \in Client : d # c => asked'[d] = asked[d]
<1>1. /\ handle \in [Client -> Voter \cup {Invalid}] /\ handle[c] # Invalid
      /\ handle' = [handle EXCEPT ![c] = Invalid]
      /\ asked \in [Client -> SUBSET Signal] /\ asked' = [asked EXCEPT ![c] = {}]
  BY DEF SignalInv, SignalTypeOK, UnregisterSigVoter
<1>2. \A d \in Client : d # c => handle[d] # handle[c]
  BY <1>1 DEF SignalInv, VotersExclusive
<1> QED BY <1>1, <1>2

LEMMA InvUnregister ==
  ASSUME SignalInv, NEW c \in Client, UnregisterSigVoter(c)
  PROVE  SignalInv'
<1>1. /\ allocated' = allocated \ {handle[c]}
      /\ handle' = [handle EXCEPT ![c] = Invalid]
      /\ handle \in [Client -> Voter \cup {Invalid}]
  BY DEF UnregisterSigVoter, SignalInv, SignalTypeOK
<1>2. SignalTypeOK'
  <2>1. asked' \in [Client -> SUBSET Signal]
    BY DEF UnregisterSigVoter, SignalInv, SignalTypeOK
  <2>2. left' \in [Signal -> SUBSET Voter]
    <3>1. \A s \in Signal : left[s] \cup LeftBy(c, s) \in SUBSET Voter
      BY Unregisters DEF LeftBy, SignalInv, SignalTypeOK
    <3> QED BY <3>1 DEF UnregisterSigVoter
  <2> QED BY <1>1, <2>1, <2>2 DEF SignalInv, SignalTypeOK, UnregisterSigVoter
<1>3. allocated' = {handle'[d] : d \in Client} \ {Invalid}
  BY <1>1, Unregisters DEF SignalInv, VotersExclusive
<1>4. \A d, e \in Client : handle'[d] = handle'[e] => d = e \/ handle'[d] = Invalid
  BY Unregisters DEF SignalInv, VotersExclusive
<1> QED BY <1>2, <1>3, <1>4 DEF SignalInv, VotersExclusive

(* The vote of a device sets or clears the bit of a voter.                  *)
LEMMA Votes ==
  ASSUME SignalInv, NEW c \in Client, NEW s \in Signal, NEW voted \in BOOLEAN,
         SigVote(c, s, voted)
  PROVE  /\ handle[c] \in Voter /\ handle[c] # Invalid
         /\ handle' = handle /\ allocated' = allocated
         /\ \A d \in Client : d # c => handle[d] # handle[c]
         /\ votes' \in [Signal -> SUBSET Voter]
         /\ votes'[s] = MaskAfter(votes[s], handle[c], voted)
         /\ left' \in [Signal -> SUBSET Voter] /\ left'[s] = left[s] \ {handle[c]}
         /\ \A t \in Signal : t # s => votes'[t] = votes[t] /\ left'[t] = left[t]
         /\ asked' \in [Client -> SUBSET Signal]
         /\ s \in asked'[c] <=> voted
         /\ \A t \in Signal, d \in Client :
              t # s \/ d # c => (t \in asked'[d] <=> t \in asked[d])
<1>1. /\ votes \in [Signal -> SUBSET Voter] /\ left \in [Signal -> SUBSET Voter]
      /\ asked \in [Client -> SUBSET Signal] /\ handle[c] \in Voter
  BY DEF SignalInv, SignalTypeOK, SigVote
<1>2. MaskAfter(votes[s], handle[c], voted) \in SUBSET Voter
  BY <1>1 DEF MaskAfter
<1>3. votes' = [votes EXCEPT ![s] = MaskAfter(votes[s], handle[c], voted)]
  BY DEF SigVote
<1>4. /\ votes' \in [Signal -> SUBSET Voter]
      /\ votes'[s] = MaskAfter(votes[s], handle[c], voted)
      /\ \A t \in Signal : t # s => votes'[t] = votes[t]
  BY <1>1, <1>2, <1>3
<1>5. /\ left' \in [Signal -> SUBSET Voter] /\ left'[s] = left[s] \ {handle[c]}
      /\ \A t \in Signal : t # s => left'[t] = left[t]
  BY <1>1 DEF SigVote
<1>6. asked' = [asked EXCEPT ![c] = IF voted THEN asked[c] \cup {s} ELSE asked[c] \ {s}]
  BY DEF SigVote
<1>7. /\ asked' \in [Client -> SUBSET Signal]
      /\ asked'[c] = IF voted THEN asked[c] \cup {s} ELSE asked[c] \ {s}
      /\ \A d \in Client : d # c => asked'[d] = asked[d]
  BY <1>1, <1>6
<1>8. /\ s \in asked'[c] <=> voted
      /\ \A t \in Signal, d \in Client :
           t # s \/ d # c => (t \in asked'[d] <=> t \in asked[d])
  BY <1>7
<1>9. handle[c] # Invalid /\ handle' = handle /\ allocated' = allocated
  BY DEF SigVote
<1>10. \A d \in Client : d # c => handle[d] # handle[c]
  BY <1>9 DEF SignalInv, VotersExclusive
<1> QED BY <1>1, <1>4, <1>5, <1>7, <1>8, <1>9, <1>10

LEMMA InvVote ==
  ASSUME SignalInv, NEW c \in Client, NEW s \in Signal, NEW voted \in BOOLEAN,
         SigVote(c, s, voted)
  PROVE  SignalInv'
<1>1. SignalTypeOK'
  <2>1. edgePending' \in BOOLEAN
    BY Zenon DEF SignalInv, SignalTypeOK, SigVote, IsFirstNmiVote
  <2>2. /\ votes' \in [Signal -> SUBSET Voter] /\ left' \in [Signal -> SUBSET Voter]
        /\ asked' \in [Client -> SUBSET Signal] /\ handle' = handle /\ allocated' = allocated
    BY Votes
  <2> QED BY <2>1, <2>2 DEF SignalInv, SignalTypeOK
<1>2. VotersExclusive'
  BY DEF SignalInv, VotersExclusive, SigVote
<1> QED BY <1>1, <1>2 DEF SignalInv

LEMMA InvTakeNmi == SignalInv /\ (TakeNmi \/ UNCHANGED signalVars) => SignalInv'
BY DEF SignalInv, SignalTypeOK, VotersExclusive, TakeNmi, signalVars

LEMMA InvNext == SignalInv /\ [SignalNext]_signalVars => SignalInv'
<1> SUFFICES ASSUME SignalInv, [SignalNext]_signalVars PROVE SignalInv'
  OBVIOUS
<1>1. CASE \E c \in Client : RegisterSigVoter(c)
  BY <1>1, InvRegister
<1>2. CASE \E c \in Client : UnregisterSigVoter(c)
  BY <1>2, InvUnregister
<1>3. CASE Vote
  BY <1>3, InvVote DEF Vote
<1>4. CASE TakeNmi \/ UNCHANGED signalVars
  BY <1>4, InvTakeNmi
<1> QED BY <1>1, <1>2, <1>3, <1>4 DEF SignalNext

(* Whatever the devices do with emu_bus_register_sig_voter, _unregister_     *)
(* sig_voter and sig_vote, each variable keeps its type.                    *)
THEOREM SignalsTypeCorrect == SignalSpec => []SignalTypeOK
<1>1. SignalInv => SignalTypeOK
  BY DEF SignalInv
<1> QED BY <1>1, InvInit, InvNext, PTL DEF SignalSpec

(* The bits of allocated are the voters of the devices, however many        *)
(* devices come and go, in any order, and however many voters there are.   *)
THEOREM VotersStayExclusive == SignalSpec => []VotersExclusive
<1>1. SignalInv => VotersExclusive
  BY DEF SignalInv
<1> QED BY <1>1, InvInit, InvNext, PTL DEF SignalSpec

-----------------------------------------------------------------------------
(* What is in the masks.  As no two devices share a voter, the vote of one  *)
(* neither hides nor drops that of another; a device that comes has asked  *)
(* for nothing, and one that goes leaves what it has asked for.            *)

MasksInv == SignalInv /\ MasksAreAccountedFor

LEMMA MasksInit == SignalInit => MasksInv
<1>1. SignalInit => MasksAreAccountedFor
  BY DEF SignalInit, MasksAreAccountedFor, Askers
<1> QED BY <1>1, InvInit DEF MasksInv

LEMMA MasksRegister ==
  ASSUME MasksInv, NEW c \in Client, RegisterSigVoter(c)
  PROVE  MasksAreAccountedFor'
<1> SUFFICES ASSUME NEW s \in Signal
             PROVE  /\ votes'[s] = {handle'[d] : d \in Askers(s)'} \cup left'[s]
                    /\ \A d \in Askers(s)' : handle'[d] \in Voter \ left'[s]
  BY DEF MasksAreAccountedFor
<1>1. SignalInv
  BY DEF MasksInv
<1>2. UNCHANGED <<votes, asked, left>> /\ handle[c] = Invalid
  BY <1>1, Registers
<1>3. /\ votes[s] = {handle[d] : d \in Askers(s)} \cup left[s]
      /\ \A d \in Askers(s) : handle[d] \in Voter \ left[s]
  BY DEF MasksInv, MasksAreAccountedFor
<1>4. Askers(s)' = Askers(s) /\ Askers(s) \subseteq Client
  BY <1>2 DEF Askers
<1>5. c \notin Askers(s)
  BY <1>2, <1>3, SignalAssumption
<1>6. \A d \in Client : d # c => handle'[d] = handle[d]
  BY <1>1, Registers DEF SignalInv, SignalTypeOK
<1>7. \A d \in Askers(s) : handle'[d] = handle[d]
  BY <1>4, <1>5, <1>6
<1> QED BY <1>2, <1>3, <1>4, <1>7

LEMMA MasksUnregister ==
  ASSUME MasksInv, NEW c \in Client, UnregisterSigVoter(c)
  PROVE  MasksAreAccountedFor'
<1> SUFFICES ASSUME NEW s \in Signal
             PROVE  /\ votes'[s] = {handle'[d] : d \in Askers(s)'} \cup left'[s]
                    /\ \A d \in Askers(s)' : handle'[d] \in Voter \ left'[s]
  BY DEF MasksAreAccountedFor
<1>1. SignalInv
  BY DEF MasksInv
<1>2. /\ handle'[c] = Invalid /\ asked'[c] = {}
      /\ \A d \in Client : d # c => /\ handle'[d] = handle[d] /\ handle[d] # handle[c]
                                    /\ asked'[d] = asked[d]
  BY <1>1, Unregisters
<1>3. votes' = votes /\ left'[s] = left[s] \cup LeftBy(c, s)
  BY DEF UnregisterSigVoter
<1>4. /\ votes[s] = {handle[d] : d \in Askers(s)} \cup left[s]
      /\ \A d \in Askers(s) : handle[d] \in Voter \ left[s]
  BY DEF MasksInv, MasksAreAccountedFor
<1>5. Askers(s)' = Askers(s) \ {c} /\ Askers(s) \subseteq Client
  BY <1>2 DEF Askers
<1>6. \A d \in Askers(s)' : handle'[d] = handle[d] /\ handle[d] # handle[c] /\ d \in Askers(s)
  BY <1>2, <1>5
<1>7. {handle'[d] : d \in Askers(s)'} = {handle[d] : d \in Askers(s) \ {c}}
  BY <1>5, <1>6
<1>8. LeftBy(c, s) = IF c \in Askers(s) THEN {handle[c]} ELSE {}
  BY DEF LeftBy, Askers
<1>9. votes'[s] = {handle'[d] : d \in Askers(s)'} \cup left'[s]
  <2>1. {handle[d] : d \in Askers(s)} = {handle[d] : d \in Askers(s) \ {c}} \cup LeftBy(c, s)
    BY <1>8
  <2> QED BY <1>3, <1>4, <1>7, <2>1
<1>10. \A d \in Askers(s)' : handle'[d] \in Voter \ left'[s]
  BY <1>3, <1>4, <1>6, <1>8
<1> QED BY <1>9, <1>10

LEMMA MasksVote ==
  ASSUME MasksInv, NEW c \in Client, NEW s \in Signal, NEW voted \in BOOLEAN,
         SigVote(c, s, voted)
  PROVE  MasksAreAccountedFor'
<1>1. SignalInv
  BY DEF MasksInv
<1>2. \A t \in Signal : /\ votes[t] = {handle[d] : d \in Askers(t)} \cup left[t]
                        /\ \A d \in Askers(t) : handle[d] \in Voter \ left[t]
  BY DEF MasksInv, MasksAreAccountedFor
<1>3. /\ handle[c] \in Voter /\ handle' = handle
      /\ \A d \in Client : d # c => handle[d] # handle[c]
      /\ votes'[s] = MaskAfter(votes[s], handle[c], voted)
      /\ left'[s] = left[s] \ {handle[c]}
      /\ \A t \in Signal : t # s => votes'[t] = votes[t] /\ left'[t] = left[t]
      /\ s \in asked'[c] <=> voted
      /\ \A t \in Signal, d \in Client : t # s \/ d # c => (t \in asked'[d] <=> t \in asked[d])
  BY <1>1, Votes
<1>4. ASSUME NEW t \in Signal, t # s
      PROVE  /\ votes'[t] = {handle'[d] : d \in Askers(t)'} \cup left'[t]
             /\ \A d \in Askers(t)' : handle'[d] \in Voter \ left'[t]
  <2>1. Askers(t)' = Askers(t)
    BY <1>3, <1>4 DEF Askers
  <2> QED BY <1>2, <1>3, <1>4, <2>1
<1>5. Askers(s) \subseteq Client
  BY DEF Askers
<1>6. Askers(s)' = IF voted THEN Askers(s) \cup {c} ELSE Askers(s) \ {c}
  BY <1>3 DEF Askers
<1>7. votes'[s] = {handle'[d] : d \in Askers(s)'} \cup left'[s]
  <2>1. CASE voted
    <3>1. votes'[s] = votes[s] \cup {handle[c]}
      BY <1>3, <2>1 DEF MaskAfter
    <3>2. ASSUME NEW w PROVE w \in votes'[s] <=> w \in {handle[d] : d \in Askers(s) \cup {c}} \cup left'[s]
      BY <1>2, <1>3, <3>1
    <3> QED BY <1>3, <1>6, <2>1, <3>2
  <2>2. CASE ~voted
    <3>1. votes'[s] = votes[s] \ {handle[c]}
      BY <1>3, <2>2 DEF MaskAfter
    <3>2. {handle[d] : d \in Askers(s) \ {c}} = {handle[d] : d \in Askers(s)} \ {handle[c]}
      BY <1>3, <1>5
    <3> QED BY <1>2, <1>3, <1>6, <2>2, <3>1, <3>2
  <2> QED BY <2>1, <2>2
<1>8. \A d \in Askers(s)' : handle'[d] \in Voter \ left'[s]
  BY <1>2, <1>3, <1>5, <1>6
<1> QED BY <1>4, <1>7, <1>8 DEF MasksAreAccountedFor

LEMMA MasksNext == MasksInv /\ [SignalNext]_signalVars => MasksInv'
<1> SUFFICES ASSUME MasksInv, [SignalNext]_signalVars PROVE MasksAreAccountedFor'
  BY InvNext DEF MasksInv
<1>1. CASE \E c \in Client : RegisterSigVoter(c)
  BY <1>1, MasksRegister
<1>2. CASE \E c \in Client : UnregisterSigVoter(c)
  BY <1>2, MasksUnregister
<1>3. CASE Vote
  BY <1>3, MasksVote DEF Vote
<1>4. CASE TakeNmi \/ UNCHANGED signalVars
  <2>1. UNCHANGED <<votes, handle, asked, left>>
    BY <1>4 DEF TakeNmi, signalVars
  <2> QED BY <2>1 DEF MasksInv, MasksAreAccountedFor, Askers
<1> QED BY <1>1, <1>2, <1>3, <1>4 DEF SignalNext

(* Whatever devices do, and also when they go away while they vote: a line  *)
(* is asserted because a device asks for it or because one has left its    *)
(* vote there, and for no other reason.                                    *)
THEOREM LinesAreAccountedFor == SignalSpec => []MasksAreAccountedFor
<1>1. MasksInv => MasksAreAccountedFor
  BY DEF MasksInv
<1> QED BY <1>1, MasksInit, MasksNext, PTL DEF SignalSpec

-----------------------------------------------------------------------------
(* The masks implement the lines of WiredOr.                                *)

Pulls == [s \in Signal |-> {c \in Client : handle[c] \in votes[s] \ left[s]}]

PullsAreAsked == \A s \in Signal : Pulls[s] = Askers(s)

(* Who pulls on a line, by its mask, are those who have asked for it.       *)
LEMMA PullersAsk == MasksInv => PullsAreAsked
<1> SUFFICES ASSUME MasksInv, NEW s \in Signal
             PROVE  {c \in Client : handle[c] \in votes[s] \ left[s]} = Askers(s)
  BY DEF Pulls, PullsAreAsked
<1>1. /\ votes[s] = {handle[d] : d \in Askers(s)} \cup left[s]
      /\ \A d \in Askers(s) : handle[d] \in Voter \ left[s]
      /\ Askers(s) \subseteq Client
  BY DEF MasksInv, MasksAreAccountedFor, Askers
<1>2. ASSUME NEW c \in Client, handle[c] \in votes[s] \ left[s] PROVE c \in Askers(s)
  <2>1. PICK d \in Askers(s) : handle[c] = handle[d]
    BY <1>1, <1>2
  <2>2. handle[d] # Invalid
    BY <1>1, SignalAssumption
  <2>3. c = d
    BY <1>1, <2>1, <2>2 DEF MasksInv, SignalInv, VotersExclusive
  <2> QED BY <2>3
<1> QED BY <1>1, <1>2

LEMMA AssertedIs ==
  ASSUME MasksInv, NEW s \in Signal
  PROVE  Wired!Asserted(s) <=> votes[s] # {}
<1>1. Wired!Asserted(s) <=> Pulls[s] # {} \/ left[s] # {}
  BY DEF Wired!Asserted, Pulls
<1>2. Pulls[s] = Askers(s) /\ votes[s] = {handle[d] : d \in Askers(s)} \cup left[s]
  BY PullersAsk DEF MasksInv, MasksAreAccountedFor, PullsAreAsked
<1> QED BY <1>1, <1>2

(* A registration plugs the device into its voter, where it pulls on no     *)
(* line.                                                                   *)
LEMMA RegisterConnects ==
  ASSUME MasksInv, PullsAreAsked, PullsAreAsked', NEW c \in Client, RegisterSigVoter(c)
  PROVE  [Wired!WiredNext]_(Wired!wiredVars)
<1>1. SignalInv
  BY DEF MasksInv
<1>2. UNCHANGED <<votes, edgePending, asked, left>> /\ handle[c] = Invalid
  BY <1>1, Registers
<1>3. Pulls' = Pulls
  <2>1. \A s \in Signal : Askers(s)' = Askers(s)
    BY <1>2 DEF Askers
  <2>2. \A s \in Signal : Pulls[s] = Askers(s) /\ Pulls'[s] = Askers(s)'
    BY DEF PullsAreAsked
  <2> QED BY <2>1, <2>2 DEF Pulls
<1>4. CASE UNCHANGED <<allocated, handle>>
  BY <1>2, <1>3, <1>4 DEF Wired!wiredVars, Pulls
<1>5. CASE ~UNCHANGED <<allocated, handle>>
  <2>1. PICK v \in Free : /\ v \in Voter /\ \A d \in Client : handle[d] # v
                          /\ handle' = [handle EXCEPT ![c] = v]
    BY <1>1, <1>5, Registers
  <2>2. Wired!Connect(c, v)
    BY <1>2, <1>3, <2>1 DEF Wired!Connect, Pulls
  <2> QED BY <2>1, <2>2 DEF Wired!WiredNext
<1> QED BY <1>4, <1>5

(* A device that goes leaves what it has pulled on.                         *)
LEMMA UnregisterDisconnects ==
  ASSUME MasksInv, PullsAreAsked, PullsAreAsked', NEW c \in Client, UnregisterSigVoter(c)
  PROVE  Wired!Disconnect(c)
<1>1. SignalInv
  BY DEF MasksInv
<1>2. /\ handle[c] # Invalid /\ asked'[c] = {}
      /\ \A d \in Client : d # c => asked'[d] = asked[d]
  BY <1>1, Unregisters
<1>3. \A s \in Signal : Pulls[s] = Askers(s) /\ Pulls'[s] = Askers(s)'
  BY DEF PullsAreAsked
<1>4. \A s \in Signal : Askers(s)' = Askers(s) \ {c} /\ (s \in asked[c] <=> c \in Askers(s))
  BY <1>2 DEF Askers
<1>5. Pulls' = [s \in Signal |-> Pulls[s] \ {c}]
  BY <1>3, <1>4 DEF Pulls
<1>6. \A s \in Signal : LeftBy(c, s) = IF c \in Pulls[s] THEN {handle[c]} ELSE {}
  BY <1>3, <1>4 DEF LeftBy
<1>7. left' = [s \in Signal |-> left[s] \cup (IF c \in Pulls[s] THEN {handle[c]} ELSE {})]
  BY <1>6 DEF UnregisterSigVoter
<1>8. handle' = [handle EXCEPT ![c] = Invalid] /\ edgePending' = edgePending
  BY DEF UnregisterSigVoter
<1> QED BY <1>2, <1>5, <1>7, <1>8 DEF Wired!Disconnect, Pulls

(* A vote drives one line, as no other device has the same bit; the mask of *)
(* NMI is empty exactly when the line is not asserted.                     *)
LEMMA VoteDrives ==
  ASSUME MasksInv, PullsAreAsked, PullsAreAsked', NEW c \in Client, NEW s \in Signal, NEW voted \in BOOLEAN,
         SigVote(c, s, voted)
  PROVE  Wired!Drive(c, s)
<1>1. SignalInv
  BY DEF MasksInv
<1>2. /\ handle[c] # Invalid /\ handle' = handle
      /\ s \in asked'[c] <=> voted
      /\ \A t \in Signal, d \in Client : t # s \/ d # c => (t \in asked'[d] <=> t \in asked[d])
  BY <1>1, Votes
<1>3. \A t \in Signal : Pulls[t] = Askers(t) /\ Pulls'[t] = Askers(t)'
  BY DEF PullsAreAsked
<1>4. /\ Askers(s)' = IF voted THEN Askers(s) \cup {c} ELSE Askers(s) \ {c}
      /\ \A t \in Signal : t # s => Askers(t)' = Askers(t)
  BY <1>2 DEF Askers
<1>5. Pulls' = [Pulls EXCEPT ![s] = IF voted THEN @ \cup {c} ELSE @ \ {c}]
  BY <1>3, <1>4 DEF Pulls
<1>6. Pulls' = [Pulls EXCEPT ![s] = @ \cup {c}] \/ Pulls' = [Pulls EXCEPT ![s] = @ \ {c}]
  BY <1>5
<1>7. edgePending' = (edgePending \/ (s = "NMI" /\ ~Wired!Asserted(s) /\ Pulls'[s] # {}))
  <2>1. edgePending' = (edgePending \/ (s = "NMI" /\ voted /\ votes["NMI"] = {}))
    BY DEF SigVote, IsFirstNmiVote
  <2>2. Wired!Asserted(s) <=> votes[s] # {}
    BY AssertedIs
  <2>3. ~Wired!Asserted(s) => (Pulls'[s] # {} <=> voted)
    <3>1. ~Wired!Asserted(s) => Pulls[s] = {}
      BY DEF Wired!Asserted, Pulls
    <3> QED BY <1>3, <1>4, <3>1
  <2> QED BY <2>1, <2>2, <2>3
<1>8. left' = [left EXCEPT ![s] = @ \ {handle[c]}]
  BY DEF SigVote
<1> QED BY <1>2, <1>6, <1>7, <1>8 DEF Wired!Drive, Pulls

LEMMA WiredStep ==
  MasksInv /\ PullsAreAsked /\ PullsAreAsked' /\ [SignalNext]_signalVars
    => [Wired!WiredNext]_(Wired!wiredVars)
<1> SUFFICES ASSUME MasksInv, PullsAreAsked, PullsAreAsked', [SignalNext]_signalVars
             PROVE  [Wired!WiredNext]_(Wired!wiredVars)
  OBVIOUS
<1>1. CASE \E c \in Client : RegisterSigVoter(c)
  BY <1>1, RegisterConnects
<1>2. CASE \E c \in Client : UnregisterSigVoter(c)
  BY <1>2, UnregisterDisconnects DEF Wired!WiredNext
<1>3. CASE Vote
  BY <1>3, VoteDrives DEF Vote, Wired!WiredNext
<1>4. CASE TakeNmi
  BY <1>4 DEF TakeNmi, Wired!TakeEdge, Wired!WiredNext
<1>5. CASE UNCHANGED signalVars
  BY <1>5 DEF signalVars, Wired!wiredVars
<1> QED BY <1>1, <1>2, <1>3, <1>4, <1>5 DEF SignalNext

LEMMA WiredInit == SignalInit => Wired!WiredInit
BY DEF SignalInit, Wired!WiredInit

(* The masks of bus.c implement open-drain lines with one edge for each      *)
(* assertion of NMI, for any number of devices and voters, and whether     *)
(* devices drop their votes before they go or not.                         *)
THEOREM VotesAreWiredOr == SignalSpec => ImplementsWiredOr
BY MasksInit, MasksNext, PullersAsk, WiredInit, WiredStep, PTL
   DEF SignalSpec, ImplementsWiredOr, Wired!WiredSpec
==============================================================================
