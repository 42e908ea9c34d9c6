------------------------------ MODULE DbgcliProofs ------------------------------
(***************************************************************************)
(* Proofs about the life of the machine and the command line in front of   *)
(* it, for every choice of what may fail (but the two allocations that the *)
(* code takes to succeed), every line and any number of runs.              *)
(*                                                                         *)
(* A memory is seen as what is live, pointed to and linked: Is.  For each  *)
(* function of the clock, the bus and the devices there is a lemma that    *)
(* says what it makes of a sound memory.  Fit says, for each position of   *)
(* main, what can be there, what must be, and what needs what; a lemma for *)
(* each step takes Fit from one position to the next, by sets alone.       *)
(* Standing puts the two together, and one lemma for each action, of main, *)
(* the thread, ctrl-C and a restart, shows that it stays.                  *)
(*                                                                         *)
(* Repeatable is the invariant of the command line.                        *)
(***************************************************************************)
EXTENDS Dbgcli, SequenceTheorems, TLAPS

-----------------------------------------------------------------------------
(* The memory, without the order of the lists: what is live, what has a     *)
(* pointer, and what is linked.  A sound memory has had no fault, its       *)
(* lists hold what may be in them, and the head of one that is not empty    *)
(* is there.                                                               *)
List == DOMAIN Anchor

Members == [conns |-> {"rom_conn", "acia_conn", "via_conn", "ram_conn"}, clks |-> {"aciaclk"},
            mainclk |-> {"rom_tick", "via_tick"}, aciaclk |-> {"acia_tick"},
            callbacks |-> {"spi_cb"}, signals |-> {"sigdata"}]

Linked(m) == UNION {ToSet(m.lists[l]) : l \in List}

NoRepeats(s) == \A i, j \in 1 .. Len(s) : s[i] = s[j] => i = j

MemoryType ==
  [live : SUBSET Object, ptr : SUBSET Object, lists : [List -> Seq(Object)],
   faults : SUBSET Object]

ListSound(m, l) ==
  /\ NoRepeats(m.lists[l])
  /\ ToSet(m.lists[l]) \subseteq Members[l] \cap m.live
  /\ ToSet(m.lists[l]) # {} => Anchor[l] \in m.live

Sound(m) ==
  /\ m \in MemoryType /\ m.faults = {} /\ Static \in m.live
  /\ \A l \in List : ListSound(m, l)

(* m is sound, with these objects live, pointed to and linked.              *)
Is(m, live, ptr, linked) ==
  Sound(m) /\ m.live = live /\ m.ptr = ptr /\ Linked(m) = linked

LEMMA Lists ==
  /\ List = {"conns", "clks", "mainclk", "aciaclk", "callbacks", "signals"}
  /\ \A l \in List : Anchor[l] \in Object /\ Members[l] \subseteq Object
  /\ \A l, k \in List : l # k => Members[l] \cap Members[k] = {}
  <1>1. List = {"conns", "clks", "mainclk", "aciaclk", "callbacks", "signals"}
    BY DEF List, Anchor
  <1>2. \A l \in List : Anchor[l] \in Object /\ Members[l] \subseteq Object
    <2>1. /\ Anchor.conns = "emu" /\ Anchor.clks = "emu" /\ Anchor.mainclk = "mainclk"
          /\ Anchor.aciaclk = "aciaclk" /\ Anchor.callbacks = "via" /\ Anchor.signals = "static"
      BY DEF Anchor, Static
    <2>2. /\ Members.conns = {"rom_conn", "acia_conn", "via_conn", "ram_conn"}
          /\ Members.clks = {"aciaclk"} /\ Members.mainclk = {"rom_tick", "via_tick"}
          /\ Members.aciaclk = {"acia_tick"} /\ Members.callbacks = {"spi_cb"}
          /\ Members.signals = {"sigdata"}
      BY DEF Members
    <2>3. {"emu", "mainclk", "aciaclk", "via", "static"} \subseteq Object
      BY DEF Object, Static
    <2>4. {"rom_conn", "acia_conn", "via_conn", "ram_conn", "aciaclk", "rom_tick", "via_tick",
           "acia_tick", "spi_cb", "sigdata"} \subseteq Object
      BY DEF Object
    <2>5. \A l \in List : Anchor[l] \in {"emu", "mainclk", "aciaclk", "via", "static"}
      BY <1>1, <2>1
    <2>6. \A l \in List : Members[l] \subseteq
            {"rom_conn", "acia_conn", "via_conn", "ram_conn", "aciaclk", "rom_tick", "via_tick",
             "acia_tick", "spi_cb", "sigdata"}
      BY <1>1, <2>2
    <2>q. QED BY <2>3, <2>4, <2>5, <2>6
  <1>3. ASSUME NEW l \in List, NEW k \in List, l # k
        PROVE  Members[l] \cap Members[k] = {}
    BY <1>1, <1>3 DEF Members
  <1>q. QED BY <1>1, <1>2, <1>3

(* What is taken out of a sequence without repetitions.                     *)
LEMMA Entries ==
  ASSUME NEW s \in Seq(Object)
  PROVE  /\ Len(s) \in Nat /\ DOMAIN s = 1 .. Len(s)
         /\ \A e : e \in ToSet(s) <=> \E i \in 1 .. Len(s) : s[i] = e
         /\ \A e : Contains(s, e) <=> e \in ToSet(s)
         /\ s = <<>> <=> ToSet(s) = {}
  <1>1. Len(s) \in Nat /\ DOMAIN s = 1 .. Len(s)
    BY LenProperties
  <1>2. \A e : e \in ToSet(s) <=> \E i \in 1 .. Len(s) : s[i] = e
    BY <1>1 DEF ToSet
  <1>3. s = <<>> => ToSet(s) = {}
    BY <1>1, <1>2
  <1>4. s # <<>> => s[1] \in ToSet(s)
    BY <1>1, <1>2, EmptySeq
  <1>q. QED BY <1>1, <1>2, <1>3, <1>4 DEF Contains

LEMMA Removal ==
  ASSUME NEW s \in Seq(Object), NoRepeats(s), NEW e \in ToSet(s)
  PROVE  LET t == RemoveAt(s, Place(s, e))
         IN /\ Place(s, e) \in 1 .. Len(s) /\ s[Place(s, e)] = e
            /\ t \in Seq(Object) /\ NoRepeats(t) /\ ToSet(t) = ToSet(s) \ {e}
  <1> DEFINE p == Place(s, e)
             a == SubSeq(s, 1, p - 1)
             b == SubSeq(s, p + 1, Len(s))
             t == a \o b
  <1>1. Len(s) \in Nat /\ DOMAIN s = 1 .. Len(s)
    BY Entries
  <1>2. p \in 1 .. Len(s) /\ s[p] = e
    BY <1>1, Entries DEF Place
  <1> HIDE DEF p
  <1>3. \A i \in 1 .. Len(s) : s[i] \in Object
    BY <1>1, ElementOfSeq
  <1>4. /\ a \in Seq(Object) /\ Len(a) = p - 1
        /\ \A i \in 1 .. p - 1 : a[i] = s[i]
    <2>1. \A i \in 1 .. p - 1 : s[i] \in Object
      BY <1>1, <1>2, <1>3
    <2>q. QED BY <1>1, <1>2, <2>1, SubSeqProperties
  <1>5. /\ b \in Seq(Object) /\ Len(b) = Len(s) - p
        /\ \A i \in 1 .. Len(s) - p : b[i] = s[p + i]
    <2>1. \A i \in p + 1 .. Len(s) : s[i] \in Object
      BY <1>1, <1>2, <1>3
    <2>2. /\ b \in Seq(Object) /\ Len(b) = IF p + 1 <= Len(s) THEN Len(s) - (p + 1) + 1 ELSE 0
          /\ \A i \in 1 .. Len(s) - (p + 1) + 1 : b[i] = s[p + 1 + i - 1]
      BY <1>1, <1>2, <2>1, SubSeqProperties
    <2> HIDE DEF b
    <2> DEFINE n == Len(s)
    <2>3. n \in Nat /\ p \in 1 .. n
      BY <1>1, <1>2
    <2> HIDE DEF n
    <2>4. n - (p + 1) + 1 = n - p
      BY <2>3
    <2>5. (IF p + 1 <= n THEN n - (p + 1) + 1 ELSE 0) = n - p
      BY <2>3
    <2>6. \A i \in 1 .. n - p : p + 1 + i - 1 = p + i
      BY <2>3
    <2>q. QED BY <2>2, <2>4, <2>5, <2>6 DEF n
  <1> HIDE DEF a, b
  <1>6. /\ t \in Seq(Object) /\ Len(t) = Len(s) - 1
        /\ \A i \in 1 .. Len(s) - 1 : t[i] = IF i < p THEN s[i] ELSE s[i + 1]
    <2>1. /\ t \in Seq(Object) /\ Len(t) = Len(a) + Len(b)
          /\ \A i \in 1 .. Len(a) + Len(b) : t[i] = IF i <= Len(a) THEN a[i] ELSE b[i - Len(a)]
      BY <1>4, <1>5, ConcatProperties
    <2> HIDE DEF t
    <2>2. ASSUME NEW i \in 1 .. Len(s) - 1
          PROVE  t[i] = IF i < p THEN s[i] ELSE s[i + 1]
      <3>1. CASE i < p
        <4>1. i \in 1 .. Len(a) + Len(b) /\ i <= Len(a) /\ i \in 1 .. p - 1
          BY <1>1, <1>2, <1>4, <1>5, <3>1
        <4>q. QED BY <1>4, <2>1, <3>1, <4>1
      <3>2. CASE ~(i < p)
        <4> DEFINE n == Len(s)
        <4>a. n \in Nat /\ p \in 1 .. n /\ i \in 1 .. n - 1
          BY <1>1, <1>2
        <4>b. Len(a) = p - 1 /\ Len(b) = n - p
          BY <1>4, <1>5
        <4> HIDE DEF n
        <4>c. i - (p - 1) \in 1 .. n - p /\ ~(i <= p - 1) /\ i \in 1 .. (p - 1) + (n - p)
          BY <3>2, <4>a
        <4>d. i \in 1 .. Len(a) + Len(b) /\ ~(i <= Len(a))
          BY <4>b, <4>c
        <4>e. t[i] = b[i - Len(a)]
          BY <2>1, <4>d
        <4>1. t[i] = b[i - (p - 1)] /\ i - (p - 1) \in 1 .. Len(s) - p
          BY <4>b, <4>c, <4>e DEF n
        <4>2. b[i - (p - 1)] = s[p + (i - (p - 1))] /\ p + (i - (p - 1)) = i + 1
          BY <1>1, <1>2, <1>5, <4>1
        <4>q. QED BY <3>2, <4>1, <4>2
      <3>q. QED BY <3>1, <3>2
    <2>q. QED BY <1>1, <1>2, <1>4, <1>5, <2>1, <2>2
  <1> HIDE DEF t
  <1>7. NoRepeats(t)
    <2> SUFFICES ASSUME NEW i \in 1 .. Len(t), NEW j \in 1 .. Len(t), t[i] = t[j]
                 PROVE  i = j
      BY DEF NoRepeats
    <2> DEFINE ii == IF i < p THEN i ELSE i + 1
               jj == IF j < p THEN j ELSE j + 1
    <2>1. ii \in 1 .. Len(s) /\ jj \in 1 .. Len(s) /\ t[i] = s[ii] /\ t[j] = s[jj]
      BY <1>1, <1>2, <1>6
    <2>2. ii = jj
      BY <2>1 DEF NoRepeats
    <2>q. QED BY <1>2, <1>6, <1>1, <2>2
  <1>8. \A x : x \in ToSet(t) => x \in ToSet(s) \ {e}
    <2> SUFFICES ASSUME NEW x \in ToSet(t) PROVE x \in ToSet(s) \ {e}
      OBVIOUS
    <2>1. PICK i \in 1 .. Len(s) - 1 : t[i] = x
      BY <1>6, Entries
    <2>2. PICK k \in 1 .. Len(s) : k # p /\ s[k] = x
      BY <1>1, <1>2, <1>6, <2>1
    <2>q. QED BY <1>2, <2>2, Entries DEF NoRepeats
  <1>9. \A x : x \in ToSet(s) \ {e} => x \in ToSet(t)
    <2> SUFFICES ASSUME NEW x \in ToSet(s), x # e PROVE x \in ToSet(t)
      OBVIOUS
    <2>1. PICK k \in 1 .. Len(s) : s[k] = x
      BY Entries
    <2>2. CASE k < p
      <3>1. k \in 1 .. Len(t) /\ t[k] = x
        BY <1>1, <1>2, <1>6, <2>1, <2>2
      <3>q. QED BY <1>6, <3>1, Entries
    <2>3. CASE k > p
      <3>1. k - 1 \in 1 .. Len(t) /\ t[k - 1] = x
        BY <1>1, <1>2, <1>6, <2>1, <2>3
      <3>q. QED BY <1>6, <3>1, Entries
    <2>q. QED BY <1>1, <1>2, <2>1, <2>2, <2>3
  <1>q. QED BY <1>2, <1>6, <1>7, <1>8, <1>9 DEF p, t, a, b, RemoveAt

LEMMA Addition ==
  ASSUME NEW s \in Seq(Object), NoRepeats(s), NEW e \in Object, e \notin ToSet(s)
  PROVE  LET t == Append(s, e)
         IN /\ t \in Seq(Object) /\ NoRepeats(t) /\ ToSet(t) = ToSet(s) \cup {e}
            /\ Place(t, e) = Len(t) /\ Len(t) \in Nat \ {0}
            /\ \A i \in 1 .. Len(t) - 1 : t[i] \in ToSet(s)
            /\ Len(t) = 1 => s = <<>>
  <1> DEFINE t == Append(s, e)
  <1>1. /\ t \in Seq(Object) /\ Len(t) = Len(s) + 1 /\ t[Len(s) + 1] = e
        /\ \A i \in 1 .. Len(s) : t[i] = s[i]
    BY AppendProperties
  <1> HIDE DEF t
  <1>2. /\ Len(s) \in Nat /\ \A i \in 1 .. Len(s) : s[i] \in ToSet(s)
        /\ \A x \in ToSet(s) : \E i \in 1 .. Len(s) : s[i] = x
    BY Entries
  <1>3. \A i \in 1 .. Len(t) : (t[i] = e <=> i = Len(t)) /\ (i # Len(t) => i \in 1 .. Len(s))
    BY <1>1, <1>2
  <1>4. ToSet(t) = ToSet(s) \cup {e}
    <2>1. \A x : x \in ToSet(t) <=> \E i \in 1 .. Len(t) : t[i] = x
      BY <1>1, Entries
    <2>2. \A x : x \in ToSet(t) => x \in ToSet(s) \cup {e}
      BY <1>1, <1>2, <1>3, <2>1
    <2>3. \A x : x \in ToSet(s) \cup {e} => x \in ToSet(t)
      BY <1>1, <1>2, <1>3, <2>1
    <2>q. QED BY <2>2, <2>3
  <1>5. NoRepeats(t)
    BY <1>1, <1>2, <1>3 DEF NoRepeats
  <1>6. Place(t, e) = Len(t)
    <2>1. DOMAIN t = 1 .. Len(t) /\ Len(t) \in DOMAIN t
      BY <1>1, <1>2, Entries
    <2>q. QED BY <1>3, <2>1 DEF Place
  <1>7. Len(t) = 1 => s = <<>>
    BY <1>1, <1>2, EmptySeq
  <1>8. \A i \in 1 .. Len(t) - 1 : t[i] \in ToSet(s)
    BY <1>1, <1>2
  <1>q. QED BY <1>1, <1>2, <1>4, <1>5, <1>6, <1>7, <1>8 DEF t

(* What is in a list is linked, and in no other list.                       *)
LEMMA InList ==
  ASSUME NEW m, Sound(m), NEW l \in List
  PROVE  /\ ToSet(m.lists[l]) = Linked(m) \cap Members[l]
         /\ m.lists[l] \in Seq(Object) /\ NoRepeats(m.lists[l])
         /\ Linked(m) \subseteq m.live
         /\ ToSet(m.lists[l]) # {} => Anchor[l] \in m.live
  <1>1. \A k \in List : ToSet(m.lists[k]) \subseteq Members[k] \cap m.live
    BY DEF Sound, ListSound
  <1>2. \A k \in List : k # l => Members[l] \cap Members[k] = {}
    BY Lists
  <1>3. \A o : o \in Linked(m) <=> \E k \in List : o \in ToSet(m.lists[k])
    BY DEF Linked
  <1>4. ToSet(m.lists[l]) \subseteq Linked(m) \cap Members[l] /\ Linked(m) \subseteq m.live
    BY <1>1, <1>3
  <1>5. Linked(m) \cap Members[l] \subseteq ToSet(m.lists[l])
    <2> SUFFICES ASSUME NEW o \in Linked(m), o \in Members[l] PROVE o \in ToSet(m.lists[l])
      OBVIOUS
    <2>1. PICK k \in List : o \in ToSet(m.lists[k])
      BY <1>3
    <2>q. QED BY <1>1, <1>2, <2>1
  <1>6. m.lists[l] \in Seq(Object) /\ NoRepeats(m.lists[l])
        /\ (ToSet(m.lists[l]) # {} => Anchor[l] \in m.live)
    BY DEF Sound, ListSound, MemoryType
  <1>q. QED BY <1>4, <1>5, <1>6

(* Nothing happens to a memory by the use of what is live.                  *)
LEMMA UseLive ==
  ASSUME NEW m, Sound(m), NEW objects, objects \subseteq m.live
  PROVE  Uses(m, objects) = m
  <1>1. m.faults \cup (objects \ m.live) = m.faults
    OBVIOUS
  <1>2. m \in MemoryType
    BY DEF Sound
  <1>q. QED BY <1>1, <1>2 DEF Uses, MemoryType

LEMMA ListChange ==
  ASSUME NEW m, Sound(m), NEW l \in List, NEW t \in Seq(Object), NoRepeats(t),
         ToSet(t) \subseteq Members[l] \cap m.live, ToSet(t) # {} => Anchor[l] \in m.live
  PROVE  Is([m EXCEPT !.lists[l] = t], m.live, m.ptr, (Linked(m) \ Members[l]) \cup ToSet(t))
  <1> DEFINE n == [m EXCEPT !.lists[l] = t]
  <1>1. m \in MemoryType
    BY DEF Sound
  <1>2. /\ n \in MemoryType
        /\ n.live = m.live /\ n.ptr = m.ptr /\ n.faults = m.faults
        /\ n.lists = [m.lists EXCEPT ![l] = t]
    BY <1>1 DEF MemoryType
  <1>3. /\ n.lists[l] = t
        /\ \A k \in List : k # l => n.lists[k] = m.lists[k]
    BY <1>1, <1>2 DEF MemoryType
  <1> HIDE DEF n
  <1>4. \A k \in List : ListSound(n, k)
    <2>1. ListSound(n, l)
      BY <1>2, <1>3 DEF ListSound
    <2>2. ASSUME NEW k \in List, k # l PROVE ListSound(n, k)
      BY <1>2, <1>3, <2>2 DEF Sound, ListSound
    <2>q. QED BY <2>1, <2>2
  <1>5. Sound(n)
    BY <1>2, <1>4 DEF Sound
  <1>6. \A o : o \in Linked(n) <=> o \in (Linked(m) \ Members[l]) \cup ToSet(t)
    <2>1. \A k \in List : k # l =>
            ToSet(n.lists[k]) = Linked(m) \cap Members[k] /\ Members[k] \cap Members[l] = {}
      BY <1>3, InList, Lists
    <2>2. \A o : o \in Linked(n) <=> \E k \in List : o \in ToSet(n.lists[k])
      BY DEF Linked
    <2>3. \A o \in Linked(m) : \E k \in List : o \in ToSet(m.lists[k])
      BY DEF Linked
    <2>4. \A k \in List : ToSet(m.lists[k]) \subseteq Members[k]
      BY InList
    <2>5. ASSUME NEW o \in Linked(n) PROVE o \in (Linked(m) \ Members[l]) \cup ToSet(t)
      <3>1. PICK k \in List : o \in ToSet(n.lists[k])
        BY <2>2
      <3>q. QED BY <1>3, <2>1, <3>1
    <2>6. ASSUME NEW o \in Linked(m), o \notin Members[l] PROVE o \in Linked(n)
      <3>1. PICK k \in List : o \in ToSet(m.lists[k])
        BY <2>3
      <3>2. k # l
        BY <2>4, <2>6, <3>1
      <3>q. QED BY <1>3, <2>2, <3>1, <3>2
    <2>7. ASSUME NEW o \in ToSet(t) PROVE o \in Linked(n)
      BY <1>3, <2>2
    <2>q. QED BY <2>5, <2>6, <2>7
  <1>q. QED BY <1>2, <1>5, <1>6 DEF n, Is

LEMMA Links ==
  ASSUME NEW m, Sound(m), NEW l \in List, NEW o \in Members[l],
         o \notin Linked(m), o \in m.live, Anchor[l] \in m.live
  PROVE  Is(list_add_tail(m, l, o), m.live, m.ptr, Linked(m) \cup {o})
  <1> DEFINE s == m.lists[l]
             t == Append(s, o)
             n == [m EXCEPT !.lists[l] = t]
             near == Neighbours(n, l, o)
  <1>1. /\ s \in Seq(Object) /\ NoRepeats(s) /\ o \notin ToSet(s)
        /\ ToSet(s) = Linked(m) \cap Members[l] /\ Linked(m) \subseteq m.live /\ o \in Object
    BY InList, Lists
  <1> HIDE DEF s
  <1>2. /\ t \in Seq(Object) /\ NoRepeats(t) /\ ToSet(t) = ToSet(s) \cup {o}
        /\ Place(t, o) = Len(t) /\ Len(t) \in Nat \ {0}
        /\ \A i \in 1 .. Len(t) - 1 : t[i] \in ToSet(s)
    BY <1>1, Addition
  <1> HIDE DEF t
  <1>3. Is(n, m.live, m.ptr, (Linked(m) \ Members[l]) \cup ToSet(t))
    BY <1>1, <1>2, ListChange
  <1>4. (Linked(m) \ Members[l]) \cup ToSet(t) = Linked(m) \cup {o}
    BY <1>1, <1>2
  <1>5. n.lists[l] = t
    BY DEF Sound, MemoryType
  <1> HIDE DEF n
  <1>6. near = {IF Len(t) = 1 THEN Anchor[l] ELSE t[Len(t) - 1], Anchor[l]}
    BY <1>2, <1>5 DEF Neighbours
  <1>7. {o} \cup near \subseteq n.live
    <2>1. Len(t) # 1 => t[Len(t) - 1] \in m.live
      BY <1>1, <1>2
    <2>q. QED BY <1>3, <1>6, <2>1 DEF Is
  <1>8. Uses(n, {o} \cup near) = n
    BY <1>3, <1>7, UseLive DEF Is
  <1>9. list_add_tail(m, l, o) = n
    BY <1>8 DEF list_add_tail, n, t, s
  <1>q. QED BY <1>3, <1>4, <1>9

LEMMA Unlinks ==
  ASSUME NEW m, Sound(m), NEW o \in Linked(m)
  PROVE  Is(list_remove(m, o), m.live, m.ptr, Linked(m) \ {o})
  <1>1. PICK l \in List : o \in ToSet(m.lists[l])
    BY DEF Linked
  <1> DEFINE s == m.lists[l]
             p == Place(s, o)
             t == RemoveAt(s, p)
             near == Neighbours(m, l, o)
             n == [m EXCEPT !.lists[l] = t]
  <1>2. /\ s \in Seq(Object) /\ NoRepeats(s) /\ ToSet(s) = Linked(m) \cap Members[l]
        /\ Linked(m) \subseteq m.live /\ Anchor[l] \in m.live
    BY <1>1, InList
  <1>3. \A k \in List : Contains(m.lists[k], o) <=> k = l
    <2>1. \A k \in List : Contains(m.lists[k], o) <=> o \in Linked(m) \cap Members[k]
      BY InList, Entries
    <2>q. QED BY <1>1, <1>2, <2>1, Lists
  <1>4. IsLinked(m, o) /\ ListOf(m, o) = l
    BY <1>3 DEF IsLinked, ListOf, List
  <1>5. /\ p \in 1 .. Len(s) /\ Len(s) \in Nat
        /\ t \in Seq(Object) /\ NoRepeats(t) /\ ToSet(t) = ToSet(s) \ {o}
        /\ \A i \in 1 .. Len(s) : s[i] \in ToSet(s)
    BY <1>1, <1>2, Removal, Entries
  <1> HIDE DEF s, p, t
  <1>6. {o} \cup near \subseteq m.live
    <2>1. near = {IF p = 1 THEN Anchor[l] ELSE s[p - 1], IF p = Len(s) THEN Anchor[l] ELSE s[p + 1]}
      BY DEF Neighbours, p, s
    <2>2. p # 1 => s[p - 1] \in m.live
      BY <1>2, <1>5
    <2>3. p # Len(s) => s[p + 1] \in m.live
      BY <1>2, <1>5
    <2>q. QED BY <1>1, <1>2, <2>1, <2>2, <2>3
  <1>7. Uses(m, {o} \cup near) = m
    BY <1>6, UseLive
  <1>8. Is(n, m.live, m.ptr, (Linked(m) \ Members[l]) \cup ToSet(t))
    BY <1>2, <1>5, ListChange
  <1>9. (Linked(m) \ Members[l]) \cup ToSet(t) = Linked(m) \ {o}
    BY <1>1, <1>2, <1>5 DEF s
  <1>10. list_remove(m, o) = n
    <2>1. n = [m EXCEPT !.lists[l] = RemoveAt(@, Place(@, o))]
      BY DEF n, t, p, s
    <2>q. QED BY <1>4, <1>7, <2>1 DEF list_remove
  <1>q. QED BY <1>8, <1>9, <1>10

(* What is no entry of a list, and no head of one that has entries, can be  *)
(* freed.                                                                  *)
LEMMA Freeing ==
  ASSUME NEW m, Sound(m), NEW objects, objects \subseteq m.live, Static \notin objects,
         objects \cap Linked(m) = {},
         \A l \in List : Anchor[l] \in objects => Linked(m) \cap Members[l] = {}
  PROVE  Is([m EXCEPT !.live = @ \ objects], m.live \ objects, m.ptr, Linked(m))
  <1> DEFINE n == [m EXCEPT !.live = @ \ objects]
  <1>1. m \in MemoryType
    BY DEF Sound
  <1>2. /\ n \in MemoryType /\ n.lists = m.lists
        /\ n.live = m.live \ objects /\ n.ptr = m.ptr /\ n.faults = m.faults
    BY <1>1 DEF MemoryType
  <1> HIDE DEF n
  <1>3. ASSUME NEW l \in List PROVE ListSound(n, l)
    <2>1. ListSound(m, l)
      BY DEF Sound
    <2>2. ToSet(m.lists[l]) = Linked(m) \cap Members[l]
      BY InList
    <2>q. QED BY <1>2, <2>1, <2>2 DEF ListSound
  <1>4. Sound(n)
    BY <1>2, <1>3 DEF Sound
  <1>5. Linked(n) = Linked(m)
    BY <1>2 DEF Linked
  <1>q. QED BY <1>2, <1>4, <1>5 DEF n, Is

LEMMA Frees1 ==
  ASSUME NEW m, Sound(m), NEW o \in m.live, o # Static, o \notin Linked(m),
         \A l \in List : Anchor[l] = o => Linked(m) \cap Members[l] = {}
  PROVE  Is(free(m, o), m.live \ {o}, m.ptr, Linked(m))
  <1>1. Uses(m, {o}) = m
    BY UseLive
  <1>2. Is([m EXCEPT !.live = @ \ {o}], m.live \ {o}, m.ptr, Linked(m))
    BY Freeing
  <1>q. QED BY <1>1, <1>2 DEF free

(* Pointers may be set and forgotten, and objects made.                     *)
LEMMA Remake ==
  ASSUME NEW m, Sound(m), NEW more, more \subseteq Object, NEW ptr, ptr \subseteq Object
  PROVE  /\ Is([m EXCEPT !.live = @ \cup more, !.ptr = ptr],
                m.live \cup more, ptr, Linked(m))
         /\ Is([m EXCEPT !.live = @ \cup more], m.live \cup more, m.ptr, Linked(m))
         /\ Is([m EXCEPT !.ptr = ptr], m.live, ptr, Linked(m))
  <1>1. m \in MemoryType
    BY DEF Sound
  <1>2. ASSUME NEW n \in MemoryType, n.lists = m.lists, n.faults = m.faults, m.live \subseteq n.live
        PROVE  Is(n, n.live, n.ptr, Linked(m))
    <2>1. ASSUME NEW l \in List PROVE ListSound(n, l)
      BY <1>2 DEF Sound, ListSound
    <2>q. QED BY <1>2, <2>1 DEF Is, Sound, Linked
  <1>3. ASSUME NEW n, n = [m EXCEPT !.live = @ \cup more, !.ptr = ptr]
        PROVE  Is(n, m.live \cup more, ptr, Linked(m))
    <2>1. n \in MemoryType /\ n.lists = m.lists /\ n.faults = m.faults
          /\ n.live = m.live \cup more /\ n.ptr = ptr
      BY <1>1, <1>3 DEF MemoryType
    <2>q. QED BY <1>2, <2>1
  <1>4. ASSUME NEW n, n = [m EXCEPT !.live = @ \cup more]
        PROVE  Is(n, m.live \cup more, m.ptr, Linked(m))
    <2>1. n \in MemoryType /\ n.lists = m.lists /\ n.faults = m.faults
          /\ n.live = m.live \cup more /\ n.ptr = m.ptr
      BY <1>1, <1>4 DEF MemoryType
    <2>q. QED BY <1>2, <2>1
  <1>5. ASSUME NEW n, n = [m EXCEPT !.ptr = ptr]
        PROVE  Is(n, m.live, ptr, Linked(m))
    <2>1. n \in MemoryType /\ n.lists = m.lists /\ n.faults = m.faults
          /\ n.live = m.live /\ n.ptr = ptr
      BY <1>1, <1>5 DEF MemoryType
    <2>q. QED BY <1>2, <2>1
  <1>q. QED BY <1>3, <1>4, <1>5

-----------------------------------------------------------------------------
(* What the functions of the clock, the bus and the devices make of such a  *)
(* memory.                                                                 *)
LEMMA Making ==
  ASSUME NEW m, Sound(m), NEW o \in Object
  PROVE  Is(Made(m, o), m.live \cup {o}, m.ptr \cup {o}, Linked(m))
  <1>1. m.ptr \cup {o} \subseteq Object
    BY DEF Sound, MemoryType
  <1>2. Made(m, o) = [m EXCEPT !.live = @ \cup {o}, !.ptr = m.ptr \cup {o}]
    BY DEF Made
  <1>q. QED BY <1>1, <1>2, Remake

LEMMA Forgetting ==
  ASSUME NEW m, Sound(m), NEW o
  PROVE  Is(Forget(m, o), m.live, m.ptr \ {o}, Linked(m))
  <1>1. m.ptr \ {o} \subseteq Object
    BY DEF Sound, MemoryType
  <1>2. Forget(m, o) = [m EXCEPT !.ptr = m.ptr \ {o}]
    BY DEF Forget
  <1>q. QED BY <1>1, <1>2, Remake

LEMMA Trying ==
  ASSUME NEW m, NEW o, NEW n \in Tried(m, o)
  PROVE  n = Made(m, o) \/ (n = m /\ o \in Fallible)
  BY DEF Tried

Registered(m, l, e) ==
  {IF e \in n.ptr THEN list_add_tail(n, l, e) ELSE n : n \in Tried(m, e)}

LEMMA Registering ==
  ASSUME NEW m, Sound(m), NEW l \in List, NEW e \in Members[l],
         e \notin m.live, e \notin m.ptr, Anchor[l] \in m.live, NEW n \in Registered(m, l, e)
  PROVE  \/ n = m
         \/ Is(n, m.live \cup {e}, m.ptr \cup {e}, Linked(m) \cup {e})
  <1>1. PICK k \in Tried(m, e) : n = IF e \in k.ptr THEN list_add_tail(k, l, e) ELSE k
    BY DEF Registered
  <1>2. CASE k = m
    BY <1>1, <1>2
  <1>3. CASE k = Made(m, e)
    <2>1. Is(k, m.live \cup {e}, m.ptr \cup {e}, Linked(m))
      BY <1>3, Making, Lists
    <2>2. Linked(m) \subseteq m.live
      BY InList DEF Linked
    <2>3. Is(list_add_tail(k, l, e), k.live, k.ptr, Linked(k) \cup {e})
      BY <2>1, <2>2, Links DEF Is
    <2>4. Is(list_add_tail(k, l, e), m.live \cup {e}, m.ptr \cup {e}, Linked(m) \cup {e})
      BY <2>1, <2>3 DEF Is
    <2>q. QED BY <1>1, <2>1, <2>4 DEF Is
  <1>q. QED BY <1>1, <1>2, <1>3, Trying

LEMMA Unregistering ==
  ASSUME NEW m, Sound(m), NEW e, e # Static, \A l \in List : Anchor[l] # e,
         e \in m.ptr <=> e \in m.live, e \in m.live => e \in Linked(m)
  PROVE  Is(IF e \in m.ptr THEN free(list_remove(m, e), e) ELSE m,
            m.live \ {e}, m.ptr, Linked(m) \ {e})
  <1>1. CASE e \in m.ptr
    <2> DEFINE n == list_remove(m, e)
    <2>1. Is(n, m.live, m.ptr, Linked(m) \ {e})
      BY <1>1, Unlinks
    <2> HIDE DEF n
    <2>2. Is(free(n, e), n.live \ {e}, n.ptr, Linked(n))
      BY <1>1, <2>1, Frees1 DEF Is
    <2>q. QED BY <1>1, <2>1, <2>2 DEF n, Is
  <1>2. CASE e \notin m.ptr
    <2>1. m.live \ {e} = m.live /\ Linked(m) \ {e} = Linked(m)
      BY <1>2, InList, Lists
    <2>q. QED BY <1>2, <2>1 DEF Is
  <1>q. QED BY <1>1, <1>2

LEMMA Emptying ==
  ASSUME NEW m, Sound(m), NEW l \in List, Anchor[l] \in m.live,
         \A k \in List : Anchor[k] \notin Members[l], Static \notin Members[l],
         Members[l] \cap m.live \subseteq Linked(m)
  PROVE  Is(list_free(m, l), m.live \ Members[l], m.ptr, Linked(m) \ Members[l])
  <1> DEFINE s == m.lists[l]
             n == [m EXCEPT !.lists[l] = <<>>]
  <1>1. ToSet(s) = Linked(m) \cap Members[l] /\ Linked(m) \subseteq m.live
    BY InList
  <1>2. Uses(m, {Anchor[l]} \cup ToSet(s)) = m
    BY <1>1, UseLive
  <1>3. <<>> \in Seq(Object) /\ NoRepeats(<<>>) /\ ToSet(<<>>) = {}
    BY EmptySeq, Entries DEF NoRepeats
  <1>4. Is(n, m.live, m.ptr, (Linked(m) \ Members[l]) \cup {})
    BY <1>3, ListChange
  <1>5. list_free(m, l) = [n EXCEPT !.live = @ \ ToSet(s)]
    <2>1. list_free(m, l) = [m EXCEPT !.live = @ \ ToSet(s), !.lists[l] = <<>>]
      BY <1>2 DEF list_free
    <2>2. m \in MemoryType
      BY DEF Sound
    <2> HIDE DEF s
    <2>q. QED BY <2>1, <2>2 DEF MemoryType
  <1> HIDE DEF n, s
  <1>6. Is([n EXCEPT !.live = @ \ ToSet(s)], n.live \ ToSet(s), n.ptr, Linked(n))
    BY <1>1, <1>4, Freeing DEF Is
  <1>7. m.live \ ToSet(s) = m.live \ Members[l]
    BY <1>1
  <1>q. QED BY <1>4, <1>5, <1>6, <1>7 DEF Is

LEMMA CleansClocks ==
  ASSUME NEW m, Sound(m), "mainclk" \in m.ptr, "mainclk" \in m.live,
         {"aciaclk", "acia_tick"} \cap m.live = {},
         {"rom_tick", "via_tick"} \cap m.live \subseteq Linked(m)
  PROVE  Is(clock_cleanup(m), m.live \ {"mainclk", "rom_tick", "via_tick"}, m.ptr,
            Linked(m) \ {"rom_tick", "via_tick"})
  <1> DEFINE ticks == ToSet(m.lists["mainclk"])
             n == [m EXCEPT !.lists["mainclk"] = <<>>]
             gone == {"mainclk"} \cup ticks
  <1>1. m \in MemoryType /\ Linked(m) \subseteq m.live
    BY InList, Lists DEF Sound
  <1>2. ticks = Linked(m) \cap {"rom_tick", "via_tick"}
    <2>1. Members["mainclk"] = {"rom_tick", "via_tick"}
      BY DEF Members
    <2>q. QED BY <2>1, InList, Lists
  <1>3. ToSet(m.lists["clks"]) = {} /\ m.lists["clks"] = <<>>
    <2>1. Members["clks"] = {"aciaclk"} /\ "clks" \in List
      BY Lists DEF Members
    <2>2. ToSet(m.lists["clks"]) = {} /\ m.lists["clks"] \in Seq(Object)
      BY <1>1, <2>1, InList
    <2>q. QED BY <2>2, Entries
  <1>4. <<>> \in Seq(Object) /\ NoRepeats(<<>>) /\ ToSet(<<>>) = {}
    BY EmptySeq, Entries DEF NoRepeats
  <1>5. Is(n, m.live, m.ptr, (Linked(m) \ {"rom_tick", "via_tick"}) \cup {})
    <2>1. Members["mainclk"] = {"rom_tick", "via_tick"} /\ "mainclk" \in List
      BY Lists DEF Members
    <2>q. QED BY <1>4, <2>1, ListChange
  <1>6. clock_cleanup(m) = [n EXCEPT !.live = @ \ gone]
    <2> DEFINE clks == ToSet(m.lists["clks"]) \cup {"mainclk"}
               entries == UNION {ToSet(m.lists[c]) : c \in clks}
               lists == [l \in DOMAIN m.lists |-> IF l \in clks \cup {"clks"} THEN <<>> ELSE m.lists[l]]
    <2>1. clks = {"mainclk"} /\ entries = ticks
      BY <1>3
    <2>2. gone \subseteq m.live
      BY <1>1, <1>2
    <2>3. Uses(m, clks \cup entries) = m
      BY <2>1, <2>2, UseLive
    <2>4. clock_cleanup(m) = [m EXCEPT !.live = @ \ gone, !.lists = lists]
      BY <2>1, <2>3 DEF clock_cleanup
    <2>5. lists = [m.lists EXCEPT !["mainclk"] = <<>>]
      <3>1. m.lists \in [List -> Seq(Object)]
        BY <1>1 DEF MemoryType
      <3>2. \A l \in List : lists[l] = IF l = "mainclk" THEN <<>> ELSE m.lists[l]
        BY <1>3, <2>1, <3>1
      <3>q. QED BY <3>1, <3>2
    <2> HIDE DEF lists, gone
    <2>q. QED BY <1>1, <2>4, <2>5 DEF MemoryType
  <1> HIDE DEF n, ticks
  <1>7. Is([n EXCEPT !.live = @ \ gone], n.live \ gone, n.ptr, Linked(n))
    <2>1. gone \subseteq n.live /\ Static \notin gone /\ gone \cap Linked(n) = {}
      <3>1. "mainclk" \notin Linked(m)
        <4>1. \A l \in List : "mainclk" \notin Members[l]
          BY Lists DEF Members
        <4>2. \A l \in List : ToSet(m.lists[l]) \subseteq Members[l]
          BY InList
        <4>q. QED BY <4>1, <4>2 DEF Linked
      <3>q. QED BY <1>1, <1>2, <1>5, <3>1 DEF Is, Static
    <2>2. \A l \in List : Anchor[l] \in gone => Linked(n) \cap Members[l] = {}
      <3>1. \A l \in List : Anchor[l] \in gone => l = "mainclk"
        BY <1>2, Lists DEF Anchor, Static
      <3>2. Members["mainclk"] = {"rom_tick", "via_tick"}
        BY DEF Members
      <3>q. QED BY <1>5, <3>1, <3>2 DEF Is
    <2>q. QED BY <1>5, <2>1, <2>2, Freeing DEF Is
  <1>8. m.live \ gone = m.live \ {"mainclk", "rom_tick", "via_tick"}
    BY <1>2
  <1>q. QED BY <1>5, <1>6, <1>7, <1>8 DEF Is

(* Objects that are in no list and hold none.                               *)
Plain == {"rom", "acia", "ram", "trans", "eventfd", "server_sock", "thread", SocketName,
          "image_fd", "debugger"}

LEMMA PlainIsPlain ==
  ASSUME NEW o \in Plain
  PROVE  o # Static /\ \A l \in List : Anchor[l] # o /\ o \notin Members[l]
  <1>1. o # Static /\ \A l \in List : Anchor[l] # o
    BY Lists DEF Plain, Static, SocketName, Anchor
  <1>2. \A l \in List : o \notin Members[l]
    BY Lists DEF Plain, SocketName, Members
  <1>q. QED BY <1>1, <1>2

LEMMA PlainUnlinked ==
  ASSUME NEW m, Sound(m), NEW o \in Plain
  PROVE  o \notin Linked(m)
  <1>1. \A l \in List : ToSet(m.lists[l]) \subseteq Members[l]
    BY InList
  <1>q. QED BY <1>1, PlainIsPlain DEF Linked

LEMMA FreesPlain ==
  ASSUME NEW m, Sound(m), NEW o \in Plain
  PROVE  /\ o \in m.live => Is(free(m, o), m.live \ {o}, m.ptr, Linked(m))
         /\ Is(CloseIf(m, o), m.live \ {o}, m.ptr, Linked(m))
         /\ Is([m EXCEPT !.live = @ \ {o}], m.live \ {o}, m.ptr, Linked(m))
  <1>1. o \in m.live => Is(free(m, o), m.live \ {o}, m.ptr, Linked(m))
    BY PlainIsPlain, PlainUnlinked, Frees1
  <1>2. o \notin m.live => m = CloseIf(m, o) /\ m.live \ {o} = m.live
    BY DEF CloseIf
  <1>3. Is(CloseIf(m, o), m.live \ {o}, m.ptr, Linked(m))
    BY <1>1, <1>2 DEF CloseIf, Is
  <1>4. CASE o \in m.live
    <2>1. Is([m EXCEPT !.live = @ \ {o}], m.live \ {o}, m.ptr, Linked(m))
      BY <1>4, PlainIsPlain, PlainUnlinked, Freeing
    <2>q. QED BY <1>1, <1>3, <2>1
  <1>5. CASE o \notin m.live
    <2>1. m \in MemoryType
      BY DEF Sound
    <2>2. [m EXCEPT !.live = @ \ {o}] = m
      BY <1>5, <2>1 DEF MemoryType
    <2>q. QED BY <1>1, <1>2, <1>3, <1>5, <2>2 DEF Is
  <1>q. QED BY <1>4, <1>5

LEMMA DestroysContext ==
  ASSUME NEW m, Sound(m), "trans" \in m.live
  PROVE  Is(destroy_context(m), m.live \ {"server_sock", "eventfd", SocketName, "trans"},
            m.ptr \ {"trans"}, Linked(m))
  <1> DEFINE a == CloseIf(m, "server_sock")
             b == CloseIf(a, "eventfd")
             c == unlink(b)
             d == free(c, "trans")
             names == {"server_sock", "eventfd", SocketName, "trans"}
  <1>0. /\ "server_sock" \in Plain /\ "eventfd" \in Plain /\ SocketName \in Plain
        /\ "trans" \in Plain /\ SocketName # "trans"
    BY DEF Plain, SocketName
  <1>1. Is(a, m.live \ {"server_sock"}, m.ptr, Linked(m))
    BY <1>0, FreesPlain
  <1> HIDE DEF a
  <1>2. Is(b, a.live \ {"eventfd"}, a.ptr, Linked(a))
    BY <1>0, <1>1, FreesPlain DEF Is
  <1> HIDE DEF b
  <1>3. Is(c, b.live \ {SocketName}, b.ptr, Linked(b))
    BY <1>0, <1>2, FreesPlain DEF Is, unlink
  <1> HIDE DEF c
  <1>4. "trans" \in c.live
    BY <1>0, <1>1, <1>2, <1>3 DEF Is
  <1>5. Is(d, c.live \ {"trans"}, c.ptr, Linked(c))
    BY <1>0, <1>3, <1>4, FreesPlain DEF Is
  <1> HIDE DEF d
  <1>6. Is(Forget(d, "trans"), d.live, d.ptr \ {"trans"}, Linked(d))
    BY <1>5, Forgetting DEF Is
  <1>7. d.live = m.live \ names
    BY <1>1, <1>2, <1>3, <1>5 DEF Is
  <1>q. QED BY <1>1, <1>2, <1>3, <1>5, <1>6, <1>7 DEF Is, destroy_context, a, b, c, d

(* What is opened is closed if a later call fails; the thread does not fail. *)
Sockets == {"trans", "eventfd", "server_sock", SocketName, "thread"}

SocketPtrs == {"trans", "eventfd", "server_sock", "thread"}

LEMMA OpensSockets ==
  ASSUME NEW m, Sound(m), {"trans", "eventfd", "server_sock", "thread"} \cap m.live = {},
         "trans" \notin m.ptr, "thread" \notin Fallible, NEW n \in acia_unix_init(m)
  PROVE  \/ /\ Sound(n) /\ Linked(n) = Linked(m) /\ n.live \in {m.live, m.live \ {SocketName}}
            /\ \E p \in SUBSET {"eventfd", "server_sock"} : n.ptr = m.ptr \cup p
         \/ Is(n, m.live \cup Sockets, m.ptr \cup SocketPtrs, Linked(m))
  <1> DEFINE cxt     == Forget(Made(m, "trans"), "trans")
             event   == Tried(cxt, "eventfd")
             sock    == UNION {Tried(e, "server_sock") : e \in {x \in event : "eventfd" \in x.live}}
             cleared == {ClearsName(e) : e \in {x \in sock : "server_sock" \in x.live}}
             bound   == {bind(e) : e \in cleared}
             broken  == {e \in event : "eventfd" \notin e.live}
                        \cup {e \in sock : "server_sock" \notin e.live}
                        \cup {e \in bound : SocketName \in e.faults \cup Fallible}
             started == UNION {Tried(e, "thread") : e \in {b \in bound : SocketName \notin b.faults}}
             open    == m.live \cup {"trans", "eventfd", "server_sock"}
             got     == m.ptr \cup {"eventfd", "server_sock"}
  <1>0. /\ {"trans", "eventfd", "server_sock", "thread"} \subseteq Object
        /\ SocketName \in Object /\ SocketName \in Plain
        /\ SocketName \notin {"trans", "eventfd", "server_sock", "thread"}
    BY DEF Object, Plain, SocketName
  <1>1. Is(cxt, m.live \cup {"trans"}, m.ptr, Linked(m))
    <2>1. Is(Made(m, "trans"), m.live \cup {"trans"}, m.ptr \cup {"trans"}, Linked(m))
      BY <1>0, Making
    <2>2. (m.ptr \cup {"trans"}) \ {"trans"} = m.ptr
      OBVIOUS
    <2>q. QED BY <2>1, <2>2, Forgetting DEF Is
  <1> HIDE DEF cxt
  <1>2. \A e \in event :
          \/ e = cxt
          \/ Is(e, m.live \cup {"trans", "eventfd"}, m.ptr \cup {"eventfd"}, Linked(m))
    <2>1. Is(Made(cxt, "eventfd"), cxt.live \cup {"eventfd"}, cxt.ptr \cup {"eventfd"}, Linked(cxt))
      BY <1>0, <1>1, Making DEF Is
    <2>2. Is(Made(cxt, "eventfd"), m.live \cup {"trans", "eventfd"}, m.ptr \cup {"eventfd"}, Linked(m))
      BY <1>1, <2>1 DEF Is
    <2>q. QED BY <2>2, Trying
  <1> HIDE DEF event
  <1>3. \A e \in sock :
          \/ Is(e, m.live \cup {"trans", "eventfd"}, m.ptr \cup {"eventfd"}, Linked(m))
          \/ Is(e, open, got, Linked(m))
    <2> SUFFICES ASSUME NEW x \in event, "eventfd" \in x.live, NEW e \in Tried(x, "server_sock")
                 PROVE  \/ Is(e, m.live \cup {"trans", "eventfd"}, m.ptr \cup {"eventfd"}, Linked(m))
                        \/ Is(e, open, got, Linked(m))
      OBVIOUS
    <2>1. Is(x, m.live \cup {"trans", "eventfd"}, m.ptr \cup {"eventfd"}, Linked(m))
      BY <1>1, <1>2 DEF Is
    <2>2. Is(Made(x, "server_sock"), x.live \cup {"server_sock"}, x.ptr \cup {"server_sock"}, Linked(x))
      BY <1>0, <2>1, Making DEF Is
    <2>3. Is(Made(x, "server_sock"), open, got, Linked(m))
      BY <2>1, <2>2 DEF Is
    <2>q. QED BY <2>1, <2>3, Trying
  <1> HIDE DEF sock
  <1>4. \A e \in cleared : Is(e, open \ {SocketName}, got, Linked(m))
    <2> SUFFICES ASSUME NEW x \in sock, "server_sock" \in x.live
                 PROVE  Is(ClearsName(x), open \ {SocketName}, got, Linked(m))
      OBVIOUS
    <2>1. Is(x, open, got, Linked(m))
      BY <1>3 DEF Is
    <2> HIDE DEF open, got
    <2>2. Is(ClearsName(x), x.live \ {SocketName}, x.ptr, Linked(x))
      BY <1>0, <2>1, FreesPlain DEF Is, ClearsName, unlink
    <2>q. QED BY <2>1, <2>2 DEF Is
  <1> HIDE DEF cleared
  <1>5. \A e \in bound : Is(e, open \cup {SocketName}, got, Linked(m))
    <2> SUFFICES ASSUME NEW x \in cleared
                 PROVE  Is(bind(x), open \cup {SocketName}, got, Linked(m))
      OBVIOUS
    <2>1. Is(x, open \ {SocketName}, got, Linked(m))
      BY <1>4
    <2> HIDE DEF open, got
    <2>2. bind(x) = [x EXCEPT !.live = @ \cup {SocketName}]
      BY <2>1 DEF bind, Is
    <2>3. {SocketName} \subseteq Object
      BY <1>0
    <2>4. Is(bind(x), x.live \cup {SocketName}, x.ptr, Linked(x))
      <3>1. \A more \in SUBSET Object :
              Is([x EXCEPT !.live = @ \cup more], x.live \cup more, x.ptr, Linked(x))
        BY <2>1, Remake DEF Is
      <3>q. QED BY <2>2, <2>3, <3>1
    <2>5. x.live \cup {SocketName} = open \cup {SocketName}
      BY <2>1 DEF Is
    <2>q. QED BY <2>1, <2>4, <2>5 DEF Is
  <1> HIDE DEF bound
  <1> DEFINE Small(e) == Sound(e) /\ "trans" \in e.live /\ Linked(e) = Linked(m)
                         /\ e.live \in SUBSET (open \cup {SocketName})
                         /\ m.live \subseteq e.live
                         /\ \E p \in SUBSET {"eventfd", "server_sock"} : e.ptr = m.ptr \cup p
  <1>6. \A e \in broken : Small(e)
    <2>1. ASSUME NEW e, NEW L, NEW P, Is(e, L, m.ptr \cup P, Linked(m)), "trans" \in L, m.live \subseteq L,
                 L \subseteq open \cup {SocketName}, P \subseteq {"eventfd", "server_sock"}
          PROVE  Small(e)
      BY <2>1 DEF Is
    <2>2. Small(cxt)
      <3>1. Is(cxt, m.live \cup {"trans"}, m.ptr \cup {}, Linked(m))
        BY <1>1
      <3>2. m.live \cup {"trans"} \subseteq open \cup {SocketName}
        OBVIOUS
      <3> HIDE DEF Small, open
      <3>q. QED BY <2>1, <3>1, <3>2
    <2>3. ASSUME NEW e, Is(e, m.live \cup {"trans", "eventfd"}, m.ptr \cup {"eventfd"}, Linked(m))
          PROVE  Small(e)
      <3> DEFINE L == m.live \cup {"trans", "eventfd"}  P == {"eventfd"}
      <3>1. L \subseteq open \cup {SocketName} /\ "trans" \in L /\ m.live \subseteq L
            /\ P \subseteq {"eventfd", "server_sock"}
        OBVIOUS
      <3>2. Is(e, L, m.ptr \cup P, Linked(m))
        BY <2>3
      <3> HIDE DEF Small, open, L, P
      <3>q. QED BY <2>1, <3>1, <3>2
    <2>4. ASSUME NEW e, Is(e, open, got, Linked(m)) PROVE Small(e)
      <3>1. "trans" \in open /\ m.live \subseteq open
        OBVIOUS
      <3> HIDE DEF Small, open
      <3>q. QED BY <2>1, <2>4, <3>1
    <2>5. ASSUME NEW e, Is(e, open \cup {SocketName}, got, Linked(m)) PROVE Small(e)
      <3>1. "trans" \in open /\ m.live \subseteq open
        OBVIOUS
      <3> HIDE DEF Small, open
      <3>q. QED BY <2>1, <2>5, <3>1
    <2> HIDE DEF Small, open, got
    <2>q. QED BY <1>2, <1>3, <1>5, <2>2, <2>3, <2>4, <2>5
  <1>7. ASSUME NEW e \in broken, n = destroy_context(e)
        PROVE  /\ Sound(n) /\ Linked(n) = Linked(m) /\ n.live \in {m.live, m.live \ {SocketName}}
               /\ \E p \in SUBSET {"eventfd", "server_sock"} : n.ptr = m.ptr \cup p
    <2>1. Small(e)
      BY <1>6
    <2>2. Is(n, e.live \ {"server_sock", "eventfd", SocketName, "trans"}, e.ptr \ {"trans"}, Linked(e))
      BY <1>7, <2>1, DestroysContext
    <2>3. e.live \ {"server_sock", "eventfd", SocketName, "trans"} = m.live \ {SocketName}
      BY <2>1
    <2>4. e.ptr \ {"trans"} = e.ptr
      BY <2>1
    <2>q. QED BY <2>1, <2>2, <2>3, <2>4 DEF Is
  <1>8. ASSUME NEW e \in started, n = [e EXCEPT !.ptr = @ \cup {"trans"}]
        PROVE  Is(n, m.live \cup Sockets, m.ptr \cup SocketPtrs, Linked(m))
    <2>1. PICK b \in bound : e \in Tried(b, "thread")
      OBVIOUS
    <2>2. e = Made(b, "thread")
      BY <2>1, Trying
    <2>3. Is(b, open \cup {SocketName}, got, Linked(m))
      BY <1>5
    <2> HIDE DEF open, got, started
    <2>4. Is(e, b.live \cup {"thread"}, b.ptr \cup {"thread"}, Linked(b))
      BY <1>0, <2>2, <2>3, Making DEF Is
    <2>5. n = [e EXCEPT !.ptr = e.ptr \cup {"trans"}] /\ e.ptr \cup {"trans"} \subseteq Object
      BY <1>0, <1>8, <2>4 DEF Is, Sound, MemoryType
    <2>6. Is(n, e.live, e.ptr \cup {"trans"}, Linked(e))
      <3>1. \A q \in SUBSET Object : Is([e EXCEPT !.ptr = q], e.live, q, Linked(e))
        <4>1. Sound(e) /\ {} \subseteq Object
          BY <2>4 DEF Is
        <4>q. QED BY <4>1, Remake
      <3>q. QED BY <2>5, <3>1
    <2>7. e.live = m.live \cup Sockets
      BY <2>3, <2>4 DEF Is, open, Sockets
    <2>8. e.ptr \cup {"trans"} = m.ptr \cup SocketPtrs
      BY <2>3, <2>4 DEF Is, got, SocketPtrs
    <2>q. QED BY <2>3, <2>4, <2>6, <2>7, <2>8 DEF Is
  <1>9. n \in {m} \cup {destroy_context(e) : e \in broken}
                  \cup {[e EXCEPT !.ptr = @ \cup {"trans"}] : e \in started}
    BY DEF acia_unix_init, cxt, event, sock, cleared, bound
  <1>10. n = m => \E p \in SUBSET {"eventfd", "server_sock"} : n.ptr = m.ptr \cup p
    <2>1. m.ptr \cup {} = m.ptr
      OBVIOUS
    <2>q. QED BY <2>1
  <1> HIDE DEF broken, started
  <1>q. QED BY <1>7, <1>8, <1>9, <1>10

LEMMA Which ==
  /\ {"conns", "clks", "mainclk", "aciaclk", "callbacks", "signals"} \subseteq List
  /\ Anchor["conns"] = "emu" /\ Anchor["clks"] = "emu" /\ Anchor["mainclk"] = "mainclk"
  /\ Anchor["aciaclk"] = "aciaclk" /\ Anchor["callbacks"] = "via" /\ Anchor["signals"] = Static
  /\ Members["conns"] = {"rom_conn", "acia_conn", "via_conn", "ram_conn"}
  /\ Members["clks"] = {"aciaclk"} /\ Members["mainclk"] = {"rom_tick", "via_tick"}
  /\ Members["aciaclk"] = {"acia_tick"} /\ Members["callbacks"] = {"spi_cb"}
  /\ Members["signals"] = {"sigdata"}
  BY Lists DEF Anchor, Members

Conns == {"rom_conn", "acia_conn", "via_conn", "ram_conn"}
Leaves == Conns \cup {"rom_tick", "via_tick", "acia_tick", "spi_cb", "sigdata"}

LEMMA LeavesHoldNone ==
  ASSUME NEW e \in Leaves
  PROVE  e # Static /\ e \in Object /\ \A l \in List : Anchor[l] # e
  <1>1. \A l \in List : Anchor[l] \in {"emu", "mainclk", "aciaclk", "via", Static}
    BY Lists, Which
  <1>q. QED BY <1>1 DEF Leaves, Conns, Static, Object

Known(m, e) == (e \in m.ptr <=> e \in m.live) /\ (e \in m.live => e \in Linked(m))

LEMMA Unmaps ==
  ASSUME NEW m, Sound(m), NEW e \in Leaves, Known(m, e)
  PROVE  /\ Is(emu_bus_unregister(m, e), m.live \ {e}, m.ptr, Linked(m) \ {e})
         /\ Is(clock_unregister_tick(m, e), m.live \ {e}, m.ptr, Linked(m) \ {e})
  <1>1. Is(IF e \in m.ptr THEN free(list_remove(m, e), e) ELSE m,
           m.live \ {e}, m.ptr, Linked(m) \ {e})
    BY LeavesHoldNone, Unregistering DEF Known
  <1>q. QED BY <1>1 DEF emu_bus_unregister, clock_unregister_tick

LEMMA AciaCleans ==
  ASSUME NEW m, Sound(m), "acia" \in m.live, Known(m, "acia_conn"), Known(m, "acia_tick"),
         "trans" \in m.ptr => "trans" \in m.live /\ "thread" \in m.ptr
  PROVE  LET parts == {"acia", "acia_conn", "acia_tick"}
             sock  == IF "trans" \in m.ptr THEN {"server_sock", "eventfd", SocketName, "trans"} ELSE {}
         IN Is(acia_cleanup(m), m.live \ (parts \cup sock), m.ptr \ {"trans"},
               Linked(m) \ {"acia_conn", "acia_tick"})
  <1> DEFINE closed   == IF "trans" \in m.ptr THEN destroy_context(pthread_join(m)) ELSE m
             unmapped == emu_bus_unregister(closed, "acia_conn")
             unticked == clock_unregister_tick(unmapped, "acia_tick")
             sock     == IF "trans" \in m.ptr THEN {"server_sock", "eventfd", SocketName, "trans"} ELSE {}
  <1>0. {"acia", "acia_conn", "acia_tick"} \cap sock = {}
    BY DEF SocketName
  <1>1. Is(closed, m.live \ sock, m.ptr \ {"trans"}, Linked(m))
    <2>1. CASE "trans" \in m.ptr
      <3>1. pthread_join(m) = m
        BY <2>1 DEF pthread_join
      <3>q. QED BY <2>1, <3>1, DestroysContext
    <2>2. CASE "trans" \notin m.ptr
      <3>1. m.live \ {} = m.live /\ m.ptr \ {"trans"} = m.ptr
        BY <2>2
      <3>q. QED BY <2>2, <3>1 DEF Is
    <2>q. QED BY <2>1, <2>2
  <1> HIDE DEF closed, sock
  <1>2. Is(unmapped, closed.live \ {"acia_conn"}, closed.ptr, Linked(closed) \ {"acia_conn"})
    <2>1. Known(closed, "acia_conn") /\ "acia_conn" \in Leaves
      BY <1>0, <1>1 DEF Known, Is, Leaves, Conns
    <2>q. QED BY <1>1, <2>1, Unmaps DEF Is
  <1> HIDE DEF unmapped
  <1>3. Is(unticked, unmapped.live \ {"acia_tick"}, unmapped.ptr, Linked(unmapped) \ {"acia_tick"})
    <2>1. Known(unmapped, "acia_tick") /\ "acia_tick" \in Leaves
      BY <1>0, <1>1, <1>2 DEF Known, Is, Leaves, Conns
    <2>q. QED BY <1>2, <2>1, Unmaps DEF Is
  <1> HIDE DEF unticked
  <1>4. "acia" \in unticked.live /\ "acia" \in Plain
    BY <1>0, <1>1, <1>2, <1>3 DEF Is, Plain
  <1>5. Is(free(unticked, "acia"), unticked.live \ {"acia"}, unticked.ptr, Linked(unticked))
    BY <1>3, <1>4, FreesPlain DEF Is
  <1>6. unticked.live \ {"acia"} = m.live \ ({"acia", "acia_conn", "acia_tick"} \cup sock)
    BY <1>1, <1>2, <1>3 DEF Is
  <1>7. Linked(unticked) = Linked(m) \ {"acia_conn", "acia_tick"}
    BY <1>1, <1>2, <1>3 DEF Is
  <1>8. acia_cleanup(m) = free(unticked, "acia")
    BY DEF acia_cleanup, unticked, unmapped, closed
  <1>q. QED BY <1>1, <1>2, <1>3, <1>5, <1>6, <1>7, <1>8 DEF Is, sock

LEMMA AciaBegins ==
  ASSUME NEW m, Sound(m), {"acia", "acia_tick", "trans", "eventfd", "server_sock", "thread"} \cap m.live = {},
         {"acia", "acia_tick", "trans"} \cap m.ptr = {}, "aciaclk" \in m.live, "thread" \notin Fallible,
         NEW n \in acia_init(m)
  PROVE  \/ /\ Sound(n) /\ Linked(n) = Linked(m)
            /\ n.live \in {m.live \cup {"acia"}, (m.live \ {SocketName}) \cup {"acia"}}
            /\ \E p \in SUBSET {"eventfd", "server_sock"} : n.ptr = m.ptr \cup p
         \/ Is(n, m.live \cup {"acia"} \cup Sockets, m.ptr \cup SocketPtrs, Linked(m))
         \/ Is(n, m.live \cup {"acia", "acia_tick"} \cup Sockets, m.ptr \cup SocketPtrs \cup {"acia_tick"},
               Linked(m) \cup {"acia_tick"})
  <1> DEFINE made   == Made(m, "acia")
             bare   == Forget(made, "acia")
             opened == acia_unix_init(bare)
  <1>0. "acia" \in Object /\ SocketName # "acia" /\ "acia_tick" \notin Sockets \cup SocketPtrs
        /\ "trans" \in SocketPtrs
    BY DEF Object, SocketName, Sockets, SocketPtrs
  <1>1. Is(bare, m.live \cup {"acia"}, m.ptr, Linked(m))
    <2>1. Is(made, m.live \cup {"acia"}, m.ptr \cup {"acia"}, Linked(m))
      BY <1>0, Making
    <2> HIDE DEF made
    <2>2. Is(bare, made.live, made.ptr \ {"acia"}, Linked(made))
      BY <2>1, Forgetting DEF Is
    <2>3. (m.ptr \cup {"acia"}) \ {"acia"} = m.ptr
      OBVIOUS
    <2>q. QED BY <2>1, <2>2, <2>3 DEF Is
  <1>2. n \in {o \in opened : "trans" \notin o.ptr}
              \cup UNION {clock_register_tick(o, "aciaclk", "acia_tick") : o \in {x \in opened : "trans" \in x.ptr}}
    BY DEF acia_init
  <1> HIDE DEF bare
  <1>3. \A o \in opened :
          \/ /\ Sound(o) /\ Linked(o) = Linked(bare) /\ o.live \in {bare.live, bare.live \ {SocketName}}
             /\ \E p \in SUBSET {"eventfd", "server_sock"} : o.ptr = bare.ptr \cup p
          \/ Is(o, bare.live \cup Sockets, bare.ptr \cup SocketPtrs, Linked(bare))
    BY <1>1, OpensSockets DEF Is
  <1> HIDE DEF opened
  <1>4. ASSUME n \in opened, "trans" \notin n.ptr
        PROVE  /\ Sound(n) /\ Linked(n) = Linked(m)
               /\ n.live \in {m.live \cup {"acia"}, (m.live \ {SocketName}) \cup {"acia"}}
               /\ \E p \in SUBSET {"eventfd", "server_sock"} : n.ptr = m.ptr \cup p
    <2>1. ~Is(n, bare.live \cup Sockets, bare.ptr \cup SocketPtrs, Linked(bare))
      BY <1>0, <1>4 DEF Is
    <2>2. bare.live \ {SocketName} = (m.live \ {SocketName}) \cup {"acia"}
      BY <1>0, <1>1 DEF Is
    <2>q. QED BY <1>1, <1>3, <1>4, <2>1, <2>2 DEF Is
  <1>5. ASSUME NEW o \in opened, "trans" \in o.ptr, n \in clock_register_tick(o, "aciaclk", "acia_tick")
        PROVE  \/ Is(n, m.live \cup {"acia"} \cup Sockets, m.ptr \cup SocketPtrs, Linked(m))
               \/ Is(n, m.live \cup {"acia", "acia_tick"} \cup Sockets,
                     m.ptr \cup SocketPtrs \cup {"acia_tick"}, Linked(m) \cup {"acia_tick"})
    <2>1. Is(o, bare.live \cup Sockets, bare.ptr \cup SocketPtrs, Linked(bare))
      BY <1>1, <1>3, <1>5 DEF Is
    <2>2. Is(o, m.live \cup {"acia"} \cup Sockets, m.ptr \cup SocketPtrs, Linked(m))
      BY <1>1, <2>1 DEF Is
    <2>3. n \in Registered(o, "aciaclk", "acia_tick")
      BY <1>5 DEF clock_register_tick, Registered
    <2>4. /\ "aciaclk" \in List /\ "acia_tick" \in Members["aciaclk"]
          /\ Anchor["aciaclk"] = "aciaclk"
      BY Which
    <2>5. "acia_tick" \notin o.live /\ "acia_tick" \notin o.ptr /\ "aciaclk" \in o.live
      BY <1>0, <2>2 DEF Is
    <2>6. \/ n = o
          \/ Is(n, o.live \cup {"acia_tick"}, o.ptr \cup {"acia_tick"}, Linked(o) \cup {"acia_tick"})
      BY <2>2, <2>3, <2>4, <2>5, Registering DEF Is
    <2>7. o.live \cup {"acia_tick"} = m.live \cup {"acia", "acia_tick"} \cup Sockets
      BY <2>2 DEF Is
    <2>q. QED BY <2>2, <2>6, <2>7 DEF Is
  <1>q. QED BY <1>2, <1>4, <1>5

(* A device with a tick of the main clock: it is there with the tick, or not *)
(* at all.                                                                 *)
DeviceMade(m, d, t) ==
  {m} \cup {IF t \in n.ptr THEN n ELSE Forget(free(n, d), d) :
              n \in clock_register_tick(Made(m, d), "mainclk", t)}

LEMMA DeviceBegins ==
  ASSUME NEW m, Sound(m), NEW d \in {"rom", "via"}, NEW t \in {"rom_tick", "via_tick"},
         {d, t, "spi_cb"} \cap m.live = {}, {d, t} \cap m.ptr = {}, "mainclk" \in m.live,
         NEW n \in DeviceMade(m, d, t)
  PROVE  \/ Is(n, m.live, m.ptr, Linked(m))
         \/ Is(n, m.live \cup {d, t}, m.ptr \cup {d, t}, Linked(m) \cup {t})
  <1> DEFINE made == Made(m, d)
  <1>0. d \in Object /\ d # t
    BY DEF Object
  <1>1. Is(made, m.live \cup {d}, m.ptr \cup {d}, Linked(m))
    BY <1>0, Making
  <1> HIDE DEF made
  <1>2. n = m => Is(n, m.live, m.ptr, Linked(m))
    BY DEF Is
  <1>3. ASSUME NEW k \in clock_register_tick(made, "mainclk", t),
               n = IF t \in k.ptr THEN k ELSE Forget(free(k, d), d)
        PROVE  \/ Is(n, m.live, m.ptr, Linked(m))
               \/ Is(n, m.live \cup {d, t}, m.ptr \cup {d, t}, Linked(m) \cup {t})
    <2>1. k \in Registered(made, "mainclk", t)
      BY <1>3 DEF clock_register_tick, Registered
    <2>2. /\ "mainclk" \in List /\ t \in Members["mainclk"] /\ Anchor["mainclk"] = "mainclk"
      BY Which
    <2>3. t \notin made.live /\ t \notin made.ptr /\ "mainclk" \in made.live
      BY <1>0, <1>1 DEF Is
    <2>4. \/ k = made
          \/ Is(k, made.live \cup {t}, made.ptr \cup {t}, Linked(made) \cup {t})
      BY <1>1, <2>1, <2>2, <2>3, Registering DEF Is
    <2>5. CASE k = made
      <3>1. d # Static /\ d \notin Linked(made) /\ d \in made.live
        <4>1. Linked(m) \subseteq m.live
          BY InList, Which DEF Linked
        <4>q. QED BY <1>1, <4>1 DEF Is, Static
      <3>2. \A l \in List : Anchor[l] = d => Linked(made) \cap Members[l] = {}
        <4>1. \A l \in List : Anchor[l] = d => Members[l] = {"spi_cb"}
          BY Lists, Which DEF Static
        <4>2. "spi_cb" \notin Linked(made)
          <5>1. Linked(m) \subseteq m.live
            BY InList, Which DEF Linked
          <5>q. QED BY <1>1, <5>1 DEF Is
        <4>q. QED BY <4>1, <4>2
      <3>3. Is(free(made, d), made.live \ {d}, made.ptr, Linked(made))
        BY <1>1, <3>1, <3>2, Frees1 DEF Is
      <3> DEFINE f == free(made, d)
      <3> HIDE DEF f
      <3>4. Is(Forget(f, d), f.live, f.ptr \ {d}, Linked(f))
        BY <3>3, Forgetting DEF Is, f
      <3>5. n = Forget(f, d)
        BY <1>3, <2>3, <2>5 DEF f
      <3>6. (m.live \cup {d}) \ {d} = m.live /\ (m.ptr \cup {d}) \ {d} = m.ptr
        OBVIOUS
      <3>7. Is(f, m.live, m.ptr \cup {d}, Linked(m))
        BY <1>1, <3>3, <3>6 DEF Is, f
      <3>q. QED BY <3>4, <3>5, <3>6, <3>7 DEF Is
    <2>6. CASE Is(k, made.live \cup {t}, made.ptr \cup {t}, Linked(made) \cup {t})
      <3>1. n = k
        BY <1>3, <2>6 DEF Is
      <3>2. made.live \cup {t} = m.live \cup {d, t} /\ made.ptr \cup {t} = m.ptr \cup {d, t}
        BY <1>1 DEF Is
      <3>q. QED BY <1>1, <2>6, <3>1, <3>2 DEF Is
    <2>q. QED BY <2>4, <2>5, <2>6
  <1>q. QED BY <1>2, <1>3 DEF DeviceMade, made

LEMMA ViaCleans ==
  ASSUME NEW m, Sound(m), "via" \in m.live,
         Known(m, "via_conn"), Known(m, "via_tick"), "spi_cb" \in m.live => "spi_cb" \in Linked(m)
  PROVE  Is(via_cleanup(m), m.live \ {"via", "via_tick", "via_conn", "spi_cb"}, m.ptr,
            Linked(m) \ {"via_tick", "via_conn", "spi_cb"})
  <1> DEFINE unmapped == emu_bus_unregister(m, "via_conn")
             deaf     == list_free(unmapped, "callbacks")
             unticked == clock_unregister_tick(deaf, "via_tick")
  <1>1. Is(unmapped, m.live \ {"via_conn"}, m.ptr, Linked(m) \ {"via_conn"})
    <2>1. "via_conn" \in Leaves
      BY DEF Leaves, Conns
    <2>q. QED BY <2>1, Unmaps
  <1> HIDE DEF unmapped
  <1>2. Is(deaf, unmapped.live \ {"spi_cb"}, unmapped.ptr, Linked(unmapped) \ {"spi_cb"})
    <2>1. \A k \in List : Anchor[k] \notin {"spi_cb"}
      BY LeavesHoldNone DEF Leaves
    <2>2. "callbacks" \in List /\ Anchor["callbacks"] = "via" /\ Members["callbacks"] = {"spi_cb"}
      BY Which
    <2>3. "via" \in unmapped.live /\ {"spi_cb"} \cap unmapped.live \subseteq Linked(unmapped)
      BY <1>1 DEF Is
    <2>4. Static \notin {"spi_cb"}
      BY DEF Static
    <2>q. QED BY <1>1, <2>1, <2>2, <2>3, <2>4, Emptying DEF Is
  <1> HIDE DEF deaf
  <1>3. Is(unticked, deaf.live \ {"via_tick"}, deaf.ptr, Linked(deaf) \ {"via_tick"})
    <2>1. Known(deaf, "via_tick") /\ "via_tick" \in Leaves
      BY <1>1, <1>2 DEF Is, Known, Leaves
    <2>q. QED BY <1>2, <2>1, Unmaps DEF Is
  <1> HIDE DEF unticked
  <1>4. /\ "via" \in unticked.live /\ "via" # Static /\ "via" \notin Linked(unticked)
        /\ \A l \in List : Anchor[l] = "via" => Linked(unticked) \cap Members[l] = {}
    <2>1. \A l \in List : Anchor[l] = "via" => Members[l] = {"spi_cb"}
      BY Lists, Which DEF Static
    <2>2. "spi_cb" \notin Linked(unticked) /\ "via" \in unticked.live
      BY <1>1, <1>2, <1>3 DEF Is
    <2>3. "via" \notin Linked(unticked)
      <3>1. \A l \in List : ToSet(unticked.lists[l]) \subseteq Members[l]
        BY <1>3, InList DEF Is
      <3>2. \A l \in List : "via" \notin Members[l]
        BY Lists, Which
      <3>q. QED BY <3>1, <3>2 DEF Linked
    <2>q. QED BY <2>1, <2>2, <2>3 DEF Static
  <1>5. Is(free(unticked, "via"), unticked.live \ {"via"}, unticked.ptr, Linked(unticked))
    BY <1>3, <1>4, Frees1 DEF Is
  <1>6. unticked.live \ {"via"} = m.live \ {"via", "via_tick", "via_conn", "spi_cb"}
    BY <1>1, <1>2, <1>3 DEF Is
  <1>7. Linked(unticked) = Linked(m) \ {"via_tick", "via_conn", "spi_cb"}
    BY <1>1, <1>2, <1>3 DEF Is
  <1>8. via_cleanup(m) = free(unticked, "via")
    BY DEF via_cleanup, unticked, deaf, unmapped
  <1>q. QED BY <1>1, <1>2, <1>3, <1>5, <1>6, <1>7, <1>8 DEF Is

LEMMA MemoryCleans ==
  ASSUME NEW m, Sound(m), "ram" \in m.live, Known(m, "ram_conn")
  PROVE  Is(memory_cleanup(m), m.live \ {"ram", "ram_conn"}, m.ptr, Linked(m) \ {"ram_conn"})
  <1> DEFINE n == emu_bus_unregister(m, "ram_conn")
  <1>1. Is(n, m.live \ {"ram_conn"}, m.ptr, Linked(m) \ {"ram_conn"})
    <2>1. "ram_conn" \in Leaves
      BY DEF Leaves, Conns
    <2>q. QED BY <2>1, Unmaps
  <1> HIDE DEF n
  <1>2. "ram" \in n.live /\ "ram" \in Plain
    BY <1>1 DEF Is, Plain
  <1>3. Is(free(n, "ram"), n.live \ {"ram"}, n.ptr, Linked(n))
    BY <1>1, <1>2, FreesPlain DEF Is
  <1>4. n.live \ {"ram"} = m.live \ {"ram", "ram_conn"}
    BY <1>1 DEF Is
  <1>q. QED BY <1>1, <1>3, <1>4 DEF Is, memory_cleanup, n

LEMMA EntryForgotten ==
  ASSUME NEW m, Sound(m), NEW e \in Leaves, e \in Linked(m)
  PROVE  Is(Forget(free(list_remove(m, e), e), e), m.live \ {e}, m.ptr \ {e}, Linked(m) \ {e})
  <1> DEFINE n == list_remove(m, e)  f == free(n, e)
  <1>1. Is(n, m.live, m.ptr, Linked(m) \ {e})
    BY Unlinks
  <1>2. Linked(m) \subseteq m.live
    BY InList, Which DEF Linked
  <1> HIDE DEF n
  <1>3. Is(f, n.live \ {e}, n.ptr, Linked(n))
    BY <1>1, <1>2, LeavesHoldNone, Frees1 DEF Is
  <1> HIDE DEF f
  <1>4. Is(Forget(f, e), f.live, f.ptr \ {e}, Linked(f))
    BY <1>3, Forgetting DEF Is
  <1>q. QED BY <1>1, <1>3, <1>4 DEF Is, f, n

LEMMA ClockAdded ==
  ASSUME NEW m, Sound(m), "aciaclk" \notin m.live, "emu" \in m.live,
         NEW n \in clock_add(m, "aciaclk")
  PROVE  \/ n = m
         \/ Is(n, m.live \cup {"aciaclk"}, m.ptr \cup {"aciaclk"}, Linked(m) \cup {"aciaclk"})
  <1>1. PICK k \in Tried(m, "aciaclk") :
          n = IF "aciaclk" \in k.live THEN list_add_tail(k, "clks", "aciaclk") ELSE k
    BY DEF clock_add
  <1>2. CASE k = m
    BY <1>1, <1>2
  <1>3. CASE k = Made(m, "aciaclk")
    <2>0. /\ "clks" \in List /\ Anchor["clks"] = "emu" /\ "aciaclk" \in Members["clks"]
          /\ "aciaclk" \in Object
      BY Which, Lists
    <2>1. Is(k, m.live \cup {"aciaclk"}, m.ptr \cup {"aciaclk"}, Linked(m))
      BY <1>3, <2>0, Making
    <2>2. Linked(m) \subseteq m.live
      BY InList, Which DEF Linked
    <2>3. "aciaclk" \notin Linked(k) /\ "aciaclk" \in k.live /\ "emu" \in k.live
      BY <2>1, <2>2 DEF Is
    <2>4. Is(list_add_tail(k, "clks", "aciaclk"), k.live, k.ptr, Linked(k) \cup {"aciaclk"})
      BY <2>0, <2>1, <2>3, Links DEF Is
    <2>q. QED BY <1>1, <2>1, <2>3, <2>4 DEF Is
  <1>q. QED BY <1>1, <1>2, <1>3, Trying

LEMMA ClockRemoved ==
  ASSUME NEW m, Sound(m), "aciaclk" \in Linked(m), "acia_tick" \in m.live => "acia_tick" \in Linked(m)
  PROVE  Is(clock_remove(m, "aciaclk"), m.live \ {"aciaclk", "acia_tick"}, m.ptr,
            Linked(m) \ {"aciaclk", "acia_tick"})
  <1> DEFINE n == list_remove(m, "aciaclk")
             k == list_free(n, "aciaclk")
  <1>0. Linked(m) \subseteq m.live
    BY InList, Which DEF Linked
  <1>1. Is(n, m.live, m.ptr, Linked(m) \ {"aciaclk"})
    BY Unlinks
  <1> HIDE DEF n
  <1>2. Is(k, n.live \ {"acia_tick"}, n.ptr, Linked(n) \ {"acia_tick"})
    <2>1. \A l \in List : Anchor[l] \notin {"acia_tick"}
      BY LeavesHoldNone DEF Leaves
    <2>2. "aciaclk" \in List /\ Anchor["aciaclk"] = "aciaclk" /\ Members["aciaclk"] = {"acia_tick"}
      BY Which
    <2>3. "aciaclk" \in n.live /\ {"acia_tick"} \cap n.live \subseteq Linked(n)
      BY <1>0, <1>1 DEF Is
    <2>4. Static \notin {"acia_tick"}
      BY DEF Static
    <2>q. QED BY <1>1, <2>1, <2>2, <2>3, <2>4, Emptying DEF Is
  <1> HIDE DEF k
  <1>3. Is(free(k, "aciaclk"), k.live \ {"aciaclk"}, k.ptr, Linked(k))
    <2>1. \A l \in List : Anchor[l] = "aciaclk" => Members[l] = {"acia_tick"}
      BY Lists, Which DEF Static
    <2>2. "aciaclk" \in k.live /\ "aciaclk" \notin Linked(k) /\ "acia_tick" \notin Linked(k)
      BY <1>0, <1>1, <1>2 DEF Is
    <2>q. QED BY <1>2, <2>1, <2>2, Frees1 DEF Is, Static
  <1>4. k.live \ {"aciaclk"} = m.live \ {"aciaclk", "acia_tick"}
        /\ Linked(k) = Linked(m) \ {"aciaclk", "acia_tick"}
    BY <1>1, <1>2 DEF Is
  <1>q. QED BY <1>1, <1>2, <1>3, <1>4 DEF Is, clock_remove, clock_free_clk, n, k

LEMMA EmuCleans ==
  ASSUME NEW m, Sound(m), "emu" \in m.live,
         "mainclk" \in m.ptr <=> "mainclk" \in m.live,
         {"aciaclk", "acia_tick"} \cap m.live = {},
         {"rom_tick", "via_tick"} \cap m.live \subseteq Linked(m),
         "mainclk" \notin m.live => {"rom_tick", "via_tick"} \cap m.live = {},
         Conns \cap m.live \subseteq Linked(m)
  PROVE  LET all == {"emu", "mainclk", "rom_tick", "via_tick"} \cup Conns
         IN Is(emu_cleanup(m), m.live \ all, m.ptr, Linked(m) \ all)
  <1> DEFINE n == bus_cleanup(m)
             k == clock_cleanup(n)
             all == {"emu", "mainclk", "rom_tick", "via_tick"} \cup Conns
  <1>0. /\ "conns" \in List /\ Anchor["conns"] = "emu" /\ Members["conns"] = Conns
        /\ \A l \in List : Anchor[l] \notin Conns
        /\ Static \notin Conns
        /\ Conns \cap {"emu", "mainclk", "aciaclk", "acia_tick", "rom_tick", "via_tick"} = {}
    BY Which, LeavesHoldNone DEF Conns, Leaves, Static
  <1>1. Is(n, m.live \ Conns, m.ptr, Linked(m) \ Conns)
    BY <1>0, Emptying DEF bus_cleanup
  <1> HIDE DEF n
  <1>2. Is(k, n.live \ {"mainclk", "rom_tick", "via_tick"}, n.ptr, Linked(n) \ {"rom_tick", "via_tick"})
    <2>1. CASE "mainclk" \in m.live
      <3>1. /\ "mainclk" \in n.ptr /\ "mainclk" \in n.live
            /\ {"aciaclk", "acia_tick"} \cap n.live = {}
            /\ {"rom_tick", "via_tick"} \cap n.live \subseteq Linked(n)
        BY <1>0, <1>1, <2>1 DEF Is
      <3>q. QED BY <1>1, <3>1, CleansClocks DEF Is
    <2>2. CASE "mainclk" \notin m.live
      <3>1. k = n
        BY <1>1, <2>2 DEF clock_cleanup, Is
      <3>2. Linked(m) \subseteq m.live
        BY InList, Which DEF Linked
      <3>3. n.live \ {"mainclk", "rom_tick", "via_tick"} = n.live
        BY <1>1, <2>2 DEF Is
      <3>4. Linked(n) \ {"rom_tick", "via_tick"} = Linked(n)
        BY <1>1, <2>2, <3>2 DEF Is
      <3>q. QED BY <1>1, <3>1, <3>3, <3>4 DEF Is
    <2>q. QED BY <2>1, <2>2
  <1> HIDE DEF k
  <1>3. /\ "emu" \in k.live /\ "emu" # Static /\ "emu" \notin Linked(k)
        /\ \A l \in List : Anchor[l] = "emu" => Linked(k) \cap Members[l] = {}
    <2>1. \A l \in List : Anchor[l] = "emu" => Members[l] \in {Conns, {"aciaclk"}}
      BY <1>0, Lists, Which DEF Static
    <2>2. Linked(m) \subseteq m.live
      BY InList, Which DEF Linked
    <2>3. "aciaclk" \notin Linked(k) /\ Conns \cap Linked(k) = {}
      BY <1>1, <1>2, <2>2 DEF Is
    <2>4. "emu" \notin Linked(k)
      <3>1. \A l \in List : ToSet(k.lists[l]) \subseteq Members[l]
        BY <1>2, InList DEF Is
      <3>2. \A l \in List : "emu" \notin Members[l]
        BY Lists, Which
      <3>q. QED BY <3>1, <3>2 DEF Linked
    <2>5. "emu" \in k.live
      BY <1>0, <1>1, <1>2 DEF Is
    <2>q. QED BY <2>1, <2>3, <2>4, <2>5 DEF Static
  <1>4. Is(free(k, "emu"), k.live \ {"emu"}, k.ptr, Linked(k))
    BY <1>2, <1>3, Frees1 DEF Is
  <1>5. k.live \ {"emu"} = m.live \ all
    BY <1>1, <1>2 DEF Is
  <1>6. Linked(k) = Linked(m) \ all
    <2>1. "emu" \notin Linked(k) /\ "mainclk" \notin Linked(m)  /\ "emu" \notin Linked(m)
      <3>1. \A l \in List : ToSet(m.lists[l]) \subseteq Members[l]
        BY InList
      <3>2. \A l \in List : "emu" \notin Members[l] /\ "mainclk" \notin Members[l]
        BY Lists, Which
      <3>q. QED BY <1>3, <3>1, <3>2 DEF Linked
    <2>q. QED BY <1>1, <1>2, <2>1 DEF Is
  <1>7. emu_cleanup(m) = free(k, "emu")
    BY DEF emu_cleanup, k, n
  <1>q. QED BY <1>1, <1>2, <1>4, <1>5, <1>6, <1>7 DEF Is

-----------------------------------------------------------------------------
(* How far main is, as a number.  The join of an ACIA that was made without *)
(* a tick comes while the machine is built.                                *)
Position ==
  [emu |-> 0, rom |-> 1, map_rom |-> 2, acia_clk |-> 3, acia |-> 4, map_acia |-> 6, via |-> 7,
   map_via |-> 8, ram |-> 9, map_ram |-> 10, sdcard |-> 11, spi |-> 12, session |-> 13,
   labels |-> 14, sigaction |-> 15, sigadd |-> 16, prompt |-> 17, command |-> 18,
   unregister |-> 19, destroy |-> 20, free_rom |-> 21, free_ram |-> 22, free_via |-> 23,
   free_acia |-> 24, join |-> 25, free_clk |-> 26, free_emu |-> 27, exit |-> 28, killed |-> 29]

Where(s, ptr) == IF s = "join" /\ "acia" \notin ptr THEN 5 ELSE Position[s]

(* What there is when main is at this position.  An object is live only     *)
(* between the steps that make it and free it, and until then it is live   *)
(* if there is a pointer to it.                                            *)
Held(at, live, ptr, o, from, to) ==
  /\ o \in live => from < at /\ at <= to
  /\ at <= to => (o \in ptr <=> o \in live)

Owned(at, live, ptr) ==
  /\ Held(at, live, ptr, "emu", 0, 27) /\ Held(at, live, ptr, "mainclk", 0, 27)
  /\ Held(at, live, ptr, "rom", 1, 21) /\ Held(at, live, ptr, "rom_tick", 1, 27)
  /\ Held(at, live, ptr, "rom_conn", 2, 27) /\ Held(at, live, ptr, "aciaclk", 3, 26)
  /\ Held(at, live, ptr, "trans", 4, 25) /\ Held(at, live, ptr, "acia_tick", 4, 25)
  /\ Held(at, live, ptr, "acia_conn", 6, 25)
  /\ Held(at, live, ptr, "via", 7, 23) /\ Held(at, live, ptr, "via_tick", 7, 23)
  /\ Held(at, live, ptr, "via_conn", 8, 23)
  /\ Held(at, live, ptr, "ram", 9, 22) /\ Held(at, live, ptr, "ram_conn", 10, 22)
  /\ Held(at, live, ptr, "image_fd", 11, 28) /\ Held(at, live, ptr, "spi_cb", 12, 20)
  /\ Held(at, live, ptr, "debugger", 13, 28) /\ Held(at, live, ptr, "sigdata", 15, 19)

(* The ACIA, its transport, and the thread that reads.                      *)
AciaWhole(at, live, ptr) ==
  /\ "acia" \in live => 4 < at /\ at <= 25
  /\ at # 5 /\ at <= 25 => ("acia" \in ptr <=> "acia" \in live)
  /\ at = 5 => "acia" \in live /\ "acia" \notin ptr /\ "acia_tick" \notin live
  /\ "trans" \in live <=> "acia" \in live
  /\ "trans" \in live => "eventfd" \in live /\ "server_sock" \in live /\ "thread" \in ptr
  /\ ("eventfd" \in live \/ "server_sock" \in live \/ "thread" \in live
      \/ "acia_tick" \in live \/ "acia_conn" \in live) => "acia" \in live

(* What is called or read comes with what it needs.                         *)
Provided(at, live) ==
  /\ 0 < at /\ at <= 27 => "emu" \in live /\ "mainclk" \in live
  /\ at <= 21 => ("rom" \in live <=> "rom_tick" \in live)
  /\ at <= 21 /\ "rom_conn" \in live => "rom" \in live
  /\ "via" \in live <=> "via_tick" \in live
  /\ "via_conn" \in live \/ "spi_cb" \in live => "via" \in live
  /\ "ram_conn" \in live => "ram" \in live
  /\ "sigdata" \in live => "debugger" \in live
  /\ 2 <= at /\ at <= 19 => "rom" \in live
  /\ 4 <= at /\ at <= 19 => "aciaclk" \in live
  /\ 6 <= at /\ at <= 19 => "acia" \in live
  /\ 8 <= at /\ at <= 19 => "via" \in live
  /\ 10 <= at /\ at <= 19 => "ram" \in live
  /\ 14 <= at /\ at <= 19 => "debugger" \in live
  /\ at = 16 => "sigdata" \in live

(* An entry is linked as soon as it is there; sigdata a step later.         *)
Enrolled(at, live, linked) ==
  \A o : o \in linked <=>
    /\ o \in live
    /\ o \in Leaves \cup {"aciaclk"}
    /\ o = "sigdata" => 16 < at

Fit(at, live, ptr, linked) ==
  /\ Owned(at, live, ptr) /\ AciaWhole(at, live, ptr)
  /\ Provided(at, live) /\ Enrolled(at, live, linked)

LEMMA FitEmpty ==
  ASSUME NEW L, NEW P, NEW K, L \in {{Static}, {Static, SocketName}}
  PROVE  Fit(0, L, {}, {}) /\ Fit(29, L, {}, {})
  <1>1. ASSUME NEW o, o \in L PROVE o \in {"static", "acia.sock"}
    BY <1>1 DEF Static, SocketName
  <1>2. ASSUME NEW k \in {0, 29} PROVE Enrolled(k, L, {})
    BY <1>1 DEF Enrolled, Leaves, Conns
  <1>3. Fit(0, L, {}, {})
    BY <1>1, <1>2 DEF Fit, Owned, Held, AciaWhole, Provided
  <1>4. Fit(29, L, {}, {})
    BY <1>1, <1>2 DEF Fit, Owned, Held, AciaWhole, Provided
  <1>q. QED BY <1>3, <1>4

LEMMA FitEmu ==
  ASSUME NEW L, NEW P, NEW K, Fit(0, L, P, K)
  PROVE  Fit(1, L \cup {"emu", "mainclk"}, P \cup {"emu", "mainclk"}, K)
  BY DEF Fit, Owned, Held, AciaWhole, Provided, Enrolled, Leaves, Conns

LEMMA FitNoEmu ==
  ASSUME NEW L, NEW P, NEW K, Fit(0, L, P, K)
  PROVE  LET gone == {"emu", "mainclk", "rom_tick", "via_tick"} \cup Conns
         IN Fit(28, (L \cup {"emu"}) \ gone, (P \cup {"emu"}) \ {"emu"}, K \ gone)
  BY DEF Fit, Owned, Held, AciaWhole, Provided, Enrolled, Leaves, Conns

LEMMA FitRom ==
  ASSUME NEW L, NEW P, NEW K, Fit(1, L, P, K)
  PROVE  Fit(2, L \cup {"rom", "rom_tick"}, P \cup {"rom", "rom_tick"}, K \cup {"rom_tick"})
  BY DEF Fit, Owned, Held, AciaWhole, Provided, Enrolled, Leaves, Conns

LEMMA FitRomMap ==
  ASSUME NEW L, NEW P, NEW K, Fit(2, L, P, K)
  PROVE  Fit(3, L, P, K) /\ Fit(3, L \cup {"rom_conn"}, P \cup {"rom_conn"}, K \cup {"rom_conn"})
  BY DEF Fit, Owned, Held, AciaWhole, Provided, Enrolled, Leaves, Conns

LEMMA FitClk ==
  ASSUME NEW L, NEW P, NEW K, Fit(3, L, P, K)
  PROVE  Fit(4, L \cup {"aciaclk"}, P \cup {"aciaclk"}, K \cup {"aciaclk"})
  BY DEF Fit, Owned, Held, AciaWhole, Provided, Enrolled, Leaves, Conns

LEMMA FitQuits ==
  ASSUME NEW L, NEW P, NEW K, NEW k \in 1 .. 14, k # 5, Fit(k, L, P, K)
  PROVE  Fit(20, L, P, K)
  BY DEF Fit, Owned, Held, AciaWhole, Provided, Enrolled, Leaves, Conns

LEMMA FitAciaFails ==
  ASSUME NEW L, NEW P, NEW K, Fit(4, L, P, K), NEW p \in SUBSET {"eventfd", "server_sock"}, NEW M \in {L, L \ {SocketName}}
  PROVE  Fit(20, M, P \cup p, K)
  BY DEF Fit, Owned, Held, AciaWhole, Provided, Enrolled, Leaves, Conns, SocketName

LEMMA FitAciaEarly ==
  ASSUME NEW L, NEW P, NEW K, Fit(4, L, P, K)
  PROVE  Fit(5, L \cup {"acia"} \cup Sockets, P \cup SocketPtrs, K)
  BY DEF Fit, Owned, Held, AciaWhole, Provided, Enrolled, Leaves, Conns, Sockets, SocketPtrs, SocketName

LEMMA FitAcia ==
  ASSUME NEW L, NEW P, NEW K, Fit(4, L, P, K)
  PROVE  Fit(6, L \cup {"acia", "acia_tick"} \cup Sockets,
             P \cup SocketPtrs \cup {"acia_tick"} \cup {"acia"}, K \cup {"acia_tick"})
  BY DEF Fit, Owned, Held, AciaWhole, Provided, Enrolled, Leaves, Conns, Sockets, SocketPtrs, SocketName

LEMMA FitAciaMap ==
  ASSUME NEW L, NEW P, NEW K, Fit(6, L, P, K)
  PROVE  Fit(7, L, P, K) /\ Fit(7, L \cup {"acia_conn"}, P \cup {"acia_conn"}, K \cup {"acia_conn"})
  BY DEF Fit, Owned, Held, AciaWhole, Provided, Enrolled, Leaves, Conns

LEMMA FitVia ==
  ASSUME NEW L, NEW P, NEW K, Fit(7, L, P, K)
  PROVE  Fit(8, L \cup {"via", "via_tick"}, P \cup {"via", "via_tick"}, K \cup {"via_tick"})
  BY DEF Fit, Owned, Held, AciaWhole, Provided, Enrolled, Leaves, Conns

LEMMA FitViaMap ==
  ASSUME NEW L, NEW P, NEW K, Fit(8, L, P, K)
  PROVE  Fit(9, L, P, K) /\ Fit(9, L \cup {"via_conn"}, P \cup {"via_conn"}, K \cup {"via_conn"})
  BY DEF Fit, Owned, Held, AciaWhole, Provided, Enrolled, Leaves, Conns

LEMMA FitRam ==
  ASSUME NEW L, NEW P, NEW K, Fit(9, L, P, K)
  PROVE  Fit(10, L \cup {"ram"}, P \cup {"ram"}, K)
  BY DEF Fit, Owned, Held, AciaWhole, Provided, Enrolled, Leaves, Conns

LEMMA FitRamMap ==
  ASSUME NEW L, NEW P, NEW K, Fit(10, L, P, K)
  PROVE  Fit(11, L, P, K) /\ Fit(11, L \cup {"ram_conn"}, P \cup {"ram_conn"}, K \cup {"ram_conn"})
  BY DEF Fit, Owned, Held, AciaWhole, Provided, Enrolled, Leaves, Conns

LEMMA FitSd ==
  ASSUME NEW L, NEW P, NEW K, Fit(11, L, P, K)
  PROVE  Fit(12, L, P, K) /\ Fit(12, L \cup {"image_fd"}, P \cup {"image_fd"}, K)
  BY DEF Fit, Owned, Held, AciaWhole, Provided, Enrolled, Leaves, Conns

LEMMA FitSpi ==
  ASSUME NEW L, NEW P, NEW K, Fit(12, L, P, K)
  PROVE  Fit(13, L \cup {"spi_cb"}, P \cup {"spi_cb"}, K \cup {"spi_cb"})
  BY DEF Fit, Owned, Held, AciaWhole, Provided, Enrolled, Leaves, Conns

LEMMA FitSession ==
  ASSUME NEW L, NEW P, NEW K, Fit(13, L, P, K)
  PROVE  Fit(14, L \cup {"debugger"}, P \cup {"debugger"}, K)
  BY DEF Fit, Owned, Held, AciaWhole, Provided, Enrolled, Leaves, Conns

LEMMA FitLabels ==
  ASSUME NEW L, NEW P, NEW K, Fit(14, L, P, K)
  PROVE  Fit(15, L, P, K)
  BY DEF Fit, Owned, Held, AciaWhole, Provided, Enrolled, Leaves, Conns

LEMMA FitAction ==
  ASSUME NEW L, NEW P, NEW K, Fit(15, L, P, K)
  PROVE  Fit(17, L, P, K) /\ Fit(16, L \cup {"sigdata"}, P \cup {"sigdata"}, K)
  <1>1. Fit(17, L, P, K)
    BY DEF Fit, Owned, Held, AciaWhole, Provided, Enrolled, Leaves, Conns
  <1> DEFINE M == L \cup {"sigdata"}  Q == P \cup {"sigdata"}
  <1>2. Enrolled(16, M, K)
    <2>1. "sigdata" \notin L
      BY DEF Fit, Owned, Held
    <2>2. Enrolled(15, L, K)
      BY DEF Fit
    <2>3. ASSUME NEW o PROVE o \in K <=> o \in M /\ o \in Leaves \cup {"aciaclk"} /\ (o = "sigdata" => 16 < 16)
      <3>1. o \in K <=> o \in L /\ o \in Leaves \cup {"aciaclk"}
        BY <2>1, <2>2 DEF Enrolled
      <3>q. QED BY <2>1, <3>1
    <2> HIDE DEF M
    <2>q. QED BY <2>3 DEF Enrolled
  <1>3. Owned(16, M, Q)
    BY DEF Fit, Owned, Held, AciaWhole, Provided, Enrolled, Leaves, Conns
  <1>4. AciaWhole(16, M, Q)
    BY DEF Fit, Owned, Held, AciaWhole, Provided, Enrolled, Leaves, Conns
  <1>5. Provided(16, M)
    BY DEF Fit, Owned, Held, AciaWhole, Provided, Enrolled, Leaves, Conns
  <1>q. QED BY <1>1, <1>2, <1>3, <1>4, <1>5 DEF Fit

LEMMA FitAdd ==
  ASSUME NEW L, NEW P, NEW K, Fit(16, L, P, K)
  PROVE  Fit(17, L, P, K \cup {"sigdata"})
  BY DEF Fit, Owned, Held, AciaWhole, Provided, Enrolled, Leaves, Conns

LEMMA FitPrompt ==
  ASSUME NEW L, NEW P, NEW K, NEW j \in {17, 18}, NEW k \in {17, 18, 19}, Fit(j, L, P, K)
  PROVE  Fit(k, L, P, K)
  BY DEF Fit, Owned, Held, AciaWhole, Provided, Enrolled, Leaves, Conns

LEMMA FitUnregister ==
  ASSUME NEW L, NEW P, NEW K, Fit(19, L, P, K)
  PROVE  Fit(20, L \ {"sigdata"}, P \ {"sigdata"}, K \ {"sigdata"})
  BY DEF Fit, Owned, Held, AciaWhole, Provided, Enrolled, Leaves, Conns

LEMMA FitSpiGone ==
  ASSUME NEW L, NEW P, NEW K, Fit(20, L, P, K)
  PROVE  Fit(21, L \ {"spi_cb"}, P \ {"spi_cb"}, K \ {"spi_cb"})
         /\ ("spi_cb" \notin P => Fit(21, L, P, K))
  BY DEF Fit, Owned, Held, AciaWhole, Provided, Enrolled, Leaves, Conns

LEMMA FitRomGone ==
  ASSUME NEW L, NEW P, NEW K, Fit(21, L, P, K)
  PROVE  Fit(22, L \ {"rom"}, P, K)
         /\ ("rom" \notin P => Fit(22, L, P, K))
  BY DEF Fit, Owned, Held, AciaWhole, Provided, Enrolled, Leaves, Conns

LEMMA FitRamGone ==
  ASSUME NEW L, NEW P, NEW K, Fit(22, L, P, K)
  PROVE  Fit(23, L \ {"ram", "ram_conn"}, P, K \ {"ram_conn"})
         /\ ("ram" \notin P => Fit(23, L, P, K))
  BY DEF Fit, Owned, Held, AciaWhole, Provided, Enrolled, Leaves, Conns

LEMMA FitViaGone ==
  ASSUME NEW L, NEW P, NEW K, Fit(23, L, P, K)
  PROVE  Fit(24, L \ {"via", "via_tick", "via_conn", "spi_cb"}, P, K \ {"via_tick", "via_conn", "spi_cb"})
         /\ ("via" \notin P => Fit(24, L, P, K))
  BY DEF Fit, Owned, Held, AciaWhole, Provided, Enrolled, Leaves, Conns

LEMMA FitStop ==
  ASSUME NEW L, NEW P, NEW K, Fit(24, L, P, K)
  PROVE  IF "acia" \in P THEN Fit(25, L, P, K) ELSE Fit(26, L, P, K)
  BY DEF Fit, Owned, Held, AciaWhole, Provided, Enrolled, Leaves, Conns

LEMMA FitJoin ==
  ASSUME NEW L, NEW P, NEW K, Fit(25, L, P, K), "thread" \notin L
  PROVE  LET parts == {"acia", "acia_conn", "acia_tick"}
             sock  == {"server_sock", "eventfd", SocketName, "trans"}
         IN Fit(26, L \ (parts \cup sock), P \ {"trans"}, K \ {"acia_conn", "acia_tick"})
  BY DEF Fit, Owned, Held, AciaWhole, Provided, Enrolled, Leaves, Conns, SocketName

LEMMA FitJoinEarly ==
  ASSUME NEW L, NEW P, NEW K, Fit(5, L, P, K), "thread" \notin L
  PROVE  LET parts == {"acia", "acia_conn", "acia_tick"}
             sock  == {"server_sock", "eventfd", SocketName, "trans"}
         IN Fit(20, L \ (parts \cup sock), P \ {"trans"}, K \ {"acia_conn", "acia_tick"})
  BY DEF Fit, Owned, Held, AciaWhole, Provided, Enrolled, Leaves, Conns, SocketName

LEMMA FitClkGone ==
  ASSUME NEW L, NEW P, NEW K, Fit(26, L, P, K)
  PROVE  Fit(27, L \ {"aciaclk", "acia_tick"}, P, K \ {"aciaclk", "acia_tick"})
         /\ ("aciaclk" \notin P => Fit(27, L, P, K))
  BY DEF Fit, Owned, Held, AciaWhole, Provided, Enrolled, Leaves, Conns

LEMMA FitEmuGone ==
  ASSUME NEW L, NEW P, NEW K, Fit(27, L, P, K)
  PROVE  LET all == {"emu", "mainclk", "rom_tick", "via_tick"} \cup Conns
         IN Fit(28, L \ all, P, K \ all)
  BY DEF Fit, Owned, Held, AciaWhole, Provided, Enrolled, Leaves, Conns

LEMMA FitThread ==
  ASSUME NEW L, NEW P, NEW K, NEW k \in 0 .. 29, Fit(k, L, P, K)
  PROVE  Fit(k, L \ {"thread"}, P, K)
  BY DEF Fit, Owned, Held, AciaWhole, Provided, Enrolled, Leaves, Conns

-----------------------------------------------------------------------------
(* The invariant.  In the first run the name of the socket is there only    *)
(* while its ACIA is.                                                      *)
Named == stage # "killed" /\ runs = 1 /\ SocketName \in mem.live => "acia" \in mem.live

FitNow(k) == Fit(k, mem.live, mem.ptr, Linked(mem))

Standing ==
  /\ stage \in DOMAIN Position /\ Sound(mem) /\ FitNow(Where(stage, mem.ptr))
  /\ Named /\ runs \in Nat \ {0}

LEMMA Positions ==
  /\ Position["emu"] = 0 /\ Position["rom"] = 1 /\ Position["map_rom"] = 2
  /\ Position["acia_clk"] = 3 /\ Position["acia"] = 4 /\ Position["map_acia"] = 6
  /\ Position["via"] = 7 /\ Position["map_via"] = 8 /\ Position["ram"] = 9
  /\ Position["map_ram"] = 10 /\ Position["sdcard"] = 11 /\ Position["spi"] = 12
  /\ Position["session"] = 13 /\ Position["labels"] = 14 /\ Position["sigaction"] = 15
  /\ Position["sigadd"] = 16 /\ Position["prompt"] = 17 /\ Position["command"] = 18
  /\ Position["unregister"] = 19 /\ Position["destroy"] = 20 /\ Position["free_rom"] = 21
  /\ Position["free_ram"] = 22 /\ Position["free_via"] = 23 /\ Position["free_acia"] = 24
  /\ Position["join"] = 25 /\ Position["free_clk"] = 26 /\ Position["free_emu"] = 27
  /\ Position["exit"] = 28 /\ Position["killed"] = 29
  BY DEF Position

LEMMA Stages ==
  DOMAIN Position =
    {"emu", "rom", "map_rom", "acia_clk", "acia", "map_acia", "via", "map_via", "ram", "map_ram",
     "sdcard", "spi", "session", "labels", "sigaction", "sigadd", "prompt", "command",
     "unregister", "destroy", "free_rom", "free_ram", "free_via", "free_acia", "join",
     "free_clk", "free_emu", "exit", "killed"}
  BY DEF Position

LEMMA Here ==
  ASSUME Standing, stage # "join"
  PROVE  FitNow(Position[stage])
  BY DEF Standing, Where

LEMMA There ==
  ASSUME Standing, stage # "killed", runs' = runs,
         NEW L, NEW P, NEW K, Is(mem', L, P, K),
         stage' \in DOMAIN Position, stage' # "join", Fit(Position[stage'], L, P, K),
         SocketName \in L => SocketName \in mem.live,
         SocketName \in L /\ "acia" \in mem.live => "acia" \in L
  PROVE  Standing'
  <1>1. Where(stage, mem.ptr)' = Position[stage']
    BY DEF Where
  <1>2. FitNow(Where(stage, mem.ptr))'
    BY <1>1 DEF FitNow, Is
  <1>3. Named'
    <2>1. runs = 1 /\ SocketName \in mem.live => "acia" \in mem.live
      BY DEF Standing, Named
    <2>2. mem'.live = L
      BY DEF Is
    <2>3. runs' = 1 /\ SocketName \in mem'.live => "acia" \in mem'.live
      BY <2>1, <2>2
    <2>q. QED BY <2>3 DEF Named
  <1>q. QED BY <1>2, <1>3 DEF Standing, Is

LEMMA RomMapStands ==
  ASSUME Standing, RomMap, runs' = runs
  PROVE  Standing'
  <1>1. /\ stage = "map_rom" /\ stage' = "acia_clk" /\ mem' \in Registered(mem, "conns", "rom_conn")
    BY DEF RomMap, Maps, Builds, Goto, at28c256_register, emu_bus_register, Registered
  <1>2. FitNow(2)
    BY <1>1, Here, Positions
  <1>3. /\ "rom_conn" \notin mem.live /\ "rom_conn" \notin mem.ptr /\ "emu" \in mem.live
    BY <1>2 DEF FitNow, Fit, Owned, Held, Provided
  <1>4. \/ Is(mem', mem.live, mem.ptr, Linked(mem))
        \/ Is(mem', mem.live \cup {"rom_conn"}, mem.ptr \cup {"rom_conn"}, Linked(mem) \cup {"rom_conn"})
    BY <1>1, <1>3, Which, Registering DEF Standing, Is
  <1>5. stage' \in DOMAIN Position /\ stage' # "join" /\ Position[stage'] = 3
    BY <1>1, Positions, Stages
  <1>6. SocketName # "rom_conn"
    BY DEF SocketName
  <1>7. CASE Is(mem', mem.live, mem.ptr, Linked(mem))
    BY <1>1, <1>2, <1>5, <1>7, There, FitRomMap DEF FitNow
  <1>8. CASE Is(mem', mem.live \cup {"rom_conn"}, mem.ptr \cup {"rom_conn"}, Linked(mem) \cup {"rom_conn"})
    BY <1>1, <1>2, <1>5, <1>6, <1>8, There, FitRomMap DEF FitNow
  <1>q. QED BY <1>4, <1>7, <1>8

LEMMA AciaMapStands ==
  ASSUME Standing, AciaMap, runs' = runs
  PROVE  Standing'
  <1>1. /\ stage = "map_acia" /\ stage' = "via" /\ mem' \in Registered(mem, "conns", "acia_conn")
    BY DEF AciaMap, Maps, Builds, Goto, acia_register, emu_bus_register, Registered
  <1>2. FitNow(6)
    BY <1>1, Here, Positions
  <1>3. /\ "acia_conn" \notin mem.live /\ "acia_conn" \notin mem.ptr /\ "emu" \in mem.live
    BY <1>2 DEF FitNow, Fit, Owned, Held, Provided
  <1>4. \/ Is(mem', mem.live, mem.ptr, Linked(mem))
        \/ Is(mem', mem.live \cup {"acia_conn"}, mem.ptr \cup {"acia_conn"}, Linked(mem) \cup {"acia_conn"})
    BY <1>1, <1>3, Which, Registering DEF Standing, Is
  <1>5. stage' \in DOMAIN Position /\ stage' # "join" /\ Position[stage'] = 7
    BY <1>1, Positions, Stages
  <1>6. SocketName # "acia_conn"
    BY DEF SocketName
  <1>7. CASE Is(mem', mem.live, mem.ptr, Linked(mem))
    BY <1>1, <1>2, <1>5, <1>7, There, FitAciaMap DEF FitNow
  <1>8. CASE Is(mem', mem.live \cup {"acia_conn"}, mem.ptr \cup {"acia_conn"}, Linked(mem) \cup {"acia_conn"})
    BY <1>1, <1>2, <1>5, <1>6, <1>8, There, FitAciaMap DEF FitNow
  <1>q. QED BY <1>4, <1>7, <1>8

LEMMA ViaMapStands ==
  ASSUME Standing, ViaMap, runs' = runs
  PROVE  Standing'
  <1>1. /\ stage = "map_via" /\ stage' = "ram" /\ mem' \in Registered(mem, "conns", "via_conn")
    BY DEF ViaMap, Maps, Builds, Goto, via_register, emu_bus_register, Registered
  <1>2. FitNow(8)
    BY <1>1, Here, Positions
  <1>3. /\ "via_conn" \notin mem.live /\ "via_conn" \notin mem.ptr /\ "emu" \in mem.live
    BY <1>2 DEF FitNow, Fit, Owned, Held, Provided
  <1>4. \/ Is(mem', mem.live, mem.ptr, Linked(mem))
        \/ Is(mem', mem.live \cup {"via_conn"}, mem.ptr \cup {"via_conn"}, Linked(mem) \cup {"via_conn"})
    BY <1>1, <1>3, Which, Registering DEF Standing, Is
  <1>5. stage' \in DOMAIN Position /\ stage' # "join" /\ Position[stage'] = 9
    BY <1>1, Positions, Stages
  <1>6. SocketName # "via_conn"
    BY DEF SocketName
  <1>7. CASE Is(mem', mem.live, mem.ptr, Linked(mem))
    BY <1>1, <1>2, <1>5, <1>7, There, FitViaMap DEF FitNow
  <1>8. CASE Is(mem', mem.live \cup {"via_conn"}, mem.ptr \cup {"via_conn"}, Linked(mem) \cup {"via_conn"})
    BY <1>1, <1>2, <1>5, <1>6, <1>8, There, FitViaMap DEF FitNow
  <1>q. QED BY <1>4, <1>7, <1>8

LEMMA RamMapStands ==
  ASSUME Standing, RamMap, runs' = runs
  PROVE  Standing'
  <1>1. /\ stage = "map_ram" /\ stage' = "sdcard" /\ mem' \in Registered(mem, "conns", "ram_conn")
    BY DEF RamMap, Maps, Builds, Goto, memory_register, emu_bus_register, Registered
  <1>2. FitNow(10)
    BY <1>1, Here, Positions
  <1>3. /\ "ram_conn" \notin mem.live /\ "ram_conn" \notin mem.ptr /\ "emu" \in mem.live
    BY <1>2 DEF FitNow, Fit, Owned, Held, Provided
  <1>4. \/ Is(mem', mem.live, mem.ptr, Linked(mem))
        \/ Is(mem', mem.live \cup {"ram_conn"}, mem.ptr \cup {"ram_conn"}, Linked(mem) \cup {"ram_conn"})
    BY <1>1, <1>3, Which, Registering DEF Standing, Is
  <1>5. stage' \in DOMAIN Position /\ stage' # "join" /\ Position[stage'] = 11
    BY <1>1, Positions, Stages
  <1>6. SocketName # "ram_conn"
    BY DEF SocketName
  <1>7. CASE Is(mem', mem.live, mem.ptr, Linked(mem))
    BY <1>1, <1>2, <1>5, <1>7, There, FitRamMap DEF FitNow
  <1>8. CASE Is(mem', mem.live \cup {"ram_conn"}, mem.ptr \cup {"ram_conn"}, Linked(mem) \cup {"ram_conn"})
    BY <1>1, <1>2, <1>5, <1>6, <1>8, There, FitRamMap DEF FitNow
  <1>q. QED BY <1>4, <1>7, <1>8

LEMMA RomInitStands ==
  ASSUME Standing, RomInit, runs' = runs
  PROVE  Standing'
  <1>1. /\ stage = "rom" /\ mem' \in DeviceMade(mem, "rom", "rom_tick")
        /\ stage' = IF "rom" \in mem'.ptr THEN "map_rom" ELSE "destroy"
    BY DEF RomInit, Builds, Goto, at28c256_init, DeviceMade
  <1>2. FitNow(1)
    BY <1>1, Here, Positions
  <1>3. /\ {"rom", "rom_tick", "spi_cb"} \cap mem.live = {} /\ {"rom", "rom_tick"} \cap mem.ptr = {}
        /\ "mainclk" \in mem.live
    BY <1>2 DEF FitNow, Fit, Owned, Held, Provided
  <1>4. \/ Is(mem', mem.live, mem.ptr, Linked(mem))
        \/ Is(mem', mem.live \cup {"rom", "rom_tick"}, mem.ptr \cup {"rom", "rom_tick"}, Linked(mem) \cup {"rom_tick"})
    BY <1>1, <1>3, DeviceBegins DEF Standing
  <1>5. CASE Is(mem', mem.live, mem.ptr, Linked(mem))
    <2>1. stage' = "destroy"
      BY <1>1, <1>3, <1>5 DEF Is
    <2>2. stage' \in DOMAIN Position /\ stage' # "join" /\ Position[stage'] = 20
      BY <2>1, Positions, Stages
    <2>3. Fit(20, mem.live, mem.ptr, Linked(mem))
      BY <1>2, FitQuits DEF FitNow
    <2>q. QED BY <1>1, <1>5, <2>2, <2>3, There
  <1>6. CASE Is(mem', mem.live \cup {"rom", "rom_tick"}, mem.ptr \cup {"rom", "rom_tick"}, Linked(mem) \cup {"rom_tick"})
    <2>1. stage' = "map_rom"
      BY <1>1, <1>6 DEF Is
    <2>2. stage' \in DOMAIN Position /\ stage' # "join" /\ Position[stage'] = 2
      BY <2>1, Positions, Stages
    <2>3. SocketName \notin {"rom", "rom_tick"}
      BY DEF SocketName
    <2>q. QED BY <1>1, <1>2, <1>6, <2>2, <2>3, There, FitRom DEF FitNow
  <1>q. QED BY <1>4, <1>5, <1>6

LEMMA ViaInitStands ==
  ASSUME Standing, ViaInit, runs' = runs
  PROVE  Standing'
  <1>1. /\ stage = "via" /\ mem' \in DeviceMade(mem, "via", "via_tick")
        /\ stage' = IF "via" \in mem'.ptr THEN "map_via" ELSE "destroy"
    BY DEF ViaInit, Builds, Goto, via_init, DeviceMade
  <1>2. FitNow(7)
    BY <1>1, Here, Positions
  <1>3. /\ {"via", "via_tick", "spi_cb"} \cap mem.live = {} /\ {"via", "via_tick"} \cap mem.ptr = {}
        /\ "mainclk" \in mem.live
    BY <1>2 DEF FitNow, Fit, Owned, Held, Provided
  <1>4. \/ Is(mem', mem.live, mem.ptr, Linked(mem))
        \/ Is(mem', mem.live \cup {"via", "via_tick"}, mem.ptr \cup {"via", "via_tick"}, Linked(mem) \cup {"via_tick"})
    BY <1>1, <1>3, DeviceBegins DEF Standing
  <1>5. CASE Is(mem', mem.live, mem.ptr, Linked(mem))
    <2>1. stage' = "destroy"
      BY <1>1, <1>3, <1>5 DEF Is
    <2>2. stage' \in DOMAIN Position /\ stage' # "join" /\ Position[stage'] = 20
      BY <2>1, Positions, Stages
    <2>3. Fit(20, mem.live, mem.ptr, Linked(mem))
      BY <1>2, FitQuits DEF FitNow
    <2>q. QED BY <1>1, <1>5, <2>2, <2>3, There
  <1>6. CASE Is(mem', mem.live \cup {"via", "via_tick"}, mem.ptr \cup {"via", "via_tick"}, Linked(mem) \cup {"via_tick"})
    <2>1. stage' = "map_via"
      BY <1>1, <1>6 DEF Is
    <2>2. stage' \in DOMAIN Position /\ stage' # "join" /\ Position[stage'] = 8
      BY <2>1, Positions, Stages
    <2>3. SocketName \notin {"via", "via_tick"}
      BY DEF SocketName
    <2>q. QED BY <1>1, <1>2, <1>6, <2>2, <2>3, There, FitVia DEF FitNow
  <1>q. QED BY <1>4, <1>5, <1>6

LEMMA AciaClkAddStands ==
  ASSUME Standing, AciaClkAdd, runs' = runs
  PROVE  Standing'
  <1>1. /\ stage = "acia_clk" /\ mem' \in clock_add(mem, "aciaclk")
        /\ stage' = IF "aciaclk" \in mem'.ptr THEN "acia" ELSE "destroy"
    BY DEF AciaClkAdd, Builds, Goto
  <1>2. FitNow(3)
    BY <1>1, Here, Positions
  <1>3. "aciaclk" \notin mem.live /\ "aciaclk" \notin mem.ptr /\ "emu" \in mem.live
    BY <1>2 DEF FitNow, Fit, Owned, Held, Provided, Object
  <1>4. \/ Is(mem', mem.live, mem.ptr, Linked(mem))
        \/ Is(mem', mem.live \cup {"aciaclk"}, mem.ptr \cup {"aciaclk"}, Linked(mem) \cup {"aciaclk"})
    BY <1>1, <1>3, ClockAdded DEF Standing, Is
  <1>5. CASE Is(mem', mem.live, mem.ptr, Linked(mem))
    <2>1. stage' = "destroy"
      BY <1>1, <1>3, <1>5 DEF Is
    <2>2. stage' \in DOMAIN Position /\ stage' # "join" /\ Position[stage'] = 20
      BY <2>1, Positions, Stages
    <2>3. Fit(20, mem.live, mem.ptr, Linked(mem))
      BY <1>2, FitQuits DEF FitNow
    <2>q. QED BY <1>1, <1>5, <2>2, <2>3, There
  <1>6. CASE Is(mem', mem.live \cup {"aciaclk"}, mem.ptr \cup {"aciaclk"}, Linked(mem) \cup {"aciaclk"})
    <2>1. stage' = "acia"
      BY <1>1, <1>6 DEF Is
    <2>2. stage' \in DOMAIN Position /\ stage' # "join" /\ Position[stage'] = 4
      BY <2>1, Positions, Stages
    <2>3. SocketName # "aciaclk"
      BY DEF SocketName
    <2>q. QED BY <1>1, <1>2, <1>6, <2>2, <2>3, There, FitClk DEF FitNow
  <1>q. QED BY <1>4, <1>5, <1>6

LEMMA RamInitStands ==
  ASSUME Standing, RamInit, runs' = runs
  PROVE  Standing'
  <1>1. /\ stage = "ram" /\ mem' \in Tried(mem, "ram")
        /\ stage' = IF "ram" \in mem'.ptr THEN "map_ram" ELSE "destroy"
    BY DEF RamInit, Builds, Goto
  <1>2. FitNow(9)
    BY <1>1, Here, Positions
  <1>3. "ram" \notin mem.live /\ "ram" \notin mem.ptr /\ "ram" \in Object
    BY <1>2 DEF FitNow, Fit, Owned, Held, Provided, Object
  <1>4. \/ Is(mem', mem.live, mem.ptr, Linked(mem))
        \/ Is(mem', mem.live \cup {"ram"}, mem.ptr \cup {"ram"}, Linked(mem))
    BY <1>1, <1>3, Trying, Making DEF Standing, Is
  <1>5. CASE Is(mem', mem.live, mem.ptr, Linked(mem))
    <2>1. stage' = "destroy"
      BY <1>1, <1>3, <1>5 DEF Is
    <2>2. stage' \in DOMAIN Position /\ stage' # "join" /\ Position[stage'] = 20
      BY <2>1, Positions, Stages
    <2>3. Fit(20, mem.live, mem.ptr, Linked(mem))
      BY <1>2, FitQuits DEF FitNow
    <2>q. QED BY <1>1, <1>5, <2>2, <2>3, There
  <1>6. CASE Is(mem', mem.live \cup {"ram"}, mem.ptr \cup {"ram"}, Linked(mem))
    <2>1. stage' = "map_ram"
      BY <1>1, <1>6 DEF Is
    <2>2. stage' \in DOMAIN Position /\ stage' # "join" /\ Position[stage'] = 10
      BY <2>1, Positions, Stages
    <2>3. SocketName # "ram"
      BY DEF SocketName
    <2>q. QED BY <1>1, <1>2, <1>6, <2>2, <2>3, There, FitRam DEF FitNow
  <1>q. QED BY <1>4, <1>5, <1>6

LEMMA SdInitStands ==
  ASSUME Standing, SdInit, runs' = runs
  PROVE  Standing'
  <1>1. /\ stage = "sdcard" /\ mem' \in Tried(mem, "image_fd")
        /\ stage' = "spi"
    BY DEF SdInit, Builds, Goto
  <1>2. FitNow(11)
    BY <1>1, Here, Positions
  <1>3. "image_fd" \notin mem.live /\ "image_fd" \notin mem.ptr /\ "image_fd" \in Object
    BY <1>2 DEF FitNow, Fit, Owned, Held, Provided, Object
  <1>4. \/ Is(mem', mem.live, mem.ptr, Linked(mem))
        \/ Is(mem', mem.live \cup {"image_fd"}, mem.ptr \cup {"image_fd"}, Linked(mem))
    BY <1>1, <1>3, Trying, Making DEF Standing, Is
  <1>5. CASE Is(mem', mem.live, mem.ptr, Linked(mem))
    <2>2. stage' \in DOMAIN Position /\ stage' # "join" /\ Position[stage'] = 12
      BY <1>1, Positions, Stages
    <2>3. Fit(12, mem.live, mem.ptr, Linked(mem))
      BY <1>2, FitSd DEF FitNow
    <2>q. QED BY <1>1, <1>5, <2>2, <2>3, There
  <1>6. CASE Is(mem', mem.live \cup {"image_fd"}, mem.ptr \cup {"image_fd"}, Linked(mem))
    <2>1. stage' = "spi"
      BY <1>1, <1>6 DEF Is
    <2>2. stage' \in DOMAIN Position /\ stage' # "join" /\ Position[stage'] = 12
      BY <2>1, Positions, Stages
    <2>3. SocketName # "image_fd"
      BY DEF SocketName
    <2>q. QED BY <1>1, <1>2, <1>6, <2>2, <2>3, There, FitSd DEF FitNow
  <1>q. QED BY <1>4, <1>5, <1>6

LEMMA SpiInitStands ==
  ASSUME Standing, SpiInit, runs' = runs
  PROVE  Standing'
  <1>1. /\ stage = "spi" /\ mem' \in via_register_callback(mem, "spi_cb")
        /\ stage' = IF "spi_cb" \in mem'.ptr THEN "session" ELSE "destroy"
    BY DEF SpiInit, Builds, Goto, bitbang_spi_init
  <1>2. FitNow(12)
    BY <1>1, Here, Positions
  <1>3. "spi_cb" \notin mem.live /\ "spi_cb" \notin mem.ptr /\ "via" \in mem.live
    BY <1>2 DEF FitNow, Fit, Owned, Held, Provided, Object
  <1>4. mem' \in Registered(mem, "callbacks", "spi_cb")
    <2>1. Uses(mem, {"via"}) = mem
      BY <1>3, UseLive DEF Standing
    <2>q. QED BY <1>1, <2>1 DEF via_register_callback, Registered
  <1>5. \/ Is(mem', mem.live, mem.ptr, Linked(mem))
        \/ Is(mem', mem.live \cup {"spi_cb"}, mem.ptr \cup {"spi_cb"}, Linked(mem) \cup {"spi_cb"})
    BY <1>3, <1>4, Which, Registering DEF Standing, Is
  <1>6. CASE Is(mem', mem.live, mem.ptr, Linked(mem))
    <2>1. stage' = "destroy"
      BY <1>1, <1>3, <1>6 DEF Is
    <2>2. stage' \in DOMAIN Position /\ stage' # "join" /\ Position[stage'] = 20
      BY <2>1, Positions, Stages
    <2>3. Fit(20, mem.live, mem.ptr, Linked(mem))
      BY <1>2, FitQuits DEF FitNow
    <2>q. QED BY <1>1, <1>6, <2>2, <2>3, There
  <1>7. CASE Is(mem', mem.live \cup {"spi_cb"}, mem.ptr \cup {"spi_cb"}, Linked(mem) \cup {"spi_cb"})
    <2>1. stage' = "session"
      BY <1>1, <1>7 DEF Is
    <2>2. stage' \in DOMAIN Position /\ stage' # "join" /\ Position[stage'] = 13
      BY <2>1, Positions, Stages
    <2>3. SocketName # "spi_cb"
      BY DEF SocketName
    <2>q. QED BY <1>1, <1>2, <1>7, <2>2, <2>3, There, FitSpi DEF FitNow
  <1>q. QED BY <1>5, <1>6, <1>7

LEMMA DebugInitStands ==
  ASSUME Standing, DebugInit, runs' = runs
  PROVE  Standing'
  <1>1. /\ stage = "session" /\ mem' \in Tried(mem, "debugger")
        /\ stage' = IF "debugger" \in mem'.ptr THEN "labels" ELSE "destroy"
    BY DEF DebugInit, Builds, Goto
  <1>2. FitNow(13)
    BY <1>1, Here, Positions
  <1>3. "debugger" \notin mem.live /\ "debugger" \notin mem.ptr /\ "debugger" \in Object
    BY <1>2 DEF FitNow, Fit, Owned, Held, Provided, Object
  <1>4. \/ Is(mem', mem.live, mem.ptr, Linked(mem))
        \/ Is(mem', mem.live \cup {"debugger"}, mem.ptr \cup {"debugger"}, Linked(mem))
    BY <1>1, <1>3, Trying, Making DEF Standing, Is
  <1>5. CASE Is(mem', mem.live, mem.ptr, Linked(mem))
    <2>1. stage' = "destroy"
      BY <1>1, <1>3, <1>5 DEF Is
    <2>2. stage' \in DOMAIN Position /\ stage' # "join" /\ Position[stage'] = 20
      BY <2>1, Positions, Stages
    <2>3. Fit(20, mem.live, mem.ptr, Linked(mem))
      BY <1>2, FitQuits DEF FitNow
    <2>q. QED BY <1>1, <1>5, <2>2, <2>3, There
  <1>6. CASE Is(mem', mem.live \cup {"debugger"}, mem.ptr \cup {"debugger"}, Linked(mem))
    <2>1. stage' = "labels"
      BY <1>1, <1>6 DEF Is
    <2>2. stage' \in DOMAIN Position /\ stage' # "join" /\ Position[stage'] = 14
      BY <2>1, Positions, Stages
    <2>3. SocketName # "debugger"
      BY DEF SocketName
    <2>q. QED BY <1>1, <1>2, <1>6, <2>2, <2>3, There, FitSession DEF FitNow
  <1>q. QED BY <1>4, <1>5, <1>6

LEMMA EmuInitStands ==
  ASSUME Standing, EmuInit, runs' = runs, "emu" \notin Fallible
  PROVE  Standing'
  <1> DEFINE made == Made(mem, "emu")
  <1>1. stage = "emu" /\ FitNow(0)
    BY Here, Positions DEF EmuInit
  <1>2. PICK m \in Tried(made, "mainclk") :
          IF "mainclk" \in m.ptr
          THEN mem' = m /\ stage' = "rom"
          ELSE mem' = Forget(emu_cleanup(m), "emu") /\ stage' = "exit"
    BY DEF EmuInit, Goto
  <1>3. /\ "mainclk" \notin mem.live /\ "mainclk" \notin mem.ptr /\ mem.live \cap Conns = {}
        /\ {"emu", "aciaclk", "acia_tick", "rom_tick", "via_tick"} \cap mem.live = {}
    BY <1>1 DEF FitNow, Fit, Owned, Held, Conns
  <1>4. "emu" \in Object /\ "mainclk" \in Object
    BY DEF Object
  <1>5. Is(made, mem.live \cup {"emu"}, mem.ptr \cup {"emu"}, Linked(mem))
    BY <1>4, Making DEF Standing
  <1> HIDE DEF made
  <1>6. CASE m = Made(made, "mainclk")
    <2>1. Is(m, made.live \cup {"mainclk"}, made.ptr \cup {"mainclk"}, Linked(made))
      BY <1>4, <1>5, <1>6, Making DEF Is
    <2>2. /\ made.live \cup {"mainclk"} = mem.live \cup {"emu", "mainclk"}
          /\ made.ptr \cup {"mainclk"} = mem.ptr \cup {"emu", "mainclk"}
      BY <1>5 DEF Is
    <2>3. Is(m, mem.live \cup {"emu", "mainclk"}, mem.ptr \cup {"emu", "mainclk"}, Linked(mem))
      BY <1>5, <2>1, <2>2 DEF Is
    <2>4. mem' = m /\ stage' = "rom"
      BY <1>2, <2>3 DEF Is
    <2>5. stage' \in DOMAIN Position /\ stage' # "join" /\ Position[stage'] = 1
      BY <2>4, Positions, Stages
    <2>6. SocketName \notin {"emu", "mainclk"}
      BY DEF SocketName
    <2>q. QED BY <1>1, <2>3, <2>4, <2>5, <2>6, There, FitEmu DEF FitNow
  <1>7. CASE m = made
    <2> DEFINE all == {"emu", "mainclk", "rom_tick", "via_tick"} \cup Conns
               n == emu_cleanup(m)
    <2>1. "mainclk" \notin m.ptr /\ "mainclk" \notin m.live /\ "emu" \in m.live
      BY <1>3, <1>5, <1>7 DEF Is
    <2>2. Is(n, m.live \ all, m.ptr, Linked(m) \ all)
      <3>1. /\ {"aciaclk", "acia_tick"} \cap m.live = {} /\ {"rom_tick", "via_tick"} \cap m.live = {}
            /\ Conns \cap m.live = {}
        BY <1>3, <1>5, <1>7 DEF Is, Conns
      <3>2. Sound(m)
        BY <1>5, <1>7 DEF Is
      <3>q. QED BY <2>1, <3>1, <3>2, EmuCleans
    <2> HIDE DEF n, all
    <2>3. Is(Forget(n, "emu"), n.live, n.ptr \ {"emu"}, Linked(n))
      BY <2>2, Forgetting DEF Is
    <2>4. mem' = Forget(n, "emu") /\ stage' = "exit"
      BY <1>2, <2>1 DEF n
    <2>5. Is(mem', (mem.live \cup {"emu"}) \ all, (mem.ptr \cup {"emu"}) \ {"emu"}, Linked(mem) \ all)
      BY <1>5, <1>7, <2>2, <2>3, <2>4 DEF Is
    <2>6. stage' \in DOMAIN Position /\ stage' # "join" /\ Position[stage'] = 28
      BY <2>4, Positions, Stages
    <2>7. Fit(28, (mem.live \cup {"emu"}) \ all, (mem.ptr \cup {"emu"}) \ {"emu"}, Linked(mem) \ all)
      BY <1>1, FitNoEmu DEF FitNow, all
    <2>8. SocketName # "emu" /\ "acia" \notin all
      BY DEF SocketName, all, Conns
    <2>q. QED BY <1>1, <2>5, <2>6, <2>7, <2>8, There
  <1>q. QED BY <1>2, <1>6, <1>7, Trying

LEMMA AciaInitStands ==
  ASSUME Standing, AciaInit, runs' = runs, "thread" \notin Fallible
  PROVE  Standing'
  <1>1. stage = "acia" /\ FitNow(4)
    BY Here, Positions DEF AciaInit
  <1>2. PICK m \in {mem} \cup acia_init(mem) :
          IF "acia" \notin m.live
          THEN mem' = m /\ stage' = "destroy"
          ELSE IF "trans" \notin m.ptr
          THEN mem' = acia_cleanup(m) /\ stage' = "destroy"
          ELSE IF "acia_tick" \notin m.ptr
          THEN mem' = m /\ stage' = "join"
          ELSE mem' = [m EXCEPT !.ptr = @ \cup {"acia"}] /\ stage' = "map_acia"
    BY DEF AciaInit, Goto
  <1>3. /\ {"acia", "acia_tick", "acia_conn", "trans", "eventfd", "server_sock", "thread"} \cap mem.live = {}
        /\ {"acia", "acia_tick", "acia_conn", "trans"} \cap mem.ptr = {} /\ "aciaclk" \in mem.live
    BY <1>1 DEF FitNow, Fit, Owned, Held, AciaWhole, Provided
  <1>4. /\ "destroy" \in DOMAIN Position /\ Position["destroy"] = 20
        /\ "map_acia" \in DOMAIN Position /\ Position["map_acia"] = 6
        /\ "join" \in DOMAIN Position
    BY Positions, Stages
  <1>5. /\ {"acia", "trans", "acia_tick"} \subseteq Object
        /\ SocketName \notin {"acia", "acia_tick", "acia_conn", "trans", "eventfd", "server_sock"}
    BY DEF Object, SocketName
  <1>6. CASE m = mem
    <2>1. Is(mem', mem.live, mem.ptr, Linked(mem)) /\ stage' = "destroy"
      BY <1>2, <1>3, <1>6 DEF Standing, Is
    <2>2. Fit(20, mem.live, mem.ptr, Linked(mem))
      BY <1>1, FitQuits DEF FitNow
    <2>q. QED BY <1>1, <1>4, <2>1, <2>2, There
  <1>7. ASSUME Sound(m), Linked(m) = Linked(mem),
               m.live \in {mem.live \cup {"acia"}, (mem.live \ {SocketName}) \cup {"acia"}},
               NEW p \in SUBSET {"eventfd", "server_sock"}, m.ptr = mem.ptr \cup p
        PROVE  Standing'
    <2>1. mem' = acia_cleanup(m) /\ stage' = "destroy"
      BY <1>2, <1>3, <1>7
    <2>2. Linked(m) \subseteq m.live
      BY <1>7, InList, Which DEF Linked
    <2>3. /\ Known(m, "acia_conn") /\ Known(m, "acia_tick") /\ "trans" \notin m.ptr /\ "acia" \in m.live
      BY <1>3, <1>5, <1>7 DEF Known
    <2>4. Is(mem', m.live \ {"acia", "acia_conn", "acia_tick"}, m.ptr \ {"trans"},
             Linked(m) \ {"acia_conn", "acia_tick"})
      <3>1. {"acia", "acia_conn", "acia_tick"} \cup {} = {"acia", "acia_conn", "acia_tick"}
        OBVIOUS
      <3>q. QED BY <1>7, <2>1, <2>3, <3>1, AciaCleans
    <2>5. /\ m.live \ {"acia", "acia_conn", "acia_tick"} \in {mem.live, mem.live \ {SocketName}}
          /\ m.ptr \ {"trans"} = mem.ptr \cup p
          /\ Linked(m) \ {"acia_conn", "acia_tick"} = Linked(mem)
      BY <1>3, <1>5, <1>7, <2>2
    <2> DEFINE M == m.live \ {"acia", "acia_conn", "acia_tick"}
    <2>6. Is(mem', M, mem.ptr \cup p, Linked(mem))
      BY <2>4, <2>5
    <2>7. Fit(20, M, mem.ptr \cup p, Linked(mem))
      BY <1>1, <2>5, FitAciaFails DEF FitNow
    <2>8. SocketName \in M => SocketName \in mem.live /\ "acia" \notin mem.live
      BY <1>3, <2>5
    <2> HIDE DEF M
    <2>q. QED BY <1>1, <1>4, <2>1, <2>6, <2>7, <2>8, There
  <1>8. CASE Is(m, mem.live \cup {"acia"} \cup Sockets, mem.ptr \cup SocketPtrs, Linked(mem))
    <2>1. /\ "acia" \in m.live /\ "trans" \in m.ptr /\ "acia_tick" \notin m.ptr /\ "acia" \notin m.ptr
      BY <1>3, <1>8 DEF Is, SocketPtrs
    <2>2. mem' = m /\ stage' = "join"
      BY <1>2, <2>1
    <2>3. Where(stage, mem.ptr)' = 5
      BY <2>1, <2>2 DEF Where
    <2>4. Fit(5, mem.live \cup {"acia"} \cup Sockets, mem.ptr \cup SocketPtrs, Linked(mem))
      BY <1>1, FitAciaEarly DEF FitNow
    <2>5. FitNow(Where(stage, mem.ptr))' /\ Named' /\ Sound(mem')
      BY <1>8, <2>1, <2>2, <2>3, <2>4 DEF FitNow, Is, Named
    <2>q. QED BY <1>4, <2>2, <2>5 DEF Standing
  <1>9. CASE Is(m, mem.live \cup {"acia", "acia_tick"} \cup Sockets,
                mem.ptr \cup SocketPtrs \cup {"acia_tick"}, Linked(mem) \cup {"acia_tick"})
    <2>1. /\ "acia" \in m.live /\ "trans" \in m.ptr /\ "acia_tick" \in m.ptr
      BY <1>3, <1>9 DEF Is, SocketPtrs
    <2>2. mem' = [m EXCEPT !.ptr = m.ptr \cup {"acia"}] /\ stage' = "map_acia"
      BY <1>2, <2>1
    <2>3. m.ptr \cup {"acia"} \subseteq Object /\ Sound(m) /\ {} \subseteq Object
      BY <1>5, <1>9 DEF Is, Sound, MemoryType
    <2>4. Is(mem', m.live, m.ptr \cup {"acia"}, Linked(m))
      BY <2>2, <2>3, Remake
    <2>5. Fit(6, m.live, m.ptr \cup {"acia"}, Linked(m))
      BY <1>1, <1>9, FitAcia DEF FitNow, Is
    <2>6. Where(stage, mem.ptr)' = 6
      BY <1>4, <2>2 DEF Where
    <2>7. FitNow(Where(stage, mem.ptr))' /\ Named' /\ Sound(mem')
      BY <2>1, <2>4, <2>5, <2>6 DEF FitNow, Is, Named
    <2>q. QED BY <1>4, <2>2, <2>7 DEF Standing
  <1>10. CASE m \in acia_init(mem)
    <2>1. Sound(mem)
      BY DEF Standing
    <2>2. \/ /\ Sound(m) /\ Linked(m) = Linked(mem)
             /\ m.live \in {mem.live \cup {"acia"}, (mem.live \ {SocketName}) \cup {"acia"}}
             /\ \E p \in SUBSET {"eventfd", "server_sock"} : m.ptr = mem.ptr \cup p
          \/ Is(m, mem.live \cup {"acia"} \cup Sockets, mem.ptr \cup SocketPtrs, Linked(mem))
          \/ Is(m, mem.live \cup {"acia", "acia_tick"} \cup Sockets,
                mem.ptr \cup SocketPtrs \cup {"acia_tick"}, Linked(mem) \cup {"acia_tick"})
      BY <1>3, <1>10, <2>1, AciaBegins
    <2>q. QED BY <1>7, <1>8, <1>9, <2>2
  <1>q. QED BY <1>2, <1>6, <1>10

LEMMA Afters ==
  /\ After("destroy") = "free_rom" /\ After("free_rom") = "free_ram" /\ After("free_ram") = "free_via"
  /\ After("free_via") = "free_acia" /\ After("free_acia") = "free_clk"
  /\ After("free_clk") = "free_emu" /\ After("free_emu") = "exit"
  <1>1. /\ DOMAIN DestroyOrder = 1 .. 8
        /\ DestroyOrder[1] = "destroy" /\ DestroyOrder[2] = "free_rom" /\ DestroyOrder[3] = "free_ram"
        /\ DestroyOrder[4] = "free_via" /\ DestroyOrder[5] = "free_acia" /\ DestroyOrder[6] = "free_clk"
        /\ DestroyOrder[7] = "free_emu" /\ DestroyOrder[8] = "exit"
    BY DEF DestroyOrder
  <1> HIDE DEF DestroyOrder
  <1>2. ASSUME NEW i \in 1 .. 7 PROVE After(DestroyOrder[i]) = DestroyOrder[i + 1]
    <2>1. ASSUME NEW k \in 1 .. 8, DestroyOrder[k] = DestroyOrder[i] PROVE k = i
      BY <1>1, <2>1
    <2>2. (CHOOSE k \in DOMAIN DestroyOrder : DestroyOrder[k] = DestroyOrder[i]) = i
      BY <1>1, <2>1
    <2>q. QED BY <2>2 DEF After
  <1>q. QED BY <1>1, <1>2

LEMMA SpiCleanupStands ==
  ASSUME Standing, SpiCleanup, runs' = runs
  PROVE  Standing'
  <1>1. /\ stage = "destroy" /\ stage' = "free_rom"
        /\ mem' = IF "spi_cb" \in mem.ptr THEN bitbang_spi_cleanup(mem) ELSE mem
    BY Afters DEF SpiCleanup, Frees, Goto
  <1>2. FitNow(20) /\ Sound(mem)
    BY <1>1, Here, Positions DEF Standing
  <1>3. stage' \in DOMAIN Position /\ stage' # "join" /\ Position[stage'] = 21
    BY <1>1, Positions, Stages
  <1>4. CASE "spi_cb" \in mem.ptr
    <2>1. "spi_cb" \in Linked(mem) /\ "spi_cb" \in Leaves
      BY <1>2, <1>4 DEF FitNow, Fit, Owned, Held, Provided, Enrolled, Leaves, Conns
    <2>2. Is(mem', mem.live \ {"spi_cb"}, mem.ptr \ {"spi_cb"}, Linked(mem) \ {"spi_cb"})
      BY <1>1, <1>2, <1>4, <2>1, EntryForgotten DEF bitbang_spi_cleanup, via_unregister_callback
    <2>3. SocketName \notin {"spi_cb"} /\ "acia" \notin {"spi_cb"}
      BY DEF SocketName
    <2>4. Fit(21, mem.live \ {"spi_cb"}, mem.ptr \ {"spi_cb"}, Linked(mem) \ {"spi_cb"})
      BY <1>2, FitSpiGone DEF FitNow
    <2>q. QED BY <1>1, <1>3, <2>2, <2>3, <2>4, There
  <1>5. CASE "spi_cb" \notin mem.ptr
    <2>1. Is(mem', mem.live, mem.ptr, Linked(mem))
      BY <1>1, <1>2, <1>5 DEF Is
    <2>2. Fit(21, mem.live, mem.ptr, Linked(mem))
      BY <1>2, <1>5, FitSpiGone DEF FitNow
    <2>q. QED BY <1>1, <1>3, <2>1, <2>2, There
  <1>q. QED BY <1>4, <1>5

LEMMA RomDestroyStands ==
  ASSUME Standing, RomDestroy, runs' = runs
  PROVE  Standing'
  <1>1. /\ stage = "free_rom" /\ stage' = "free_ram"
        /\ mem' = IF "rom" \in mem.ptr THEN at28c256_destroy(mem) ELSE mem
    BY Afters DEF RomDestroy, Frees, Goto
  <1>2. FitNow(21) /\ Sound(mem)
    BY <1>1, Here, Positions DEF Standing
  <1>3. stage' \in DOMAIN Position /\ stage' # "join" /\ Position[stage'] = 22
    BY <1>1, Positions, Stages
  <1>4. CASE "rom" \in mem.ptr
    <2>1. "rom" \in mem.live /\ "rom" \in Plain
      BY <1>2, <1>4 DEF FitNow, Fit, Owned, Held, Plain
    <2>2. Is(mem', mem.live \ {"rom"}, mem.ptr, Linked(mem))
      BY <1>1, <1>2, <1>4, <2>1, FreesPlain DEF at28c256_destroy
    <2>3. SocketName \notin {"rom"} /\ "acia" \notin {"rom"}
      BY DEF SocketName
    <2>4. Fit(22, mem.live \ {"rom"}, mem.ptr, Linked(mem))
      BY <1>2, FitRomGone DEF FitNow
    <2>q. QED BY <1>1, <1>3, <2>2, <2>3, <2>4, There
  <1>5. CASE "rom" \notin mem.ptr
    <2>1. Is(mem', mem.live, mem.ptr, Linked(mem))
      BY <1>1, <1>2, <1>5 DEF Is
    <2>2. Fit(22, mem.live, mem.ptr, Linked(mem))
      BY <1>2, <1>5, FitRomGone DEF FitNow
    <2>q. QED BY <1>1, <1>3, <2>1, <2>2, There
  <1>q. QED BY <1>4, <1>5

LEMMA RamCleanupStands ==
  ASSUME Standing, RamCleanup, runs' = runs
  PROVE  Standing'
  <1>1. /\ stage = "free_ram" /\ stage' = "free_via"
        /\ mem' = IF "ram" \in mem.ptr THEN memory_cleanup(mem) ELSE mem
    BY Afters DEF RamCleanup, Frees, Goto
  <1>2. FitNow(22) /\ Sound(mem)
    BY <1>1, Here, Positions DEF Standing
  <1>3. stage' \in DOMAIN Position /\ stage' # "join" /\ Position[stage'] = 23
    BY <1>1, Positions, Stages
  <1>4. CASE "ram" \in mem.ptr
    <2>1. "ram" \in mem.live /\ Known(mem, "ram_conn")
      BY <1>2, <1>4 DEF FitNow, Fit, Owned, Held, Provided, Enrolled, Leaves, Conns, Known
    <2>2. Is(mem', mem.live \ {"ram", "ram_conn"}, mem.ptr, Linked(mem) \ {"ram_conn"})
      BY <1>1, <1>2, <1>4, <2>1, MemoryCleans
    <2>3. SocketName \notin {"ram", "ram_conn"} /\ "acia" \notin {"ram", "ram_conn"}
      BY DEF SocketName
    <2>4. Fit(23, mem.live \ {"ram", "ram_conn"}, mem.ptr, Linked(mem) \ {"ram_conn"})
      BY <1>2, FitRamGone DEF FitNow
    <2>q. QED BY <1>1, <1>3, <2>2, <2>3, <2>4, There
  <1>5. CASE "ram" \notin mem.ptr
    <2>1. Is(mem', mem.live, mem.ptr, Linked(mem))
      BY <1>1, <1>2, <1>5 DEF Is
    <2>2. Fit(23, mem.live, mem.ptr, Linked(mem))
      BY <1>2, <1>5, FitRamGone DEF FitNow
    <2>q. QED BY <1>1, <1>3, <2>1, <2>2, There
  <1>q. QED BY <1>4, <1>5

LEMMA ViaCleanupStands ==
  ASSUME Standing, ViaCleanup, runs' = runs
  PROVE  Standing'
  <1>1. /\ stage = "free_via" /\ stage' = "free_acia"
        /\ mem' = IF "via" \in mem.ptr THEN via_cleanup(mem) ELSE mem
    BY Afters DEF ViaCleanup, Frees, Goto
  <1>2. FitNow(23) /\ Sound(mem)
    BY <1>1, Here, Positions DEF Standing
  <1>3. stage' \in DOMAIN Position /\ stage' # "join" /\ Position[stage'] = 24
    BY <1>1, Positions, Stages
  <1>4. CASE "via" \in mem.ptr
    <2>1. /\ "via" \in mem.live /\ Known(mem, "via_conn") /\ Known(mem, "via_tick")
          /\ "spi_cb" \in mem.live => "spi_cb" \in Linked(mem)
      BY <1>2, <1>4 DEF FitNow, Fit, Owned, Held, Provided, Enrolled, Leaves, Conns, Known
    <2>2. Is(mem', mem.live \ {"via", "via_tick", "via_conn", "spi_cb"}, mem.ptr, Linked(mem) \ {"via_tick", "via_conn", "spi_cb"})
      BY <1>1, <1>2, <1>4, <2>1, ViaCleans
    <2>3. SocketName \notin {"via", "via_tick", "via_conn", "spi_cb"} /\ "acia" \notin {"via", "via_tick", "via_conn", "spi_cb"}
      BY DEF SocketName
    <2>4. Fit(24, mem.live \ {"via", "via_tick", "via_conn", "spi_cb"}, mem.ptr, Linked(mem) \ {"via_tick", "via_conn", "spi_cb"})
      BY <1>2, FitViaGone DEF FitNow
    <2>q. QED BY <1>1, <1>3, <2>2, <2>3, <2>4, There
  <1>5. CASE "via" \notin mem.ptr
    <2>1. Is(mem', mem.live, mem.ptr, Linked(mem))
      BY <1>1, <1>2, <1>5 DEF Is
    <2>2. Fit(24, mem.live, mem.ptr, Linked(mem))
      BY <1>2, <1>5, FitViaGone DEF FitNow
    <2>q. QED BY <1>1, <1>3, <2>1, <2>2, There
  <1>q. QED BY <1>4, <1>5

LEMMA ClkRemoveStands ==
  ASSUME Standing, ClkRemove, runs' = runs
  PROVE  Standing'
  <1>1. /\ stage = "free_clk" /\ stage' = "free_emu"
        /\ mem' = IF "aciaclk" \in mem.ptr THEN clock_remove(mem, "aciaclk") ELSE mem
    BY Afters DEF ClkRemove, Frees, Goto
  <1>2. FitNow(26) /\ Sound(mem)
    BY <1>1, Here, Positions DEF Standing
  <1>3. stage' \in DOMAIN Position /\ stage' # "join" /\ Position[stage'] = 27
    BY <1>1, Positions, Stages
  <1>4. CASE "aciaclk" \in mem.ptr
    <2>1. "aciaclk" \in Linked(mem) /\ ("acia_tick" \in mem.live => "acia_tick" \in Linked(mem))
      BY <1>2, <1>4 DEF FitNow, Fit, Owned, Held, Provided, Enrolled, Leaves, Conns
    <2>2. Is(mem', mem.live \ {"aciaclk", "acia_tick"}, mem.ptr, Linked(mem) \ {"aciaclk", "acia_tick"})
      BY <1>1, <1>2, <1>4, <2>1, ClockRemoved
    <2>3. SocketName \notin {"aciaclk", "acia_tick"} /\ "acia" \notin {"aciaclk", "acia_tick"}
      BY DEF SocketName
    <2>4. Fit(27, mem.live \ {"aciaclk", "acia_tick"}, mem.ptr, Linked(mem) \ {"aciaclk", "acia_tick"})
      BY <1>2, FitClkGone DEF FitNow
    <2>q. QED BY <1>1, <1>3, <2>2, <2>3, <2>4, There
  <1>5. CASE "aciaclk" \notin mem.ptr
    <2>1. Is(mem', mem.live, mem.ptr, Linked(mem))
      BY <1>1, <1>2, <1>5 DEF Is
    <2>2. Fit(27, mem.live, mem.ptr, Linked(mem))
      BY <1>2, <1>5, FitClkGone DEF FitNow
    <2>q. QED BY <1>1, <1>3, <2>1, <2>2, There
  <1>q. QED BY <1>4, <1>5

LEMMA EmuCleanupStands ==
  ASSUME Standing, EmuCleanup, runs' = runs
  PROVE  Standing'
  <1> DEFINE all == {"emu", "mainclk", "rom_tick", "via_tick"} \cup Conns
  <1>1. /\ stage = "free_emu" /\ stage' = "exit"
        /\ mem' = IF "emu" \in mem.ptr THEN emu_cleanup(mem) ELSE mem
    BY Afters DEF EmuCleanup, Frees, Goto
  <1>2. FitNow(27) /\ Sound(mem)
    BY <1>1, Here, Positions DEF Standing
  <1>3. stage' \in DOMAIN Position /\ stage' # "join" /\ Position[stage'] = 28
    BY <1>1, Positions, Stages
  <1>4. /\ "emu" \in mem.ptr /\ "emu" \in mem.live
        /\ "mainclk" \in mem.ptr /\ "mainclk" \in mem.live
        /\ {"aciaclk", "acia_tick"} \cap mem.live = {}
    BY <1>2 DEF FitNow, Fit, Owned, Held, Provided
  <1>5. {"rom_tick", "via_tick"} \cap mem.live \subseteq Linked(mem) /\ Conns \cap mem.live \subseteq Linked(mem)
    BY <1>2 DEF FitNow, Fit, Enrolled, Leaves, Conns
  <1>6. Is(mem', mem.live \ all, mem.ptr, Linked(mem) \ all)
    BY <1>1, <1>2, <1>4, <1>5, EmuCleans
  <1>7. Fit(28, mem.live \ all, mem.ptr, Linked(mem) \ all)
    BY <1>2, FitEmuGone DEF FitNow
  <1>8. SocketName \notin all /\ "acia" \notin all
    BY DEF SocketName, Conns
  <1> HIDE DEF all
  <1>q. QED BY <1>1, <1>3, <1>6, <1>7, <1>8, There

LEMMA AciaStopStands ==
  ASSUME Standing, AciaStop, runs' = runs
  PROVE  Standing'
  <1>1. /\ stage = "free_acia"
        /\ IF "acia" \in mem.ptr
           THEN mem' = Uses(mem, {"trans", "eventfd"}) /\ stage' = "join"
           ELSE mem' = mem /\ stage' = "free_clk"
    BY Afters DEF AciaStop, Goto
  <1>2. FitNow(24) /\ Sound(mem)
    BY <1>1, Here, Positions DEF Standing
  <1>3. "acia" \in mem.ptr => {"trans", "eventfd"} \subseteq mem.live
    BY <1>2 DEF FitNow, Fit, AciaWhole
  <1>4. mem' = mem
    BY <1>1, <1>2, <1>3, UseLive
  <1>5. Where(stage, mem.ptr)' = IF "acia" \in mem.ptr THEN 25 ELSE 26
    BY <1>1, <1>4, Positions DEF Where
  <1>6. FitNow(Where(stage, mem.ptr))'
    BY <1>2, <1>4, <1>5, FitStop DEF FitNow
  <1>7. stage' \in DOMAIN Position
    BY <1>1, Stages
  <1>8. Named'
    BY <1>1, <1>4 DEF Standing, Named
  <1>q. QED BY <1>4, <1>6, <1>7, <1>8 DEF Standing

LEMMA AciaJoinStands ==
  ASSUME Standing, AciaJoin, runs' = runs
  PROVE  Standing'
  <1> DEFINE parts == {"acia", "acia_conn", "acia_tick"}
             sock  == {"server_sock", "eventfd", SocketName, "trans"}
  <1>1. /\ stage = "join" /\ "thread" \notin mem.live /\ mem' = acia_cleanup(mem)
        /\ stage' = IF "acia" \in mem.ptr THEN "free_clk" ELSE "destroy"
    BY Afters DEF AciaJoin, Goto
  <1>2. FitNow(IF "acia" \in mem.ptr THEN 25 ELSE 5) /\ Sound(mem)
    BY <1>1, Positions DEF Standing, Where
  <1>3. /\ "acia" \in mem.live /\ "trans" \in mem.live /\ "trans" \in mem.ptr /\ "thread" \in mem.ptr
        /\ Known(mem, "acia_conn") /\ Known(mem, "acia_tick")
    <2>1. ASSUME NEW k \in {5, 25}, FitNow(k), k = 25 => "acia" \in mem.ptr
          PROVE  /\ "acia" \in mem.live /\ "trans" \in mem.live /\ "trans" \in mem.ptr /\ "thread" \in mem.ptr
                 /\ Known(mem, "acia_conn") /\ Known(mem, "acia_tick")
      <3>1. "acia" \in mem.live /\ "trans" \in mem.live /\ "thread" \in mem.ptr
        BY <2>1 DEF FitNow, Fit, AciaWhole
      <3>2. /\ "trans" \in mem.ptr
            /\ "acia_conn" \in mem.ptr <=> "acia_conn" \in mem.live
            /\ "acia_tick" \in mem.ptr <=> "acia_tick" \in mem.live
        BY <2>1, <3>1 DEF FitNow, Fit, Owned, Held
      <3>3. /\ "acia_conn" \in mem.live => "acia_conn" \in Linked(mem)
            /\ "acia_tick" \in mem.live => "acia_tick" \in Linked(mem)
        BY <2>1 DEF FitNow, Fit, Enrolled, Leaves, Conns
      <3>q. QED BY <3>1, <3>2, <3>3 DEF Known
    <2>q. QED BY <1>2, <2>1
  <1>4. Is(mem', mem.live \ (parts \cup sock), mem.ptr \ {"trans"}, Linked(mem) \ {"acia_conn", "acia_tick"})
    BY <1>1, <1>2, <1>3, AciaCleans
  <1>5. Fit(IF "acia" \in mem.ptr THEN 26 ELSE 20,
            mem.live \ (parts \cup sock), mem.ptr \ {"trans"}, Linked(mem) \ {"acia_conn", "acia_tick"})
    BY <1>1, <1>2, FitJoin, FitJoinEarly DEF FitNow
  <1>6. /\ stage' \in DOMAIN Position /\ stage' # "join"
        /\ Position[stage'] = IF "acia" \in mem.ptr THEN 26 ELSE 20
    BY <1>1, Positions, Stages
  <1>7. SocketName \in sock
    OBVIOUS
  <1> HIDE DEF parts, sock
  <1>q. QED BY <1>1, <1>4, <1>5, <1>6, <1>7, There

-----------------------------------------------------------------------------
(* The read thread, the debugger and ctrl-C.                                *)
LEMMA Stays ==
  ASSUME Standing, mem' = mem, stage' = stage, runs' = runs
  PROVE  Standing'
  <1>1. Where(stage, mem.ptr)' = Where(stage, mem.ptr)
    BY DEF Where
  <1>2. FitNow(Where(stage, mem.ptr))'
    BY <1>1 DEF Standing, FitNow
  <1>3. Named'
    BY DEF Standing, Named
  <1>q. QED BY <1>2, <1>3 DEF Standing

LEMMA ThreadStands ==
  ASSUME Standing, ThreadRuns \/ ThreadEnds, runs' = runs
  PROVE  Standing'
  <1> DEFINE k == Where(stage, mem.ptr)
  <1>1. FitNow(k) /\ Sound(mem) /\ k \in 0 .. 29
    <2>1. k \in 0 .. 29
      BY Stages, Positions DEF Standing, Where
    <2>q. QED BY <2>1 DEF Standing
  <1> HIDE DEF k
  <1>2. "thread" \in mem.live => {"trans", "eventfd", "server_sock"} \subseteq mem.live
    BY <1>1 DEF FitNow, Fit, AciaWhole
  <1>3. CASE ThreadRuns
    <2>1. Uses(mem, {"trans", "eventfd", "server_sock"}) = mem
      BY <1>1, <1>2, <1>3, UseLive DEF ThreadRuns
    <2>q. QED BY <1>3, <2>1, Stays DEF ThreadRuns
  <1>4. CASE ThreadEnds
    <2>1. mem' = [mem EXCEPT !.live = @ \ {"thread"}] /\ stage' = stage
      BY <1>4 DEF ThreadEnds
    <2>2. Is(mem', mem.live \ {"thread"}, mem.ptr, Linked(mem))
      <3>1. "thread" \in Plain
        BY DEF Plain
      <3>q. QED BY <1>1, <2>1, <3>1, FreesPlain
    <2>3. Where(stage, mem.ptr)' = k
      BY <2>1, <2>2 DEF Where, Is, k
    <2>4. Fit(k, mem.live \ {"thread"}, mem.ptr, Linked(mem))
      BY <1>1, FitThread DEF FitNow
    <2>5. FitNow(Where(stage, mem.ptr))'
      BY <2>2, <2>3, <2>4 DEF FitNow, Is
    <2>6. Named'
      <3>1. runs = 1 /\ SocketName \in mem.live /\ stage # "killed" => "acia" \in mem.live
        BY DEF Standing, Named
      <3>2. mem'.live = mem.live \ {"thread"}
        BY <2>2 DEF Is
      <3>3. runs' = 1 /\ SocketName \in mem'.live /\ stage' # "killed" => "acia" \in mem'.live
        BY <2>1, <3>1, <3>2
      <3>q. QED BY <3>3 DEF Named
    <2>q. QED BY <2>1, <2>2, <2>5, <2>6 DEF Standing, Is
  <1>q. QED BY <1>3, <1>4

LEMMA LoadLabelsStands ==
  ASSUME Standing, LoadLabels, runs' = runs
  PROVE  Standing'
  <1>1. stage = "labels" /\ mem' = mem /\ stage' \in {"sigaction", "destroy"}
    BY DEF LoadLabels, Goto
  <1>2. FitNow(14) /\ Is(mem', mem.live, mem.ptr, Linked(mem))
    BY <1>1, Here, Positions DEF Standing, Is
  <1>3. stage' \in DOMAIN Position /\ stage' # "join" /\ Position[stage'] \in {15, 20}
    BY <1>1, Positions, Stages
  <1>4. Fit(Position[stage'], mem.live, mem.ptr, Linked(mem))
    BY <1>2, <1>3, FitLabels, FitQuits DEF FitNow
  <1>q. QED BY <1>1, <1>2, <1>3, <1>4, There

LEMMA SigActionStands ==
  ASSUME Standing, SigAction, runs' = runs
  PROVE  Standing'
  <1>1. /\ stage = "sigaction"
        /\ \/ mem' = Made(mem, "sigdata") /\ stage' = "sigadd"
           \/ mem' = mem /\ stage' = "prompt"
    BY DEF SigAction, Goto
  <1>2. FitNow(15) /\ Sound(mem)
    BY <1>1, Here, Positions DEF Standing
  <1>3. CASE mem' = Made(mem, "sigdata") /\ stage' = "sigadd"
    <2>1. "sigdata" \in Object /\ SocketName # "sigdata"
      BY DEF Object, SocketName
    <2>2. Is(mem', mem.live \cup {"sigdata"}, mem.ptr \cup {"sigdata"}, Linked(mem))
      BY <1>2, <1>3, <2>1, Making
    <2>3. stage' \in DOMAIN Position /\ stage' # "join" /\ Position[stage'] = 16
      BY <1>3, Positions, Stages
    <2>4. Fit(16, mem.live \cup {"sigdata"}, mem.ptr \cup {"sigdata"}, Linked(mem))
      BY <1>2, FitAction DEF FitNow
    <2>q. QED BY <1>1, <2>1, <2>2, <2>3, <2>4, There
  <1>4. CASE mem' = mem /\ stage' = "prompt"
    <2>2. Is(mem', mem.live, mem.ptr, Linked(mem))
      BY <1>2, <1>4 DEF Is
    <2>3. stage' \in DOMAIN Position /\ stage' # "join" /\ Position[stage'] = 17
      BY <1>4, Positions, Stages
    <2>4. Fit(17, mem.live, mem.ptr, Linked(mem))
      BY <1>2, FitAction DEF FitNow
    <2>q. QED BY <1>1, <2>2, <2>3, <2>4, There
  <1>q. QED BY <1>1, <1>3, <1>4

LEMMA SigAddStands ==
  ASSUME Standing, SigAdd, runs' = runs
  PROVE  Standing'
  <1>1. stage = "sigadd" /\ stage' = "prompt" /\ mem' = list_add_tail(mem, "signals", "sigdata")
    BY DEF SigAdd, Goto
  <1>2. FitNow(16) /\ Sound(mem)
    BY <1>1, Here, Positions DEF Standing
  <1>3. "sigdata" \in mem.live /\ "sigdata" \notin Linked(mem) /\ Static \in mem.live
    BY <1>2 DEF FitNow, Fit, Provided, Enrolled, Sound
  <1>4. Is(mem', mem.live, mem.ptr, Linked(mem) \cup {"sigdata"})
    BY <1>1, <1>2, <1>3, Which, Links
  <1>5. stage' \in DOMAIN Position /\ stage' # "join" /\ Position[stage'] = 17
    BY <1>1, Positions, Stages
  <1>6. Fit(17, mem.live, mem.ptr, Linked(mem) \cup {"sigdata"})
    BY <1>2, FitAdd DEF FitNow
  <1>q. QED BY <1>1, <1>4, <1>5, <1>6, There

LEMMA UnregisterStands ==
  ASSUME Standing, Unregister
  PROVE  Standing'
  <1>1. /\ stage = "unregister" /\ stage' = "destroy" /\ runs' = runs
        /\ mem' = IF "sigdata" \in mem.ptr
                  THEN Forget(free(list_remove(mem, "sigdata"), "sigdata"), "sigdata") ELSE mem
    BY DEF Unregister, Goto
  <1>2. FitNow(19) /\ Sound(mem)
    BY <1>1, Here, Positions DEF Standing
  <1>3. stage' \in DOMAIN Position /\ stage' # "join" /\ Position[stage'] = 20
    BY <1>1, Positions, Stages
  <1>4. /\ "sigdata" \in mem.ptr => "sigdata" \in Linked(mem)
        /\ "sigdata" \in Leaves /\ SocketName # "sigdata"
        /\ "sigdata" \notin mem.ptr => "sigdata" \notin mem.live
    BY <1>2 DEF FitNow, Fit, Owned, Held, Enrolled, Leaves, SocketName
  <1>5. Is(mem', mem.live \ {"sigdata"}, mem.ptr \ {"sigdata"}, Linked(mem) \ {"sigdata"})
    <2>1. CASE "sigdata" \in mem.ptr
      BY <1>1, <1>2, <1>4, <2>1, EntryForgotten
    <2>2. CASE "sigdata" \notin mem.ptr
      <3>1. Linked(mem) \subseteq mem.live
        BY <1>2, InList, Which DEF Linked
      <3>2. /\ mem.live \ {"sigdata"} = mem.live /\ mem.ptr \ {"sigdata"} = mem.ptr
            /\ Linked(mem) \ {"sigdata"} = Linked(mem)
        BY <1>4, <2>2, <3>1
      <3>q. QED BY <1>1, <1>2, <2>2, <3>2 DEF Is
    <2>q. QED BY <2>1, <2>2
  <1>6. Fit(20, mem.live \ {"sigdata"}, mem.ptr \ {"sigdata"}, Linked(mem) \ {"sigdata"})
    BY <1>2, FitUnregister DEF FitNow
  <1>q. QED BY <1>1, <1>3, <1>4, <1>5, <1>6, There

(* What an access or a tick calls is there.                                 *)
LEMMA Callable ==
  ASSUME Standing, NEW k \in {17, 18}, FitNow(k), NEW l \in {"conns", "mainclk", "aciaclk", "callbacks"}
  PROVE  Called(mem, l) \subseteq mem.live
  <1> SUFFICES ASSUME NEW e \in ToSet(mem.lists[l]) PROVE e \in mem.live /\ Owner[e] \in mem.live
    BY DEF Called
  <1>1. e \in mem.live /\ e \in Members[l]
    BY InList, Which DEF Standing
  <1>2. e \in {"rom_conn", "acia_conn", "via_conn", "ram_conn", "rom_tick", "via_tick", "acia_tick", "spi_cb"}
    BY <1>1, Which
  <1>3. Owner[e] \in mem.live
    <2>1. /\ "rom" \in mem.live /\ "acia" \in mem.live /\ "via" \in mem.live /\ "ram" \in mem.live
      BY DEF FitNow, Fit, Provided
    <2>2. Owner[e] \in {"rom", "acia", "via", "ram"}
      BY <1>2 DEF Owner
    <2>q. QED BY <2>1, <2>2
  <1>q. QED BY <1>1, <1>3

LEMMA PeekTicks ==
  ASSUME Standing, NEW k \in {17, 18}, FitNow(k)
  PROVE  bus_peek(mem) = mem /\ emu_tick(mem) = mem
  <1>1. "emu" \in mem.live /\ "mainclk" \in mem.live
    BY DEF FitNow, Fit, Provided
  <1>2. bus_peek(mem) = mem
    <2>1. Called(mem, "conns") \subseteq mem.live
      BY Callable
    <2>q. QED BY <1>1, <2>1, UseLive DEF bus_peek, Standing
  <1> DEFINE ticked == {"mainclk"} \cup ToSet(mem.lists["clks"])
  <1>3. \A c \in ticked : clock_make_callbacks(mem, c) \subseteq mem.live
    <2>1. ToSet(mem.lists["clks"]) \subseteq {"aciaclk"} \cap mem.live
      <3>1. Sound(mem) /\ "clks" \in List /\ Members["clks"] = {"aciaclk"}
        BY Which DEF Standing
      <3>2. /\ ToSet(mem.lists["clks"]) = Linked(mem) \cap Members["clks"]
           /\ Linked(mem) \subseteq mem.live
        BY <3>1, InList
      <3>q. QED BY <3>1, <3>2
    <2>2. Called(mem, "mainclk") \subseteq mem.live /\ Called(mem, "aciaclk") \subseteq mem.live
      BY Callable
    <2>q. QED BY <1>1, <2>1, <2>2 DEF clock_make_callbacks
  <1>4. Called(mem, "callbacks") \subseteq mem.live
    BY Callable
  <1>5. Called(mem, "callbacks") \cup UNION {clock_make_callbacks(mem, c) : c \in ticked} \subseteq mem.live
    BY <1>3, <1>4
  <1>6. emu_tick(mem) = mem
    BY <1>2, <1>5, UseLive DEF emu_tick, Standing
  <1>q. QED BY <1>2, <1>6

LEMMA PromptStands ==
  ASSUME Standing, mem' = mem, runs' = runs, stage \in {"prompt", "command"},
         stage' \in {"prompt", "command", "unregister"}
  PROVE  Standing'
  <1>1. Position[stage] \in {17, 18} /\ FitNow(Position[stage])
    BY Here, Positions
  <1>2. stage' \in DOMAIN Position /\ stage' # "join" /\ Position[stage'] \in {17, 18, 19}
    BY Positions, Stages
  <1>3. Is(mem', mem.live, mem.ptr, Linked(mem))
    BY DEF Standing, Is
  <1>4. Fit(Position[stage'], mem.live, mem.ptr, Linked(mem))
    BY <1>1, <1>2, FitPrompt DEF FitNow
  <1>q. QED BY <1>2, <1>3, <1>4, There

LEMMA SignalHarmless ==
  ASSUME Standing
  PROVE  sig_handler(mem) = mem
  <1>1. ToSet(mem.lists["signals"]) \subseteq {"sigdata"} \cap mem.live
    <2>1. Sound(mem) /\ "signals" \in List /\ Members["signals"] = {"sigdata"}
      BY Which DEF Standing
    <2>2. /\ ToSet(mem.lists["signals"]) = Linked(mem) \cap Members["signals"]
         /\ Linked(mem) \subseteq mem.live
      BY <2>1, InList
    <2>q. QED BY <2>1, <2>2
  <1>2. "sigdata" \in mem.live => "debugger" \in mem.live
    BY DEF Standing, FitNow, Fit, Provided
  <1>3. UNION {{e, "debugger"} : e \in ToSet(mem.lists["signals"])} \subseteq mem.live
    BY <1>1, <1>2
  <1>q. QED BY <1>3, UseLive DEF sig_handler, Standing

LEMMA Fresh ==
  ASSUME NEW files \in SUBSET {SocketName}
  PROVE  Is(NoMemory(files), files \cup {Static}, {}, {})
  <1> DEFINE n == NoMemory(files)
  <1>1. /\ n.live = files \cup {Static} /\ n.ptr = {} /\ n.faults = {}
        /\ n.lists = [l \in List |-> <<>>]
        /\ n = [live |-> files \cup {Static}, ptr |-> {}, lists |-> [l \in List |-> <<>>], faults |-> {}]
    BY DEF NoMemory, List
  <1>2. files \cup {Static} \subseteq Object
    BY DEF Object
  <1>3. <<>> \in Seq(Object) /\ NoRepeats(<<>>) /\ ToSet(<<>>) = {}
    BY EmptySeq, Entries DEF NoRepeats
  <1>4. n \in MemoryType
    BY <1>1, <1>2, <1>3 DEF MemoryType
  <1> HIDE DEF n
  <1>5. \A l \in List : n.lists[l] = <<>>
    BY <1>1
  <1>6. \A l \in List : ListSound(n, l)
    BY <1>3, <1>5 DEF ListSound
  <1>7. Linked(n) = {}
    BY <1>3, <1>5 DEF Linked
  <1>q. QED BY <1>1, <1>4, <1>6, <1>7 DEF Is, Sound, n

LEMMA Begins ==
  ASSUME NEW files \in SUBSET {SocketName}, mem' = NoMemory(files),
         \/ stage' = "killed"
         \/ stage' = "emu" /\ (runs' = 1 => files = {}),
         runs' \in Nat \ {0}
  PROVE  Standing'
  <1>1. Is(mem', files \cup {Static}, {}, {})
    BY Fresh
  <1>2. files \cup {Static} \in {{Static}, {Static, SocketName}}
    OBVIOUS
  <1>3. Fit(0, files \cup {Static}, {}, {}) /\ Fit(29, files \cup {Static}, {}, {})
    BY <1>2, FitEmpty
  <1>4. stage' \in DOMAIN Position /\ Where(stage, mem.ptr)' = IF stage' = "emu" THEN 0 ELSE 29
    BY Positions, Stages DEF Where
  <1>5. FitNow(Where(stage, mem.ptr))'
    BY <1>1, <1>3, <1>4 DEF FitNow, Is
  <1>6. Named'
    <2>1. SocketName # Static
      BY DEF SocketName, Static
    <2>q. QED BY <1>1, <2>1 DEF Named, Is
  <1>q. QED BY <1>1, <1>4, <1>5, <1>6 DEF Standing, Is

LEMMA CtrlCStands ==
  ASSUME Standing, CtrlC
  PROVE  Standing'
  <1>1. runs' = runs
    BY DEF CtrlC, KeepCli
  <1>2. CASE handler
    <2>1. mem' = mem /\ stage' \in {stage} \cup (IF stage = "prompt" THEN {"unregister"} ELSE {})
      BY <1>2, SignalHarmless DEF CtrlC
    <2>2. CASE stage' = stage
      BY <1>1, <2>1, <2>2, Stays
    <2>3. CASE stage' # stage
      BY <1>1, <2>1, <2>3, PromptStands
    <2>q. QED BY <2>2, <2>3
  <1>3. CASE ~handler
    <2>1. mem' = NoMemory(mem.live \cap {SocketName}) /\ stage' = "killed"
      BY <1>3 DEF CtrlC, Goto
    <2>q. QED BY <1>1, <2>1, Begins DEF Standing
  <1>q. QED BY <1>2, <1>3

LEMMA LifecycleStands ==
  ASSUME Standing, Lifecycle, runs' = runs, "emu" \notin Fallible, "thread" \notin Fallible
  PROVE  Standing'
  <1>1. CASE EmuInit \/ RomInit \/ RomMap \/ AciaClkAdd \/ AciaInit \/ AciaMap
    BY <1>1, EmuInitStands, RomInitStands, RomMapStands, AciaClkAddStands, AciaInitStands, AciaMapStands
  <1>2. CASE ViaInit \/ ViaMap \/ RamInit \/ RamMap \/ SdInit \/ SpiInit
    BY <1>2, ViaInitStands, ViaMapStands, RamInitStands, RamMapStands, SdInitStands, SpiInitStands
  <1>3. CASE SpiCleanup \/ RomDestroy \/ RamCleanup \/ ViaCleanup
    BY <1>3, SpiCleanupStands, RomDestroyStands, RamCleanupStands, ViaCleanupStands
  <1>4. CASE AciaStop \/ AciaJoin \/ ClkRemove \/ EmuCleanup
    BY <1>4, AciaStopStands, AciaJoinStands, ClkRemoveStands, EmuCleanupStands
  <1>q. QED BY <1>1, <1>2, <1>3, <1>4 DEF Lifecycle

LEMMA ReadLineStands ==
  ASSUME Standing, NEW l \in Lines, ReadLine(l)
  PROVE  Standing'
  <1>1. /\ stage = "prompt" /\ runs' = runs /\ mem' = bus_peek(mem)
        /\ stage' \in {"prompt", "command", "unregister"}
    <2>1. stage = "prompt" /\ runs' = runs /\ mem' = bus_peek(mem)
      BY DEF ReadLine
    <2>2. \A c : Handles(c) => stage' \in {"command", "unregister"}
      BY DEF Handles, Goto
    <2>3. stage' = stage \/ \E c : Handles(c)
      BY DEF ReadLine
    <2>q. QED BY <2>1, <2>2, <2>3
  <1>2. mem' = mem
    BY <1>1, Here, Positions, PeekTicks
  <1>q. QED BY <1>1, <1>2, PromptStands

LEMMA SessionStands ==
  ASSUME Standing, EndOfInput \/ CommandRuns \/ CommandDone
  PROVE  Standing'
  <1>1. CASE EndOfInput
    BY <1>1, PromptStands DEF EndOfInput, KeepCli, Goto
  <1>2. CASE CommandRuns
    <2>1. stage = "command" /\ stage' = stage /\ runs' = runs /\ mem' = emu_tick(mem)
      BY <1>2 DEF CommandRuns, KeepCli
    <2>2. mem' = mem
      BY <2>1, Here, Positions, PeekTicks
    <2>q. QED BY <2>1, <2>2, Stays
  <1>3. CASE CommandDone
    BY <1>3, PromptStands DEF CommandDone, KeepCli, Goto
  <1>q. QED BY <1>1, <1>2, <1>3

LEMMA RestartStands ==
  ASSUME Standing, Restart
  PROVE  Standing'
  <1>1. /\ mem' = NoMemory(mem.live \cap {SocketName}) /\ stage' = "emu"
        /\ runs' \in Nat \ {0} /\ runs' # 1
    BY DEF Standing, Restart
  <1>q. QED BY <1>1, Begins

LEMMA AlwaysStanding ==
  ASSUME "emu" \notin Fallible, "thread" \notin Fallible
  PROVE  Spec => []Standing
  <1>1. Init => Standing
    <2> SUFFICES ASSUME Init PROVE Standing
      OBVIOUS
    <2>1. Is(mem, {} \cup {Static}, {}, {}) /\ stage = "emu" /\ runs = 1
      BY Fresh DEF Init
    <2>2. Fit(0, {} \cup {Static}, {}, {})
      <3>1. {} \cup {Static} \in {{Static}, {Static, SocketName}}
        OBVIOUS
      <3>q. QED BY <3>1, FitEmpty
    <2>3. Where(stage, mem.ptr) = 0 /\ stage \in DOMAIN Position
      BY <2>1, Positions, Stages DEF Where
    <2>4. SocketName # Static
      BY DEF SocketName, Static
    <2>5. FitNow(Where(stage, mem.ptr))
      BY <2>1, <2>2, <2>3 DEF FitNow, Is
    <2>q. QED BY <2>1, <2>3, <2>4, <2>5 DEF Standing, Named, Is
  <1>2. Standing /\ [Next]_vars => Standing'
    <2> SUFFICES ASSUME Standing, [Next]_vars PROVE Standing'
      OBVIOUS
    <2>1. CASE Lifecycle /\ KeepCli
      BY <2>1, LifecycleStands DEF KeepCli
    <2>2. CASE DebugInit \/ LoadLabels \/ SigAction \/ SigAdd
      <3>1. runs' = runs
        BY <2>2 DEF DebugInit, LoadLabels, SigAction, SigAdd, KeepCli
      <3>q. QED BY <2>2, <3>1, DebugInitStands, LoadLabelsStands, SigActionStands, SigAddStands
    <2>3. CASE Unregister \/ CtrlC \/ Restart
      BY <2>3, UnregisterStands, CtrlCStands, RestartStands
    <2>4. CASE EndOfInput \/ CommandRuns \/ CommandDone
      BY <2>4, SessionStands
    <2>5. CASE \E l \in Lines : ReadLine(l)
      BY <2>5, ReadLineStands
    <2>6. CASE Thread
      BY <2>6, ThreadStands DEF Thread, KeepCli
    <2>7. CASE UNCHANGED vars
      BY <2>7, Stays DEF vars, platVars
    <2>q. QED BY <2>1, <2>2, <2>3, <2>4, <2>5, <2>6, <2>7 DEF Next, Main, User
  <1>q. QED BY <1>1, <1>2, PTL DEF Spec

(* No function uses or frees what is not there, nor writes to a neighbour    *)
(* in a list that is gone, in whatever order the machine is built, fails to *)
(* be built, runs, is interrupted and is taken down, if the structure of    *)
(* the emulator and the read thread can be made.                           *)
THEOREM NothingDangles ==
  ASSUME "emu" \notin Fallible, "thread" \notin Fallible
  PROVE  Spec => []NoDanglingAccess
  <1>1. Standing => NoDanglingAccess
    BY DEF Standing, Sound, NoDanglingAccess
  <1>q. QED BY <1>1, AlwaysStanding, PTL

(* When main returns, the functions that take the machine down have freed    *)
(* what was made, from wherever building has failed.                       *)
THEOREM NothingIsLeft ==
  ASSUME "emu" \notin Fallible, "thread" \notin Fallible
  PROVE  Spec => []LeavesNothing
  <1>1. Standing => LeavesNothing
    <2> SUFFICES ASSUME Standing, stage = "exit"
                 PROVE  /\ mem.live \subseteq {Static, "debugger", "image_fd", SocketName}
                        /\ runs = 1 => SocketName \notin mem.live
      BY DEF LeavesNothing
    <2>1. FitNow(28) /\ mem.live \subseteq Object
      BY Here, Positions DEF Standing, Sound, MemoryType
    <2>2. "acia" \notin mem.live /\ {"trans", "eventfd", "server_sock", "thread"} \cap mem.live = {}
      BY <2>1 DEF FitNow, Fit, AciaWhole
    <2>3. {"emu", "mainclk", "rom", "rom_tick", "rom_conn", "aciaclk", "acia_tick", "acia_conn", "via",
           "via_tick", "via_conn", "ram", "ram_conn", "spi_cb", "sigdata"} \cap mem.live = {}
      BY <2>1 DEF FitNow, Fit, Owned, Held
    <2>4. runs = 1 => SocketName \notin mem.live
      BY <2>2 DEF Standing, Named
    <2>q. QED BY <2>1, <2>2, <2>3, <2>4 DEF Object
  <1>q. QED BY <1>1, AlwaysStanding, PTL

-----------------------------------------------------------------------------
(* The command line.  The buffer holds each word at a place of its own, and *)
(* no parameter begins before the third character: an empty line, which    *)
(* writes two, destroys none.                                              *)
WordPlace == [at : Nat, word : STRING]

BufferSound(buf) ==
  /\ buf \subseteq WordPlace
  /\ \A v, w \in buf : v.at = w.at => v = w

Kept(buf, at, words) ==
  /\ at \in Seq(Nat) /\ words \in Seq(STRING)
  /\ Len(at) = Len(words) /\ Len(at) <= MaxParams
  /\ \A i \in 1 .. Len(at) : at[i] > 1 /\ [at |-> at[i], word |-> words[i]] \in buf

Repeatable ==
  /\ BufferSound(inbuf)
  /\ cmd \in CommandName \cup {None}
  /\ Len(params) <= MaxParams /\ Len(given) = Len(params)
  /\ cmd # None => Kept(inbuf, params, given)
  /\ stage = "command" => seen = given

LEMMA Finds ==
  ASSUME NEW buf, NEW at, NEW words, BufferSound(buf), Kept(buf, at, words)
  PROVE  Words(buf, at) = words
  <1>1. ASSUME NEW i \in 1 .. Len(at)
        PROVE  (IF \E w \in buf : w.at = at[i] THEN (CHOOSE w \in buf : w.at = at[i]).word ELSE None)
               = words[i]
    <2> DEFINE x == [at |-> at[i], word |-> words[i]]
    <2>1. x \in buf /\ x.at = at[i] /\ x.word = words[i]
      BY DEF Kept
    <2> HIDE DEF x
    <2>2. \A w \in buf : w.at = at[i] => w = x
      BY <2>1 DEF BufferSound
    <2>3. (CHOOSE w \in buf : w.at = at[i]) = x
      BY <2>1, <2>2
    <2>q. QED BY <2>1, <2>3
  <1>2. DOMAIN at = 1 .. Len(at) /\ words \in Seq(STRING) /\ Len(words) = Len(at)
    BY DEF Kept
  <1>3. words = [i \in 1 .. Len(at) |-> words[i]]
    BY <1>2
  <1>4. Words(buf, at) = [i \in 1 .. Len(at) |->
          IF \E w \in buf : w.at = at[i] THEN (CHOOSE w \in buf : w.at = at[i]).word ELSE None]
    BY <1>2 DEF Words
  <1>q. QED BY <1>1, <1>3, <1>4

LEMMA Lined ==
  ASSUME NEW l \in Lines
  PROVE  /\ l.words \in Seq(STRING) /\ l.at \in Seq(Nat) /\ Len(l.words) = Len(l.at)
         /\ l.len \in Nat
         /\ \A i \in 1 .. Len(l.at) : l.at[i] \in 0 .. l.len - 1
         /\ \A i, j \in 1 .. Len(l.at) : i < j => l.at[i] + 1 < l.at[j]
  <1>1. /\ l.words \in Seq(STRING) /\ l.at \in Seq(Nat)
        /\ Len(l.words) = Len(l.at) /\ l.len \in 0 .. 254
    BY DbgcliAssumption
  <1>2. /\ \A i \in DOMAIN l.at : l.at[i] \in 0 .. l.len - 1
        /\ \A i, j \in DOMAIN l.at : i < j => l.at[i] + 1 < l.at[j]
    BY DbgcliAssumption
  <1>0. ASSUME NEW s \in Seq(Nat) PROVE DOMAIN s = 1 .. Len(s)
    OBVIOUS
  <1>3. DOMAIN l.at = 1 .. Len(l.at)
    BY <1>0, <1>1
  <1>4. l.len \in Nat
    <2>1. \A n \in 0 .. 254 : n \in Nat
      OBVIOUS
    <2>2. l.len \in 0 .. 254
      BY DbgcliAssumption
    <2>q. QED BY <2>1, <2>2
  <1>q. QED BY <1>1, <1>2, <1>3, <1>4

LEMMA Reading ==
  ASSUME NEW l \in Lines, BufferSound(inbuf)
  PROVE  BufferSound(Reads(l))
  <1> DEFINE old == {w \in inbuf : w.at > l.len + 1}
             new == {[at |-> l.at[i], word |-> l.words[i]] : i \in DOMAIN l.at}
  <1>1. /\ l.words \in Seq(STRING) /\ l.at \in Seq(Nat) /\ Len(l.words) = Len(l.at)
        /\ l.len \in Nat /\ DOMAIN l.at = 1 .. Len(l.at)
    BY Lined
  <1>2. \A v \in new : \E i \in 1 .. Len(l.at) : v = [at |-> l.at[i], word |-> l.words[i]]
    BY <1>1
  <1>3. \A v \in new : v \in WordPlace /\ v.at < l.len
    <2> TAKE v \in new
    <2>1. PICK i \in 1 .. Len(l.at) : v = [at |-> l.at[i], word |-> l.words[i]]
      BY <1>2
    <2>2. l.at[i] \in Nat /\ l.words[i] \in STRING /\ l.at[i] \in 0 .. l.len - 1
      BY <1>1, Lined
    <2>q. QED BY <1>1, <2>1, <2>2 DEF WordPlace
  <1>4. \A v, w \in new : v.at = w.at => v = w
    <2> TAKE v, w \in new
    <2>1. PICK i \in 1 .. Len(l.at) : v = [at |-> l.at[i], word |-> l.words[i]]
      BY <1>2
    <2>2. PICK j \in 1 .. Len(l.at) : w = [at |-> l.at[j], word |-> l.words[j]]
      BY <1>2
    <2>3. l.at[i] = l.at[j] => i = j
      <3>1. l.at[i] \in Nat /\ l.at[j] \in Nat
        <4> DEFINE at == l.at
        <4>1. at \in Seq(Nat) /\ i \in 1 .. Len(at) /\ j \in 1 .. Len(at)
          BY <1>1
        <4> HIDE DEF at
        <4>2. at[i] \in Nat /\ at[j] \in Nat
          BY <4>1
        <4>q. QED BY <4>2 DEF at
      <3>2. (i < j => l.at[i] + 1 < l.at[j]) /\ (j < i => l.at[j] + 1 < l.at[i])
        BY Lined
      <3>q. QED BY <3>1, <3>2
    <2>q. QED BY <2>1, <2>2, <2>3
  <1>5. \A v \in old : v \in WordPlace /\ v.at > l.len + 1 /\ v \in inbuf
    BY DEF BufferSound
  <1>6. Reads(l) = old \cup new
    BY DEF Reads
  <1> HIDE DEF old, new
  <1>7. \A v \in old, w \in new : v.at # w.at
    BY <1>1, <1>3, <1>5 DEF WordPlace
  <1>8. \A v, w \in old : v.at = w.at => v = w
    BY <1>5 DEF BufferSound
  <1>q. QED BY <1>3, <1>4, <1>5, <1>6, <1>7, <1>8 DEF BufferSound

(* The parameters of a line that is typed.                                  *)
LEMMA Typed ==
  ASSUME NEW l \in Lines, l.words # <<>>
  PROVE  Kept(Reads(l), ParamsOf(l.at), ParamsOf(l.words))
  <1> DEFINE n == IF Len(l.at) > MaxParams THEN MaxParams ELSE Len(l.at) - 1
  <1>1. /\ l.words \in Seq(STRING) /\ l.at \in Seq(Nat) /\ Len(l.words) = Len(l.at)
        /\ l.at # <<>> /\ Len(l.at) \in Nat /\ Len(l.at) > 0 /\ DOMAIN l.at = 1 .. Len(l.at)
    BY Lined
  <1>2. n \in Nat /\ n <= MaxParams /\ n <= Len(l.at) - 1
    BY <1>1 DEF MaxParams
  <1>3. ParamsOf(l.at) = SubSeq(Tail(l.at), 1, n) /\ ParamsOf(l.words) = SubSeq(Tail(l.words), 1, n)
    BY <1>1 DEF ParamsOf
  <1> HIDE DEF n
  <1>t. ASSUME NEW S, NEW s \in Seq(S), s # <<>>
        PROVE  /\ Tail(s) \in Seq(S) /\ Len(Tail(s)) = Len(s) - 1
               /\ \A i \in 1 .. Len(s) - 1 : Tail(s)[i] = s[i + 1]
    BY <1>t
  <1>f. ASSUME NEW S, NEW s \in Seq(S), NEW k \in Nat, k <= Len(s)
        PROVE  /\ SubSeq(s, 1, k) \in Seq(S) /\ Len(SubSeq(s, 1, k)) = k
               /\ \A i \in 1 .. k : SubSeq(s, 1, k)[i] = s[i]
    <2>1. ASSUME NEW i \in 1 .. k PROVE s[i] \in S
      <3>1. i \in 1 .. Len(s)
        BY <1>f
      <3>q. QED BY <3>1, ElementOfSeq
    <2>2. /\ SubSeq(s, 1, k) \in Seq(S)
          /\ Len(SubSeq(s, 1, k)) = IF 1 <= k THEN k - 1 + 1 ELSE 0
          /\ \A i \in 1 .. k - 1 + 1 : SubSeq(s, 1, k)[i] = s[1 + i - 1]
      BY <2>1, SubSeqProperties
    <2>3. k - 1 + 1 = k /\ \A i \in 1 .. k : 1 + i - 1 = i
      OBVIOUS
    <2>4. (IF 1 <= k THEN k - 1 + 1 ELSE 0) = k
      OBVIOUS
    <2>q. QED BY <2>2, <2>3, <2>4
  <1>4. /\ Tail(l.at) \in Seq(Nat) /\ Len(Tail(l.at)) = Len(l.at) - 1
        /\ \A i \in 1 .. Len(l.at) - 1 : Tail(l.at)[i] = l.at[i + 1]
    BY <1>1, <1>t
  <1>5. /\ Tail(l.words) \in Seq(STRING) /\ Len(Tail(l.words)) = Len(l.at) - 1
        /\ \A i \in 1 .. Len(l.at) - 1 : Tail(l.words)[i] = l.words[i + 1]
    BY <1>1, <1>t
  <1>6. /\ ParamsOf(l.at) \in Seq(Nat) /\ Len(ParamsOf(l.at)) = n
        /\ \A i \in 1 .. n : ParamsOf(l.at)[i] = l.at[i + 1]
    <2>1. /\ SubSeq(Tail(l.at), 1, n) \in Seq(Nat) /\ Len(SubSeq(Tail(l.at), 1, n)) = n
          /\ \A i \in 1 .. n : SubSeq(Tail(l.at), 1, n)[i] = Tail(l.at)[i]
      BY <1>1, <1>2, <1>4, <1>f
    <2>2. \A i \in 1 .. n : i \in 1 .. Len(l.at) - 1
      BY <1>1, <1>2
    <2>q. QED BY <1>3, <1>4, <2>1, <2>2
  <1>7. /\ ParamsOf(l.words) \in Seq(STRING) /\ Len(ParamsOf(l.words)) = n
        /\ \A i \in 1 .. n : ParamsOf(l.words)[i] = l.words[i + 1]
    <2>1. /\ SubSeq(Tail(l.words), 1, n) \in Seq(STRING) /\ Len(SubSeq(Tail(l.words), 1, n)) = n
          /\ \A i \in 1 .. n : SubSeq(Tail(l.words), 1, n)[i] = Tail(l.words)[i]
      BY <1>1, <1>2, <1>5, <1>f
    <2>2. \A i \in 1 .. n : i \in 1 .. Len(l.at) - 1
      BY <1>1, <1>2
    <2>q. QED BY <1>3, <1>5, <2>1, <2>2
  <1>8. ASSUME NEW i \in 1 .. n
        PROVE  l.at[i + 1] > 1 /\ [at |-> l.at[i + 1], word |-> l.words[i + 1]] \in Reads(l)
    <2>1. i + 1 \in 1 .. Len(l.at) /\ 1 \in 1 .. Len(l.at) /\ 1 < i + 1
      BY <1>1, <1>2
    <2>2. l.at[1] + 1 < l.at[i + 1]
      BY <2>1, Lined
    <2>3. l.at[1] \in Nat /\ l.at[i + 1] \in Nat
      BY <1>1, <2>1
    <2>4. [at |-> l.at[i + 1], word |-> l.words[i + 1]] \in Reads(l)
      BY <1>1, <2>1 DEF Reads
    <2>q. QED BY <2>2, <2>3, <2>4
  <1>q. QED BY <1>2, <1>6, <1>7, <1>8 DEF Kept

(* An empty line leaves the parameters where they are.                      *)
LEMMA Survives ==
  ASSUME NEW l \in Lines, l.len = 0, BufferSound(inbuf), Kept(inbuf, params, given)
  PROVE  Kept(Reads(l), params, given)
  <1>1. ASSUME NEW i \in 1 .. Len(params)
        PROVE  [at |-> params[i], word |-> given[i]] \in Reads(l)
    <2> DEFINE x == [at |-> params[i], word |-> given[i]]
    <2>1. x \in inbuf /\ x.at > 1
      BY DEF Kept
    <2> HIDE DEF x
    <2>2. x \in Reads(l)
      BY <2>1 DEF Reads
    <2>q. QED BY <2>2 DEF x
  <1>q. QED BY <1>1 DEF Kept

LEMMA ReadLineRepeats ==
  ASSUME Repeatable, NEW l \in Lines, ReadLine(l)
  PROVE  Repeatable'
  <1>1. inbuf' = Reads(l) /\ BufferSound(inbuf) /\ BufferSound(inbuf')
    BY Reading DEF ReadLine, Repeatable
  <1>2. CASE l.len = 0 /\ cmd # None
    <2>1. cmd' = cmd /\ params' = params /\ given' = given /\ Handles(cmd)
      BY <1>2 DEF ReadLine
    <2>2. Kept(inbuf', params', given')
      BY <1>1, <1>2, <2>1, Survives DEF Repeatable
    <2>3. seen' = given'
      BY <1>1, <2>1, <2>2, Finds DEF Handles
    <2>q. QED BY <1>1, <2>1, <2>2, <2>3 DEF Repeatable
  <1>3. CASE ~(l.len = 0 /\ cmd # None)
    <2>1. cmd' = Parsed(l) /\ stage = "prompt"
      BY <1>3 DEF ReadLine
    <2>2. cmd' \in CommandName \cup {None}
      <3>1. \A w : Command(w) \in CommandName \cup {None}
        BY DEF Command, CommandName, Letter
      <3>q. QED BY <2>1, <3>1 DEF Parsed
    <2>3. CASE cmd' = None
      <3>1. stage' = stage /\ params' = params /\ given' = given
        BY <1>3, <2>3 DEF ReadLine
      <3>q. QED BY <1>1, <2>1, <2>2, <2>3, <3>1 DEF Repeatable
    <2>4. CASE cmd' # None
      <3>1. params' = ParamsOf(l.at) /\ given' = ParamsOf(l.words) /\ Handles(cmd')
        BY <1>3, <2>4 DEF ReadLine
      <3>2. l.words # <<>>
        BY <2>1, <2>4 DEF Parsed
      <3>3. Kept(inbuf', params', given')
        BY <1>1, <3>1, <3>2, Typed
      <3>4. seen' = given'
        BY <1>1, <3>1, <3>3, Finds DEF Handles
      <3>q. QED BY <1>1, <2>2, <3>3, <3>4 DEF Repeatable, Kept
    <2>q. QED BY <2>3, <2>4
  <1>q. QED BY <1>2, <1>3

(* No other step comes to a command.                                        *)
LEMMA LifecycleGoesOn ==
  ASSUME Lifecycle
  PROVE  stage' # "command"
  <1>1. CASE EmuInit \/ RomInit \/ RomMap \/ AciaClkAdd
    BY <1>1 DEF EmuInit, RomInit, RomMap, AciaClkAdd, Maps, Builds, Goto
  <1>2. CASE AciaInit \/ AciaMap
    BY <1>2 DEF AciaInit, AciaMap, Maps, Builds, Goto
  <1>3. CASE ViaInit \/ ViaMap \/ RamInit \/ RamMap \/ SdInit \/ SpiInit
    BY <1>3 DEF ViaInit, ViaMap, RamInit, RamMap, SdInit, SpiInit, Maps, Builds, Goto
  <1>4. CASE SpiCleanup \/ RomDestroy \/ RamCleanup \/ ViaCleanup \/ ClkRemove \/ EmuCleanup
    BY <1>4, Afters DEF SpiCleanup, RomDestroy, RamCleanup, ViaCleanup, ClkRemove, EmuCleanup, Frees, Goto
  <1>5. CASE AciaStop \/ AciaJoin
    BY <1>5, Afters DEF AciaStop, AciaJoin, Goto
  <1>q. QED BY <1>1, <1>2, <1>3, <1>4, <1>5 DEF Lifecycle

LEMMA CliStays ==
  ASSUME Repeatable, UNCHANGED <<cmd, params, inbuf, given, seen>>,
         stage' = stage \/ stage' # "command"
  PROVE  Repeatable'
  BY DEF Repeatable

LEMMA CliEmpty ==
  ASSUME cmd' = None, params' = <<>>, inbuf' = {}, given' = <<>>, seen' = <<>>
  PROVE  Repeatable'
  BY DEF Repeatable, BufferSound, MaxParams

LEMMA AlwaysRepeatable ==
  Spec => []Repeatable
  <1>1. Init => Repeatable
    BY DEF Init, Repeatable, BufferSound, MaxParams
  <1>2. Repeatable /\ [Next]_vars => Repeatable'
    <2> SUFFICES ASSUME Repeatable, [Next]_vars PROVE Repeatable'
      OBVIOUS
    <2>1. CASE Lifecycle /\ KeepCli
      BY <2>1, LifecycleGoesOn, CliStays DEF KeepCli, cliVars
    <2>2. CASE DebugInit \/ LoadLabels \/ SigAction \/ SigAdd \/ CommandDone \/ EndOfInput
      <3>1. UNCHANGED <<cmd, params, inbuf, given, seen>>
        BY <2>2 DEF DebugInit, LoadLabels, SigAction, SigAdd, CommandDone, EndOfInput, KeepCli, cliVars
      <3>2. stage' # "command"
        BY <2>2 DEF DebugInit, LoadLabels, SigAction, SigAdd, CommandDone, EndOfInput, Goto
      <3>q. QED BY <3>1, <3>2, CliStays
    <2>3. CASE Unregister \/ Restart
      BY <2>3, CliEmpty DEF Unregister, Restart
    <2>4. CASE CtrlC \/ CommandRuns
      <3>1. UNCHANGED <<cmd, params, inbuf, given, seen>>
        BY <2>4 DEF CtrlC, CommandRuns, KeepCli, cliVars
      <3>2. stage' = stage \/ stage' # "command"
        BY <2>4 DEF CtrlC, CommandRuns, Goto
      <3>q. QED BY <3>1, <3>2, CliStays
    <2>5. CASE \E l \in Lines : ReadLine(l)
      BY <2>5, ReadLineRepeats
    <2>6. CASE Thread
      BY <2>6, CliStays DEF Thread, ThreadRuns, ThreadEnds, KeepCli, cliVars
    <2>7. CASE UNCHANGED vars
      BY <2>7, CliStays DEF vars, platVars, cliVars
    <2>q. QED BY <2>1, <2>2, <2>3, <2>4, <2>5, <2>6, <2>7 DEF Next, Main, User
  <1>q. QED BY <1>1, <1>2, PTL DEF Spec

(* A command that an empty line repeats has the parameters that it was     *)
(* typed with, for every line that can be typed and whatever fails: the    *)
(* second and later words of a line are where the empty line's newline and *)
(* its 0 do not come.                                                      *)
THEOREM RepeatsAreTheSame == Spec => []RepeatMeansTheSame
  <1>1. Repeatable => RepeatMeansTheSame
    BY DEF Repeatable, RepeatMeansTheSame
  <1>q. QED BY <1>1, AlwaysRepeatable, PTL

-----------------------------------------------------------------------------
(* The rest of the state.                                                   *)
Counted ==
  /\ told \in BOOLEAN /\ handler \in BOOLEAN
  /\ runs \in 1 .. MaxRuns /\ lines \in 0 .. MaxLines

LEMMA LifecycleTells ==
  ASSUME Lifecycle, told \in BOOLEAN
  PROVE  told' \in BOOLEAN
  <1>1. CASE EmuInit \/ RomInit \/ RomMap \/ AciaClkAdd \/ AciaMap
    BY <1>1 DEF EmuInit, RomInit, RomMap, AciaClkAdd, AciaMap, Maps, Builds
  <1>2. CASE AciaInit
    BY <1>2 DEF AciaInit
  <1>3. CASE ViaInit \/ ViaMap \/ RamInit \/ RamMap \/ SdInit \/ SpiInit
    BY <1>3 DEF ViaInit, ViaMap, RamInit, RamMap, SdInit, SpiInit, Maps, Builds
  <1>4. CASE SpiCleanup \/ RomDestroy \/ RamCleanup \/ ViaCleanup \/ ClkRemove \/ EmuCleanup
    BY <1>4 DEF SpiCleanup, RomDestroy, RamCleanup, ViaCleanup, ClkRemove, EmuCleanup, Frees
  <1>5. CASE AciaStop \/ AciaJoin
    BY <1>5 DEF AciaStop, AciaJoin, Shutdown
  <1>q. QED BY <1>1, <1>2, <1>3, <1>4, <1>5 DEF Lifecycle

LEMMA Bounds ==
  /\ 1 \in 1 .. MaxRuns /\ 0 \in 0 .. MaxLines
  /\ \A n \in 1 .. MaxRuns : n < MaxRuns => n + 1 \in 1 .. MaxRuns
  /\ \A n \in 0 .. MaxLines : n < MaxLines => n + 1 \in 0 .. MaxLines
  <1>1. MaxRuns \in Nat \ {0} /\ MaxLines \in Nat
    BY DbgcliAssumption
  <1>q. QED BY <1>1

LEMMA AlwaysCounted ==
  Spec => []Counted
  <1>1. Init => Counted
    BY Bounds DEF Init, Counted
  <1>2. Counted /\ [Next]_vars => Counted'
    <2> SUFFICES ASSUME Counted, [Next]_vars PROVE Counted'
      OBVIOUS
    <2>1. CASE Lifecycle /\ KeepCli
      BY <2>1, LifecycleTells DEF Counted, KeepCli
    <2>2. CASE DebugInit \/ LoadLabels \/ SigAction \/ SigAdd \/ CommandDone \/ EndOfInput
      BY <2>2 DEF DebugInit, LoadLabels, SigAction, SigAdd, CommandDone, EndOfInput, KeepCli, Counted
    <2>3. CASE Unregister
      BY <2>3, Bounds DEF Unregister, Counted
    <2>4. CASE Restart
      BY <2>4, Bounds DEF Restart, Counted
    <2>5. CASE CtrlC \/ CommandRuns
      BY <2>5 DEF CtrlC, CommandRuns, KeepCli, Counted
    <2>6. CASE \E l \in Lines : ReadLine(l)
      <3>1. told' = told /\ handler' = handler /\ runs' = runs /\ lines' = lines + 1 /\ lines < MaxLines
        BY <2>6 DEF ReadLine
      <3>q. QED BY <3>1, Bounds DEF Counted
    <2>7. CASE Thread
      BY <2>7 DEF Thread, ThreadRuns, ThreadEnds, KeepCli, Counted
    <2>8. CASE UNCHANGED vars
      BY <2>8 DEF vars, platVars, Counted
    <2>q. QED BY <2>1, <2>2, <2>3, <2>4, <2>5, <2>6, <2>7, <2>8 DEF Next, Main, User
  <1>q. QED BY <1>1, <1>2, PTL DEF Spec

(* The state keeps its types: what is live or pointed to is an object of   *)
(* the program, and no line has more parameters than params has room for.  *)
THEOREM Typing ==
  ASSUME "emu" \notin Fallible, "thread" \notin Fallible
  PROVE  Spec => []TypeOK
  <1>1. Standing /\ Repeatable /\ Counted => TypeOK
    BY DEF Standing, Sound, MemoryType, Repeatable, Counted, TypeOK
  <1>q. QED BY <1>1, AlwaysStanding, AlwaysRepeatable, AlwaysCounted, PTL
===============================================================================
