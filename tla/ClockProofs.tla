----------------------------- MODULE ClockProofs -----------------------------
(***************************************************************************)
(* Proofs about module Clock, for every set of clocks, every configuration *)
(* and any number of half ticks.                                           *)
(***************************************************************************)
EXTENDS Clock, SequenceTheorems, TLAPS

-----------------------------------------------------------------------------
(* Sequences: what list_insert_before and list_remove do to the list.       *)

(* Inserting at position n shifts the tail by one place.                    *)
LEMMA InsertLemma ==
  ASSUME NEW S, NEW s \in Seq(S), NEW e \in S, NEW n \in 1 .. Len(s) + 1
  PROVE  /\ InsertAt(s, n, e) \in Seq(S)
         /\ Len(InsertAt(s, n, e)) = Len(s) + 1
         /\ \A i \in 1 .. Len(s) + 1 :
              InsertAt(s, n, e)[i] = IF i < n THEN s[i]
                                     ELSE IF i = n THEN e ELSE s[i - 1]
<1> DEFINE a == SubSeq(s, 1, n - 1)
           b == SubSeq(s, n, Len(s))
<1>1. /\ a \in Seq(S) /\ Len(a) = n - 1
      /\ \A i \in 1 .. n - 1 : a[i] = s[i]
  OBVIOUS
<1>2. /\ b \in Seq(S) /\ Len(b) = Len(s) + 1 - n
      /\ \A i \in 1 .. Len(s) + 1 - n : b[i] = s[n + i - 1]
  OBVIOUS
<1>3. <<e>> \in Seq(S) /\ Len(<<e>>) = 1 /\ <<e>>[1] = e
  OBVIOUS
<1> HIDE DEF a, b
<1>4. /\ a \o <<e>> \in Seq(S) /\ Len(a \o <<e>>) = n
      /\ \A i \in 1 .. n : (a \o <<e>>)[i] = IF i < n THEN s[i] ELSE e
  BY <1>1, <1>3
<1> DEFINE d == a \o <<e>>
<1> HIDE DEF d
<1>5. /\ d \in Seq(S) /\ Len(d) = n /\ n \in Nat /\ Len(s) \in Nat
      /\ \A i \in 1 .. n : d[i] = IF i < n THEN s[i] ELSE e
  BY <1>4 DEF d
<1>6. d \o b \in Seq(S) /\ Len(d \o b) = Len(s) + 1
  BY <1>2, <1>5
<1>7. ASSUME NEW i \in 1 .. Len(s) + 1
      PROVE  (d \o b)[i] = IF i < n THEN s[i]
                            ELSE IF i = n THEN e ELSE s[i - 1]
  <2>1. CASE i <= n
    <3>1. (d \o b)[i] = d[i]
      BY <1>2, <1>5, <2>1
    <3> QED BY <3>1, <1>5, <2>1
  <2>2. CASE i > n
    <3>1. (d \o b)[i] = b[i - n]
      BY <1>2, <1>5, <2>2
    <3>2. i - n \in 1 .. Len(s) + 1 - n /\ n + (i - n) - 1 = i - 1
      BY <1>5, <2>2
    <3> QED BY <3>1, <3>2, <1>2, <2>2
  <2>3. i \in Int /\ (i <= n \/ i > n)
    BY <1>5
  <2> QED BY <2>1, <2>2, <2>3
<1>8. InsertAt(s, n, e) = d \o b
  BY DEF InsertAt, a, b, d
<1> QED BY <1>6, <1>7, <1>8

(* Removing position n shifts the tail back.                                *)
LEMMA RemoveLemma ==
  ASSUME NEW S, NEW s \in Seq(S), NEW n \in 1 .. Len(s)
  PROVE  /\ RemoveAt(s, n) \in Seq(S)
         /\ Len(RemoveAt(s, n)) = Len(s) - 1
         /\ \A i \in 1 .. Len(s) - 1 :
              RemoveAt(s, n)[i] = IF i < n THEN s[i] ELSE s[i + 1]
<1> DEFINE a == SubSeq(s, 1, n - 1)
           b == SubSeq(s, n + 1, Len(s))
<1>1. /\ a \in Seq(S) /\ Len(a) = n - 1
      /\ \A i \in 1 .. n - 1 : a[i] = s[i]
  OBVIOUS
<1>2. /\ b \in Seq(S) /\ Len(b) = Len(s) - n
      /\ \A i \in 1 .. Len(s) - n : b[i] = s[n + i]
  OBVIOUS
<1> HIDE DEF a, b
<1>3. n \in Nat /\ Len(s) \in Nat
  OBVIOUS
<1>4. a \o b \in Seq(S) /\ Len(a \o b) = Len(s) - 1
  <2>1. a \o b \in Seq(S) /\ Len(a \o b) = Len(a) + Len(b)
    BY <1>1, <1>2, ConcatProperties
  <2>2. (n - 1) + (Len(s) - n) = Len(s) - 1
    BY <1>3
  <2> QED BY <2>1, <2>2, <1>1, <1>2
<1>5. ASSUME NEW i \in 1 .. Len(s) - 1
      PROVE  (a \o b)[i] = IF i < n THEN s[i] ELSE s[i + 1]
  <2>1. CASE i < n
    <3>1. (a \o b)[i] = a[i] /\ i \in 1 .. n - 1
      BY <1>1, <1>2, <1>3, <2>1
    <3> QED BY <3>1, <1>1, <2>1
  <2>2. CASE i >= n
    <3>1. (a \o b)[i] = b[i - (n - 1)]
      BY <1>1, <1>2, <1>3, <2>2
    <3>2. i - (n - 1) \in 1 .. Len(s) - n /\ n + (i - (n - 1)) = i + 1
      BY <1>3, <2>2
    <3>3. ~(i < n)
      BY <1>3, <2>2
    <3> QED BY <3>1, <3>2, <3>3, <1>2
  <2>3. i \in Int /\ (i < n \/ i >= n)
    BY <1>3
  <2> QED BY <2>1, <2>2, <2>3
<1>6. RemoveAt(s, n) = a \o b
  BY DEF RemoveAt, a, b
<1> QED BY <1>4, <1>5, <1>6

(* The rest of the list when its head is taken off.                         *)
LEMMA TailLemma ==
  ASSUME NEW S, NEW s \in Seq(S), s # <<>>
  PROVE  /\ Head(s) \in S /\ Head(s) = s[1] /\ Len(s) >= 1
         /\ Tail(s) \in Seq(S) /\ Len(Tail(s)) = Len(s) - 1
         /\ \A i \in 1 .. Len(s) - 1 : Tail(s)[i] = s[i + 1]
  OBVIOUS

-----------------------------------------------------------------------------
(* Arithmetic of the two phases.                                            *)

(* From one edge to the next there is exactly the length of the phase       *)
(* between them.                                                           *)
LEMMA EdgeTimeStep ==
  ASSUME NEW p \in Nat, NEW n \in Nat
  PROVE  /\ Ideal!EdgeTime(p, n) \in Nat
         /\ Ideal!EdgeTime(p, n + 1)
              = Ideal!EdgeTime(p, n) + PhaseLength(p, n % 2 = 1)
<1>1. PICK k \in Nat : n = 2 * k \/ n = 2 * k + 1
  <2>1. n \div 2 \in Nat /\ (n = 2 * (n \div 2) \/ n = 2 * (n \div 2) + 1)
    OBVIOUS
  <2> QED BY <2>1
<1>2. PICK m \in Nat : m = k * p
  OBVIOUS
<1>3. (k + 1) * p = m + p
  BY <1>2
<1>4. CASE n = 2 * k
  <2>1. n \div 2 = k /\ n % 2 = 0 /\ (n + 1) \div 2 = k /\ (n + 1) % 2 = 1
    BY <1>4
  <2> QED BY <2>1, <1>2 DEF Ideal!EdgeTime, PhaseLength
<1>5. CASE n = 2 * k + 1
  <2>1. /\ n \div 2 = k /\ n % 2 = 1
        /\ (n + 1) \div 2 = k + 1 /\ (n + 1) % 2 = 0
    BY <1>5
  <2> QED BY <2>1, <1>2, <1>3 DEF Ideal!EdgeTime, PhaseLength
<1> QED BY <1>1, <1>4, <1>5

(* The same for the main clock.                                             *)
LEMMA MainEdgeTimeStep ==
  ASSUME NEW p \in Nat, NEW n \in Nat
  PROVE  /\ Ideal!MainEdgeTime(p, n) \in Nat
         /\ Ideal!MainEdgeTime(p, n + 1)
              = Ideal!MainEdgeTime(p, n) + HalfTick(p, (n + 1) % 2 = 1)
<1>1. PICK k \in Nat : n = 2 * k \/ n = 2 * k + 1
  <2>1. n \div 2 \in Nat /\ (n = 2 * (n \div 2) \/ n = 2 * (n \div 2) + 1)
    OBVIOUS
  <2> QED BY <2>1
<1>2. PICK m \in Nat : m = k * p
  OBVIOUS
<1>3. (k + 1) * p = m + p
  BY <1>2
<1>4. CASE n = 2 * k
  <2>1. n \div 2 = k /\ n % 2 = 0 /\ (n + 1) \div 2 = k /\ (n + 1) % 2 = 1
    BY <1>4
  <2> QED BY <2>1, <1>2 DEF Ideal!MainEdgeTime, HalfTick
<1>5. CASE n = 2 * k + 1
  <2>1. /\ n \div 2 = k /\ n % 2 = 1
        /\ (n + 1) \div 2 = k + 1 /\ (n + 1) % 2 = 0
    BY <1>5
  <2> QED BY <2>1, <1>2, <1>3 DEF Ideal!MainEdgeTime, HalfTick
<1> QED BY <1>1, <1>4, <1>5

(* Changing parity.                                                         *)
LEMMA Parity == \A n \in Nat : ((n + 1) % 2 = 1) = ~(n % 2 = 1)
  OBVIOUS

-----------------------------------------------------------------------------
(* The list.                                                                *)

Has(list, c) == \E i \in 1 .. Len(list) : list[i] = c

SortedBy(list, left) ==
  \A i, j \in 1 .. Len(list) :
    i < j => list[i] # list[j] /\ left[list[i]] <= left[list[j]]

(* Inserting a clock adds that clock and no other.                          *)
LEMMA InsertMembers ==
  ASSUME NEW list \in Seq(Clk), NEW c \in Clk, NEW n \in 1 .. Len(list) + 1
  PROVE  \A d : Has(InsertAt(list, n, c), d) <=> d = c \/ Has(list, d)
<1> DEFINE r == InsertAt(list, n, c)
<1>1. /\ r \in Seq(Clk) /\ Len(r) = Len(list) + 1
      /\ \A i \in 1 .. Len(list) + 1 :
           r[i] = IF i < n THEN list[i] ELSE IF i = n THEN c ELSE list[i - 1]
  <2>1. list \in Seq(Clk) /\ c \in Clk /\ n \in 1 .. Len(list) + 1
    OBVIOUS
  <2>2. r \in Seq(Clk)
    BY <2>1, InsertLemma
  <2>3. Len(r) = Len(list) + 1
    BY <2>1, InsertLemma
  <2>4. \A i \in 1 .. Len(list) + 1 :
          r[i] = IF i < n THEN list[i] ELSE IF i = n THEN c ELSE list[i - 1]
    BY <2>1, InsertLemma
  <2> QED BY <2>2, <2>3, <2>4
<1> HIDE DEF r
<1>2. Len(list) \in Nat /\ n \in Nat
  OBVIOUS
<1>3. ASSUME NEW d PROVE Has(r, d) <=> d = c \/ Has(list, d)
  <2>1. Has(r, d) => d = c \/ Has(list, d)
    <3>1. ASSUME NEW i \in 1 .. Len(list) + 1, r[i] = d
          PROVE  d = c \/ Has(list, d)
      <4>1. CASE i < n
        <5>1. r[i] = list[i] /\ i \in 1 .. Len(list)
          BY <4>1, <1>1, <1>2
        <5> QED BY <3>1, <5>1 DEF Has
      <4>2. CASE i = n
        BY <3>1, <4>2, <1>1, <1>2 DEF Has
      <4>3. CASE i > n
        <5>1. r[i] = list[i - 1] /\ i - 1 \in 1 .. Len(list)
          BY <4>3, <1>1, <1>2
        <5> QED BY <3>1, <5>1 DEF Has
      <4> QED BY <4>1, <4>2, <4>3, <1>2
    <3> QED BY <3>1, <1>1 DEF Has
  <2>2. r[n] = c /\ n \in 1 .. Len(r)
    BY <1>1, <1>2
  <2>3. ASSUME NEW i \in 1 .. Len(list), list[i] = d
        PROVE  Has(r, d)
    <3>1. CASE i < n
      <4>1. r[i] = d /\ i \in 1 .. Len(r)
        BY <2>3, <3>1, <1>1, <1>2
      <4> QED BY <4>1 DEF Has
    <3>2. CASE i >= n
      <4>1. i + 1 \in 1 .. Len(list) + 1 /\ ~(i + 1 < n) /\ i + 1 # n
        BY <3>2, <1>2
      <4>2. r[i + 1] = list[(i + 1) - 1]
        BY <4>1, <1>1
      <4>3. (i + 1) - 1 = i
        BY <1>2
      <4>4. r[i + 1] = d /\ i + 1 \in 1 .. Len(r)
        BY <4>1, <4>2, <4>3, <2>3, <1>1
      <4> QED BY <4>4 DEF Has
    <3> QED BY <3>1, <3>2, <1>2
  <2> QED BY <2>1, <2>2, <2>3 DEF Has
<1> QED BY <1>3 DEF r

(* Putting a clock in its place keeps the list sorted and free of           *)
(* duplicates, and adds that clock and no other.                           *)
LEMMA PlaceKeepsOrder ==
  ASSUME NEW list \in Seq(Clk), NEW c \in Clk, NEW left \in [Clk -> Nat],
         SortedBy(list, left), ~Has(list, c),
         NEW n \in 1 .. Len(list) + 1, IsPlace(list, n, c, left)
  PROVE  /\ InsertAt(list, n, c) \in Seq(Clk)
         /\ InsertAt(list, n, c) # <<>>
         /\ SortedBy(InsertAt(list, n, c), left)
         /\ \A d : Has(InsertAt(list, n, c), d) <=> d = c \/ Has(list, d)
<1> DEFINE r == InsertAt(list, n, c)
<1>1. /\ r \in Seq(Clk) /\ Len(r) = Len(list) + 1
      /\ \A i \in 1 .. Len(list) + 1 :
           r[i] = IF i < n THEN list[i] ELSE IF i = n THEN c ELSE list[i - 1]
  <2>1. list \in Seq(Clk) /\ c \in Clk /\ n \in 1 .. Len(list) + 1
    OBVIOUS
  <2>2. r \in Seq(Clk)
    BY <2>1, InsertLemma
  <2>3. Len(r) = Len(list) + 1
    BY <2>1, InsertLemma
  <2>4. \A i \in 1 .. Len(list) + 1 :
          r[i] = IF i < n THEN list[i] ELSE IF i = n THEN c ELSE list[i - 1]
    BY <2>1, InsertLemma
  <2> QED BY <2>2, <2>3, <2>4
<1> HIDE DEF r
<1>2. Len(list) \in Nat /\ n \in Nat
  OBVIOUS
<1>3. \A i \in 1 .. Len(list) : list[i] \in Clk /\ left[list[i]] \in Nat
  OBVIOUS
<1>4. \A i \in 1 .. n - 1 : left[list[i]] < left[c]
  BY DEF IsPlace
<1>5. ASSUME NEW j \in n .. Len(list)
      PROVE  left[c] <= left[list[j]]
  <2>1. left[c] <= left[list[n]] /\ n \in 1 .. Len(list)
    BY <1>2, <1>5 DEF IsPlace
  <2>2. left[list[n]] <= left[list[j]]
    BY <1>2, <1>3, <1>5, <2>1 DEF SortedBy
  <2> QED BY <2>1, <2>2, <1>2, <1>3, <1>5
<1>6. SortedBy(r, left)
  <2> SUFFICES ASSUME NEW i \in 1 .. Len(r), NEW j \in 1 .. Len(r), i < j
               PROVE  r[i] # r[j] /\ left[r[i]] <= left[r[j]]
    BY DEF SortedBy
  <2>1. i \in 1 .. Len(list) + 1 /\ j \in 1 .. Len(list) + 1
    BY <1>1
  <2>2. CASE j < n
    <3>1. r[i] = list[i] /\ r[j] = list[j]
      BY <1>1, <1>2, <2>1, <2>2
    <3> QED BY <3>1, <1>2, <2>1, <2>2 DEF SortedBy
  <2>3. CASE j = n
    <3>1. r[i] = list[i] /\ r[j] = c /\ i \in 1 .. n - 1
      BY <1>1, <1>2, <2>1, <2>3
    <3> QED BY <3>1, <1>2, <1>3, <1>4, <2>1, <2>3 DEF Has
  <2>4. CASE j > n
    <3>1. r[j] = list[j - 1] /\ j - 1 \in n .. Len(list)
      BY <1>1, <1>2, <2>1, <2>4
    <3>2. CASE i < n
      <4>1. r[i] = list[i]
        BY <1>1, <1>2, <2>1, <3>2
      <4>2. i \in 1 .. Len(list) /\ j - 1 \in 1 .. Len(list) /\ i < j - 1
        BY <1>2, <2>1, <2>4, <3>2
      <4> QED BY <3>1, <4>1, <4>2 DEF SortedBy
    <3>3. CASE i = n
      <4>1. r[i] = c
        BY <1>1, <1>2, <2>1, <3>3
      <4> QED BY <3>1, <4>1, <1>2, <1>5 DEF Has
    <3>4. CASE i > n
      <4>1. r[i] = list[i - 1]
        BY <1>1, <1>2, <2>1, <3>4
      <4>2. /\ i - 1 \in 1 .. Len(list) /\ j - 1 \in 1 .. Len(list)
            /\ i - 1 < j - 1
        BY <1>2, <2>1, <2>4, <3>4
      <4> QED BY <3>1, <4>1, <4>2 DEF SortedBy
    <3> QED BY <3>2, <3>3, <3>4, <1>2, <2>1
  <2> QED BY <2>2, <2>3, <2>4, <1>2, <2>1
<1>7. ASSUME NEW d PROVE Has(r, d) <=> d = c \/ Has(list, d)
  BY InsertMembers DEF r
<1>8. r # <<>>
  BY <1>1, <1>2
<1> QED BY <1>1, <1>6, <1>7, <1>8 DEF r

(* Taking an element off the list keeps it sorted and removes that element  *)
(* and no other.                                                           *)
LEMMA RemoveKeepsOrder ==
  ASSUME NEW list \in Seq(Clk), NEW left, SortedBy(list, left),
         NEW n \in 1 .. Len(list)
  PROVE  /\ RemoveAt(list, n) \in Seq(Clk)
         /\ SortedBy(RemoveAt(list, n), left)
         /\ \A d : Has(RemoveAt(list, n), d) <=> Has(list, d) /\ d # list[n]
<1> DEFINE r == RemoveAt(list, n)
<1>1. /\ r \in Seq(Clk) /\ Len(r) = Len(list) - 1
      /\ \A i \in 1 .. Len(list) - 1 :
           r[i] = IF i < n THEN list[i] ELSE list[i + 1]
  BY RemoveLemma, Zenon
<1> HIDE DEF r
<1>2. Len(list) \in Nat /\ n \in Nat
  OBVIOUS
<1>3. SortedBy(r, left)
  <2> SUFFICES ASSUME NEW i \in 1 .. Len(r), NEW j \in 1 .. Len(r), i < j
               PROVE  r[i] # r[j] /\ left[r[i]] <= left[r[j]]
    BY DEF SortedBy
  <2>1. i \in 1 .. Len(list) - 1 /\ j \in 1 .. Len(list) - 1
    BY <1>1
  <2>2. PICK x \in 1 .. Len(list), y \in 1 .. Len(list) :
          x < y /\ r[i] = list[x] /\ r[j] = list[y]
    <3>1. CASE j < n
      <4>1. r[i] = list[i] /\ r[j] = list[j]
        BY <1>1, <1>2, <2>1, <3>1
      <4>2. i \in 1 .. Len(list) /\ j \in 1 .. Len(list)
        BY <1>2, <2>1
      <4> QED BY <4>1, <4>2
    <3>2. CASE i < n /\ j >= n
      <4>1. r[i] = list[i] /\ r[j] = list[j + 1]
        BY <1>1, <1>2, <2>1, <3>2
      <4> QED BY <4>1, <1>2, <2>1
    <3>3. CASE i >= n
      <4>1. r[i] = list[i + 1] /\ r[j] = list[j + 1]
        BY <1>1, <1>2, <2>1, <3>3
      <4> QED BY <4>1, <1>2, <2>1
    <3> QED BY <3>1, <3>2, <3>3, <1>2, <2>1
  <2> QED BY <2>2 DEF SortedBy
<1>4. ASSUME NEW d PROVE Has(r, d) <=> Has(list, d) /\ d # list[n]
  <2>1. ASSUME NEW i \in 1 .. Len(list) - 1, r[i] = d
        PROVE  Has(list, d) /\ d # list[n]
    <3>1. CASE i < n
      BY <2>1, <3>1, <1>1, <1>2 DEF Has, SortedBy
    <3>2. CASE i >= n
      <4>1. d = list[i + 1] /\ i + 1 \in 1 .. Len(list) /\ n < i + 1
        BY <2>1, <3>2, <1>1, <1>2
      <4> QED BY <4>1 DEF Has, SortedBy
    <3> QED BY <3>1, <3>2, <1>2
  <2>2. ASSUME NEW i \in 1 .. Len(list), list[i] = d, d # list[n]
        PROVE  Has(r, d)
    <3>1. CASE i < n
      <4>1. r[i] = d /\ i \in 1 .. Len(r)
        BY <2>2, <3>1, <1>1, <1>2
      <4> QED BY <4>1 DEF Has
    <3>2. CASE i > n
      <4>1. r[i - 1] = d /\ i - 1 \in 1 .. Len(r)
        BY <2>2, <3>2, <1>1, <1>2
      <4> QED BY <4>1 DEF Has
    <3> QED BY <3>1, <3>2, <2>2, <1>2
  <2> QED BY <2>1, <2>2, <1>1 DEF Has
<1> QED BY <1>1, <1>3, <1>4 DEF r

-----------------------------------------------------------------------------
(* The inductive invariant.  ListSorted is what keeps ticks from            *)
(* underflowing when the head's time is charged to the others,             *)
(* TicksAreTimeToEdge and MainKeepsTime tie the relative times to now.     *)
IInv == TypeOK /\ ListSorted /\ TicksAreTimeToEdge /\ MainKeepsTime

(* clock_alloc_clk only makes clocks of at least 1 ns.                      *)
LEMMA PeriodPositive ==
  ASSUME NEW cfg \in ConfigType, Accepted(cfg)
  PROVE  PeriodOf(cfg) \in Nat \ {0}
<1>1. cfg.timing \in Nat \ {0} /\ NsPerSec \in Nat \ {0}
  BY ClockAssumption DEF ConfigType, Accepted
<1>2. CASE cfg.timing_type = "CLOCK_PERIOD"
  BY <1>1, <1>2 DEF PeriodOf
<1>3. CASE cfg.timing_type = "CLOCK_FREQ"
  <2>1. cfg.timing <= NsPerSec
    BY <1>3 DEF Accepted
  <2> DEFINE t == cfg.timing
  <2>2. t \in Nat \ {0} /\ NsPerSec + (t \div 2) >= t /\ NsPerSec + (t \div 2) \in Nat
    BY <1>1, <2>1
  <2>3. ASSUME NEW x \in Nat, NEW y \in Nat \ {0}, x >= y
        PROVE  x \div y \in Nat \ {0}
    <3>1. x \div y \in Nat /\ x = y * (x \div y) + (x % y) /\ x % y \in 0 .. y - 1
      BY <2>3
    <3>2. x \div y = 0 => y * (x \div y) = 0
      BY <2>3
    <3> QED BY <3>1, <3>2, <2>3
  <2>4. (NsPerSec + (t \div 2)) \div t \in Nat \ {0}
    BY <2>2, <2>3
  <2> QED BY <2>4, <1>3 DEF PeriodOf
<1> QED BY <1>2, <1>3 DEF ConfigType

LEMMA PhaseLengthNat ==
  ASSUME NEW p \in Nat, NEW ph \in BOOLEAN
  PROVE  PhaseLength(p, ph) \in Nat /\ HalfTick(p, ph) \in Nat
BY DEF PhaseLength, HalfTick

(* The initial state.                                                       *)
LEMMA InitInv == Init => IInv
<1> SUFFICES ASSUME Init PROVE IInv
  OBVIOUS
<1>1. mainPeriod \in Nat \ {0}
  BY ClockAssumption, PeriodPositive DEF Init
<1>2. TypeOK
  <2>1. mainPhase \in BOOLEAN /\ phase \in [Clk -> BOOLEAN]
        /\ rerun \in BOOLEAN /\ mainTicked \in BOOLEAN
    BY Zenon DEF Init
  <2>2. /\ clks \in Seq(Clk) /\ step \in {"idle", "loop"}
        /\ period \in [Clk -> Nat \ {0}] /\ ticks \in [Clk -> Nat]
        /\ remaining \in Nat /\ now \in Nat /\ mainEdges \in Nat
        /\ halves \in Nat /\ born \in [Clk -> Nat] /\ edges \in [Clk -> Nat]
    BY DEF Init
  <2> QED BY <1>1, <2>1, <2>2 DEF TypeOK
<1>3. ListSorted /\ TicksAreTimeToEdge
  BY DEF Init, ListSorted, TicksAreTimeToEdge, Live, InList
<1>4. MainKeepsTime
  <2>1. 0 \div 2 = 0 /\ 0 % 2 = 0 /\ 0 * mainPeriod = 0
    BY <1>1
  <2>2. mainPhase = FALSE /\ step = "idle" /\ now = 0 /\ mainEdges = 0
    BY DEF Init
  <2>3. mainPhase <=> mainEdges % 2 = 1
    BY <2>1, <2>2
  <2>4. Ideal!MainDueAt = mainPeriod - (mainPeriod \div 2)
    BY <1>1, <2>1, <2>2 DEF Ideal!MainDueAt, Ideal!MainEdgeTime
  <2>5. now + HalfTick(mainPeriod, mainPhase) = Ideal!MainDueAt
    BY <1>1, <2>2, <2>4 DEF HalfTick
  <2> QED BY <2>2, <2>3, <2>5 DEF MainKeepsTime
<1> QED BY <1>2, <1>3, <1>4 DEF IInv

(* The invariant in terms of the operators on lists above.                  *)
LEMMA ListFacts ==
  /\ ListSorted <=> SortedBy(clks, ticks)
  /\ \A c : InList(c) <=> Has(clks, c)
  /\ \A c : c \in Live <=> c \in Clk /\ Has(clks, c)
BY DEF ListSorted, SortedBy, InList, Has, Live

LEMMA ListFactsNext ==
  /\ ListSorted' <=> SortedBy(clks', ticks')
  /\ \A c : c \in Live' <=> c \in Clk /\ Has(clks', c)
BY DEF ListSorted, SortedBy, InList, Has, Live

(* A clock whose bookkeeping is unchanged, or that is charged exactly the   *)
(* time that passes, stays on its ideal wave.                              *)
LEMMA ChargedClock ==
  ASSUME TypeOK, NEW c \in Live, TicksAreTimeToEdge, NEW t \in Nat,
         ticks'[c] = ticks[c] - t, now' = now + t,
         period'[c] = period[c], born'[c] = born[c], edges'[c] = edges[c],
         phase'[c] = phase[c]
  PROVE  /\ now' + ticks'[c] = Ideal!DueAt(c)'
         /\ phase'[c] <=> edges'[c] % 2 = 1
<1>1. now \in Nat /\ ticks[c] \in Nat
  BY DEF TypeOK, Live
<1>2. now + ticks[c] = Ideal!DueAt(c) /\ (phase[c] <=> edges[c] % 2 = 1)
  BY DEF TicksAreTimeToEdge
<1>3. Ideal!DueAt(c)' = Ideal!DueAt(c)
  BY DEF Ideal!DueAt
<1>4. now' + ticks'[c] = now + ticks[c]
  BY <1>1
<1> QED BY <1>2, <1>3, <1>4

(* clock_add.                                                               *)
LEMMA ClockAddInv ==
  ASSUME IInv, NEW c \in Clk, NEW cfg \in Configs, ClockAdd(c, cfg)
  PROVE  IInv'
<1> DEFINE p == PeriodOf(cfg)
<1>1. p \in Nat \ {0} /\ p \div 2 \in Nat
  BY ClockAssumption, PeriodPositive DEF ClockAdd
<1> HIDE DEF p
<1>2. /\ period' = [period EXCEPT ![c] = p]
      /\ ticks' = [ticks EXCEPT ![c] = p \div 2]
      /\ phase' = [phase EXCEPT ![c] = FALSE]
      /\ born' = [born EXCEPT ![c] = now]
      /\ edges' = [edges EXCEPT ![c] = 0]
      /\ UNCHANGED <<mainPeriod, mainPhase, loopVars, now, mainEdges, halves>>
      /\ step = "idle" /\ ~Has(clks, c)
  BY DEF ClockAdd, p, InList, Has
<1>3. PICK n \in 1 .. Len(clks) + 1 :
        IsPlace(clks, n, c, ticks') /\ clks' = InsertAt(clks, n, c)
  BY DEF ClockAdd
<1>4. TypeOK /\ SortedBy(clks, ticks) /\ TicksAreTimeToEdge /\ MainKeepsTime
  BY ListFacts DEF IInv
<1>5. clks \in Seq(Clk) /\ ticks' \in [Clk -> Nat]
  BY <1>1, <1>2, <1>4 DEF TypeOK
<1>6. SortedBy(clks, ticks')
  <2>1. \A i \in 1 .. Len(clks) : clks[i] # c /\ clks[i] \in Clk
    BY <1>2, <1>5 DEF Has
  <2>2. \A i \in 1 .. Len(clks) : ticks'[clks[i]] = ticks[clks[i]]
    BY <1>2, <1>4, <2>1 DEF TypeOK
  <2> QED BY <1>4, <2>2 DEF SortedBy
<1>7. /\ clks' \in Seq(Clk) /\ SortedBy(clks', ticks')
      /\ \A d : Has(clks', d) <=> d = c \/ Has(clks, d)
  BY <1>2, <1>3, <1>5, <1>6, PlaceKeepsOrder
<1>8. TypeOK'
  <2>1. phase' \in [Clk -> BOOLEAN]
    BY <1>2, <1>4 DEF TypeOK
  <2> QED BY <1>1, <1>2, <1>4, <1>5, <1>7, <2>1 DEF TypeOK, loopVars
<1>9. TicksAreTimeToEdge'
  <2> SUFFICES ASSUME NEW d \in Live'
               PROVE  /\ now' + ticks'[d] = Ideal!DueAt(d)'
                      /\ phase'[d] <=> edges'[d] % 2 = 1
    BY DEF TicksAreTimeToEdge
  <2>1. d \in Clk /\ (d = c \/ Has(clks, d))
    BY <1>7, ListFactsNext
  <2>2. CASE d = c
    <3>1. /\ ticks'[c] = p \div 2 /\ born'[c] = now /\ edges'[c] = 0
          /\ period'[c] = p /\ now' = now /\ now \in Nat
      BY <1>2, <1>4 DEF TypeOK
    <3>2. ~phase'[c]
      BY <1>2, <1>4 DEF TypeOK
    <3>3. 0 \div 2 = 0 /\ 0 % 2 = 0 /\ 0 * p = 0
      BY <1>1
    <3>4. Ideal!DueAt(c)' = now + (p \div 2)
      BY <1>1, <3>1, <3>3 DEF Ideal!DueAt, Ideal!EdgeTime
    <3> QED BY <2>2, <3>1, <3>2, <3>3, <3>4
  <2>3. CASE d # c
    <3>1. d \in Live
      BY <2>1, <2>3, ListFacts
    <3>2. /\ ticks'[d] = ticks[d] - 0 /\ now' = now + 0
          /\ period'[d] = period[d] /\ born'[d] = born[d]
          /\ edges'[d] = edges[d]
      BY <1>2, <1>4, <2>1, <2>3 DEF TypeOK
    <3>3. phase'[d] = phase[d]
      BY <1>2, <1>4, <2>1, <2>3 DEF TypeOK
    <3> QED BY <1>4, <3>1, <3>2, <3>3, ChargedClock
  <2> QED BY <2>2, <2>3
<1>10. MainKeepsTime'
  BY <1>2, <1>4 DEF MainKeepsTime, Ideal!MainDueAt, loopVars
<1> QED BY <1>7, <1>8, <1>9, <1>10, ListFactsNext DEF IInv

(* clock_remove.                                                            *)
LEMMA ClockRemoveInv ==
  ASSUME IInv, NEW n \in 1 .. Len(clks), ClockRemove(n)
  PROVE  IInv'
<1>1. /\ clks' = RemoveAt(clks, n) /\ step = "idle"
      /\ UNCHANGED <<mainPeriod, mainPhase, period, ticks, phase, loopVars,
                     history>>
  BY DEF ClockRemove
<1>2. TypeOK /\ SortedBy(clks, ticks) /\ TicksAreTimeToEdge /\ MainKeepsTime
  BY ListFacts DEF IInv
<1>3. /\ clks' \in Seq(Clk) /\ SortedBy(clks', ticks)
      /\ \A d : Has(clks', d) => Has(clks, d)
  BY <1>1, <1>2, RemoveKeepsOrder DEF TypeOK
<1>4. TypeOK'
  BY <1>1, <1>2, <1>3 DEF TypeOK, loopVars, history
<1>5. ListSorted'
  BY <1>1, <1>3, ListFactsNext
<1>6. TicksAreTimeToEdge'
  <2> SUFFICES ASSUME NEW d \in Live'
               PROVE  /\ now' + ticks'[d] = Ideal!DueAt(d)'
                      /\ phase'[d] <=> edges'[d] % 2 = 1
    BY DEF TicksAreTimeToEdge
  <2>1. d \in Live
    BY <1>3, ListFacts, ListFactsNext
  <2> QED BY <1>1, <1>2, <2>1 DEF TicksAreTimeToEdge, Ideal!DueAt, history
<1>7. MainKeepsTime'
  BY <1>1, <1>2 DEF MainKeepsTime, Ideal!MainDueAt, loopVars, history
<1> QED BY <1>4, <1>5, <1>6, <1>7 DEF IInv

(* The main clock making its edge moves its due time on by the half tick    *)
(* that follows.                                                           *)
LEMMA TickMainDue ==
  ASSUME TypeOK, mainPhase <=> mainEdges % 2 = 1, TickMain,
         UNCHANGED mainPeriod
  PROVE  /\ mainPhase' <=> mainEdges' % 2 = 1
         /\ mainPhase' \in BOOLEAN /\ mainEdges' \in Nat
         /\ Ideal!MainDueAt' = Ideal!MainDueAt + HalfTick(mainPeriod', mainPhase')
<1>1. mainEdges \in Nat /\ mainPeriod \in Nat /\ mainPhase \in BOOLEAN
  BY DEF TypeOK
<1>2. mainEdges' = mainEdges + 1 /\ mainPeriod' = mainPeriod
  BY DEF TickMain
<1>3. mainPhase' \in BOOLEAN /\ (mainPhase' <=> ~mainPhase)
  BY Zenon DEF TickMain
<1>4. ((mainEdges + 1) % 2 = 1) = ~(mainEdges % 2 = 1)
  BY <1>1, Parity
<1>5. mainPhase' <=> mainEdges' % 2 = 1
  BY <1>2, <1>3, <1>4
<1>6. Ideal!MainDueAt'
        = Ideal!MainDueAt + HalfTick(mainPeriod, (mainEdges + 1) % 2 = 1)
  BY <1>1, <1>2, MainEdgeTimeStep DEF Ideal!MainDueAt
<1>7. HalfTick(mainPeriod, (mainEdges + 1) % 2 = 1)
        = HalfTick(mainPeriod', mainPhase')
  BY <1>2, <1>3, <1>5 DEF HalfTick
<1> QED BY <1>1, <1>2, <1>3, <1>5, <1>6, <1>7

(* A half tick with no derived clock.                                       *)
LEMMA HalfTickAloneInv ==
  ASSUME IInv, HalfTickAlone
  PROVE  IInv'
<1>1. /\ step = "idle" /\ clks = <<>> /\ TickMain
      /\ now' = now + HalfTick(mainPeriod, mainPhase)
      /\ halves' = halves + 1
      /\ UNCHANGED <<mainPeriod, clks, period, ticks, phase, step, remaining,
                     rerun, born, edges>>
  BY DEF HalfTickAlone
<1>2. TypeOK /\ ListSorted /\ TicksAreTimeToEdge /\ MainKeepsTime
  BY DEF IInv
<1>3. /\ mainPhase' <=> mainEdges' % 2 = 1
      /\ mainPhase' \in BOOLEAN /\ mainEdges' \in Nat
      /\ Ideal!MainDueAt' = Ideal!MainDueAt + HalfTick(mainPeriod', mainPhase')
  BY <1>1, <1>2, TickMainDue DEF MainKeepsTime
<1>4. TypeOK'
  <2>1. mainTicked' \in BOOLEAN
    BY <1>1 DEF TickMain
  <2>2. now' \in Nat
    <3>1. HalfTick(mainPeriod, mainPhase) \in Nat /\ now \in Nat
      BY <1>2, PhaseLengthNat DEF TypeOK
    <3> QED BY <1>1, <3>1
  <2> QED BY <1>1, <1>2, <1>3, <2>1, <2>2 DEF TypeOK
<1>5. ListSorted' /\ TicksAreTimeToEdge'
  BY <1>1, <1>2
     DEF ListSorted, TicksAreTimeToEdge, Live, InList
<1>6. MainKeepsTime'
  <2>1. step' = "idle"
    BY <1>1
  <2>2. now' + HalfTick(mainPeriod', mainPhase') = Ideal!MainDueAt'
    BY <1>1, <1>2, <1>3 DEF MainKeepsTime
  <2> QED BY <1>3, <2>1, <2>2 DEF MainKeepsTime
<1> QED BY <1>4, <1>5, <1>6 DEF IInv

(* Entering and leaving the loop.                                           *)
LEMMA HalfTickBeginInv ==
  ASSUME IInv, HalfTickBegin
  PROVE  IInv'
<1>1. /\ step = "idle" /\ clks # <<>> /\ step' = "loop"
      /\ remaining' = HalfTick(mainPeriod, mainPhase)
      /\ rerun' = FALSE /\ mainTicked' = FALSE
      /\ UNCHANGED <<clockVars, history>>
  BY DEF HalfTickBegin
<1>2. TypeOK /\ ListSorted /\ TicksAreTimeToEdge /\ MainKeepsTime
  BY DEF IInv
<1>3. HalfTick(mainPeriod, mainPhase) \in Nat
  BY <1>2, PhaseLengthNat DEF TypeOK
<1>4. TypeOK'
  <2>1. rerun' \in BOOLEAN /\ mainTicked' \in BOOLEAN
    BY <1>1, Zenon
  <2> QED BY <1>1, <1>2, <1>3, <2>1 DEF TypeOK, clockVars, history
<1>5. ListSorted' /\ TicksAreTimeToEdge'
  BY <1>1, <1>2 DEF ListSorted, TicksAreTimeToEdge, Live, InList,
                    Ideal!DueAt, clockVars, history
<1>6. MainKeepsTime'
  BY <1>1, <1>2, <1>3
     DEF MainKeepsTime, Ideal!MainDueAt, TypeOK, clockVars, history
<1> QED BY <1>4, <1>5, <1>6 DEF IInv

LEMMA HalfTickEndInv ==
  ASSUME IInv, HalfTickEnd
  PROVE  IInv'
<1>1. /\ step = "loop" /\ ~LoopGuard /\ step' = "idle"
      /\ halves' = halves + 1
      /\ UNCHANGED <<clockVars, remaining, rerun, mainTicked,
                     now, born, edges, mainEdges>>
  BY DEF HalfTickEnd
<1>2. TypeOK /\ ListSorted /\ TicksAreTimeToEdge /\ MainKeepsTime
  BY DEF IInv
<1>3. TypeOK'
  BY <1>1, <1>2 DEF TypeOK, clockVars
<1>4. ListSorted' /\ TicksAreTimeToEdge'
  BY <1>1, <1>2 DEF ListSorted, TicksAreTimeToEdge, Live, InList,
                    Ideal!DueAt, clockVars
<1>5. remaining = 0
  BY <1>1, <1>2 DEF LoopGuard, TypeOK
<1>6. MainKeepsTime'
  BY <1>1, <1>2, <1>5 DEF MainKeepsTime, Ideal!MainDueAt, TypeOK, clockVars
<1> QED BY <1>3, <1>4, <1>6 DEF IInv

(* What a pass of the loop that consumes some of the remaining time does to *)
(* the main clock.                                                         *)
LEMMA PassKeepsMain ==
  ASSUME TypeOK, MainKeepsTime, step = "loop", NEW consumed \in Nat,
         remaining >= consumed, remaining' = remaining - consumed,
         now' = now + consumed, TickMainIfLast(consumed),
         UNCHANGED <<step, mainPeriod>>, clks' # <<>>
  PROVE  /\ MainKeepsTime' /\ mainPhase' \in BOOLEAN /\ mainTicked' \in BOOLEAN
         /\ mainEdges' \in Nat /\ remaining' \in Nat /\ now' \in Nat
<1>1. remaining \in Nat /\ now \in Nat /\ mainPhase \in BOOLEAN
      /\ mainEdges \in Nat
  BY DEF TypeOK
<1>2. remaining' \in Nat /\ now' \in Nat
  BY <1>1
<1>3. CASE consumed = remaining /\ ~mainTicked
  <2>1. TickMain
    BY <1>3 DEF TickMainIfLast
  <2>2. mainTicked' /\ mainTicked' \in BOOLEAN
    BY <2>1 DEF TickMain
  <2>3. /\ mainPhase' <=> mainEdges' % 2 = 1
        /\ mainPhase' \in BOOLEAN /\ mainEdges' \in Nat
        /\ Ideal!MainDueAt' = Ideal!MainDueAt + HalfTick(mainPeriod', mainPhase')
    BY <2>1, TickMainDue DEF MainKeepsTime
  <2>4. now' = Ideal!MainDueAt /\ remaining' = 0
    BY <1>1, <1>3 DEF MainKeepsTime
  <2>5. MainKeepsTime'
    BY <2>2, <2>3, <2>4 DEF MainKeepsTime
  <2> QED BY <1>2, <2>2, <2>3, <2>5
<1>4. CASE ~(consumed = remaining /\ ~mainTicked)
  <2>1. UNCHANGED <<mainPhase, mainEdges, mainTicked>>
    BY <1>4 DEF TickMainIfLast
  <2>2. Ideal!MainDueAt' = Ideal!MainDueAt
    BY <2>1 DEF Ideal!MainDueAt
  <2>3. CASE mainTicked
    <3>1. remaining = 0 /\ consumed = 0 /\ remaining' = 0 /\ now' = now
      BY <1>1, <2>3 DEF MainKeepsTime
    <3> QED BY <1>2, <2>1, <2>2, <2>3, <3>1 DEF MainKeepsTime, TypeOK
  <2>4. CASE ~mainTicked
    <3>1. remaining' > 0 /\ now' + remaining' = now + remaining
      BY <1>1, <1>4, <2>4
    <3> QED BY <1>2, <2>1, <2>2, <2>4, <3>1 DEF MainKeepsTime, TypeOK
  <2> QED BY <2>3, <2>4
<1> QED BY <1>3, <1>4

(* The pass in which the main clock alone is reached.                       *)
LEMMA TickMainOnlyInv ==
  ASSUME IInv, TickMainOnly
  PROVE  IInv'
<1>1. /\ step = "loop" /\ remaining < ticks[Head(clks)]
      /\ TickMainIfLast(remaining)
      /\ ticks' = Charge(clks, remaining) /\ rerun' = AnyDue(clks, ticks')
      /\ remaining' = 0 /\ now' = now + remaining
      /\ UNCHANGED <<mainPeriod, clks, period, phase, step, born, edges, halves>>
  BY DEF TickMainOnly
<1>2. TypeOK /\ SortedBy(clks, ticks) /\ TicksAreTimeToEdge /\ MainKeepsTime
  BY ListFacts DEF IInv
<1>3. /\ clks \in Seq(Clk) /\ clks # <<>> /\ remaining \in Nat
      /\ ticks \in [Clk -> Nat]
  BY <1>1, <1>2 DEF TypeOK, MainKeepsTime
<1>4. /\ MainKeepsTime' /\ mainPhase' \in BOOLEAN /\ mainTicked' \in BOOLEAN
      /\ mainEdges' \in Nat /\ remaining' \in Nat /\ now' \in Nat
  <2>1. remaining' = remaining - remaining /\ remaining >= remaining
        /\ clks' # <<>>
    BY <1>1, <1>3
  <2> QED BY <1>1, <1>2, <1>3, <2>1, PassKeepsMain
<1>5. ASSUME NEW i \in 1 .. Len(clks)
      PROVE  ticks[clks[i]] >= remaining /\ clks[i] \in Clk
  <2>1. Head(clks) = clks[1] /\ Len(clks) \in Nat /\ clks[1] \in Clk
    BY <1>3
  <2>2. ticks[clks[1]] <= ticks[clks[i]]
    BY <1>2, <1>3, <2>1 DEF SortedBy
  <2> QED BY <1>1, <1>3, <2>1, <2>2
<1>6. ticks' \in [Clk -> Nat]
  <2> SUFFICES ASSUME NEW c \in Clk
               PROVE  (IF \E i \in 1 .. Len(clks) : clks[i] = c
                       THEN ticks[c] - remaining ELSE ticks[c]) \in Nat
    BY <1>1 DEF Charge
  <2>1. CASE \E i \in 1 .. Len(clks) : clks[i] = c
    BY <1>3, <1>5, <2>1
  <2>2. CASE ~\E i \in 1 .. Len(clks) : clks[i] = c
    BY <1>3, <2>2
  <2> QED BY <2>1, <2>2
<1>7. \A c \in Live : c \in Clk /\ ticks'[c] = ticks[c] - remaining
  BY <1>1 DEF Charge, Live, InList
<1>8. TypeOK'
  <2>1. rerun' \in BOOLEAN
    BY <1>1 DEF AnyDue
  <2> QED BY <1>1, <1>2, <1>4, <1>6, <2>1 DEF TypeOK
<1>9. ListSorted'
  <2> SUFFICES ASSUME NEW i \in 1 .. Len(clks), NEW j \in 1 .. Len(clks), i < j
               PROVE  clks[i] # clks[j] /\ ticks'[clks[i]] <= ticks'[clks[j]]
    BY <1>1 DEF ListSorted
  <2>1. clks[i] \in Live /\ clks[j] \in Live
    BY <1>5 DEF Live, InList
  <2> QED BY <1>2, <1>3, <1>7, <2>1 DEF SortedBy
<1>10. TicksAreTimeToEdge'
  <2> SUFFICES ASSUME NEW d \in Live'
               PROVE  /\ now' + ticks'[d] = Ideal!DueAt(d)'
                      /\ phase'[d] <=> edges'[d] % 2 = 1
    BY DEF TicksAreTimeToEdge
  <2>1. d \in Live
    BY <1>1 DEF Live, InList
  <2> QED BY <1>1, <1>2, <1>3, <1>7, <2>1, ChargedClock
<1> QED BY <1>4, <1>8, <1>9, <1>10 DEF IInv

(* What a pass does to the time that is left of every clock: the head h     *)
(* gets the length of its next phase, the rest are charged the time        *)
(* consumed, which none of them has less of.                               *)
LEMMA PassCharges ==
  ASSUME TypeOK, SortedBy(clks, ticks), clks # <<>>, NEW left,
         left = [Charge(Tail(clks), ticks[Head(clks)]) EXCEPT
                   ![Head(clks)] = PhaseLength(period[Head(clks)],
                                               phase[Head(clks)])]
  PROVE  /\ Head(clks) \in Live /\ ~Has(Tail(clks), Head(clks))
         /\ Tail(clks) \in Seq(Clk) /\ left \in [Clk -> Nat]
         /\ left[Head(clks)] = PhaseLength(period[Head(clks)], phase[Head(clks)])
         /\ \A c : Has(clks, c) <=> c = Head(clks) \/ Has(Tail(clks), c)
         /\ \A c \in Clk : Has(Tail(clks), c)
              => /\ ticks[c] >= ticks[Head(clks)]
                 /\ left[c] = ticks[c] - ticks[Head(clks)]
         /\ SortedBy(Tail(clks), left)
<1> DEFINE h == Head(clks)
           rest == Tail(clks)
<1>1. clks \in Seq(Clk) /\ ticks \in [Clk -> Nat]
  BY DEF TypeOK
<1>2. /\ h \in Clk /\ h = clks[1] /\ Len(clks) >= 1 /\ Len(clks) \in Nat
      /\ rest \in Seq(Clk) /\ Len(rest) = Len(clks) - 1
      /\ \A i \in 1 .. Len(clks) - 1 : rest[i] = clks[i + 1]
  BY <1>1, TailLemma
<1>3. left = [Charge(rest, ticks[h]) EXCEPT ![h] = PhaseLength(period[h], phase[h])]
  OBVIOUS
<1> HIDE DEF h, rest
<1>4. ASSUME NEW i \in 1 .. Len(rest)
      PROVE  /\ rest[i] # h /\ rest[i] \in Clk
             /\ ticks[rest[i]] >= ticks[h]
  <2>1. rest[i] = clks[i + 1] /\ i + 1 \in 1 .. Len(clks) /\ 1 < i + 1
        /\ 1 \in 1 .. Len(clks)
    BY <1>2
  <2>2. clks[1] # clks[i + 1] /\ ticks[clks[1]] <= ticks[clks[i + 1]]
    BY <2>1 DEF SortedBy
  <2>3. rest[i] \in Clk
    BY <1>2
  <2> QED BY <1>1, <1>2, <2>1, <2>2, <2>3
<1>5. h \in Live
  BY <1>2 DEF Live, InList
<1>6. ~Has(rest, h)
  BY <1>4 DEF Has
<1>7. PhaseLength(period[h], phase[h]) \in Nat
  BY <1>2, PhaseLengthNat DEF TypeOK
<1>8. left[h] = PhaseLength(period[h], phase[h])
  BY <1>2, <1>3 DEF Charge
<1>9. ASSUME NEW c \in Clk, c # h
      PROVE  left[c] = IF Has(rest, c) THEN ticks[c] - ticks[h] ELSE ticks[c]
  BY <1>2, <1>3, <1>9 DEF Charge, Has
<1>10. ASSUME NEW c \in Clk, Has(rest, c)
       PROVE  ticks[c] >= ticks[h] /\ left[c] = ticks[c] - ticks[h]
  <2>1. c # h /\ ticks[c] >= ticks[h]
    BY <1>4, <1>10 DEF Has
  <2> QED BY <1>9, <1>10, <2>1
<1>11. left \in [Clk -> Nat]
  <2>1. left = [c \in Clk |-> left[c]]
    BY <1>3 DEF Charge
  <2>2. ASSUME NEW c \in Clk PROVE left[c] \in Nat
    <3>1. CASE c = h
      BY <3>1, <1>7, <1>8
    <3>2. CASE c # h /\ Has(rest, c)
      BY <3>2, <1>1, <1>2, <1>10
    <3>3. CASE c # h /\ ~Has(rest, c)
      BY <3>3, <1>1, <1>9
    <3> QED BY <3>1, <3>2, <3>3
  <2> QED BY <2>1, <2>2
<1>12. ASSUME NEW c PROVE Has(clks, c) <=> c = h \/ Has(rest, c)
  <2>1. ASSUME NEW i \in 1 .. Len(clks), clks[i] = c
        PROVE  c = h \/ Has(rest, c)
    <3>1. CASE i = 1
      BY <2>1, <3>1, <1>2
    <3>2. CASE i # 1
      <4>1. i - 1 \in 1 .. Len(rest) /\ rest[i - 1] = clks[(i - 1) + 1]
            /\ (i - 1) + 1 = i
        BY <3>2, <1>2
      <4> QED BY <2>1, <4>1 DEF Has
    <3> QED BY <3>1, <3>2
  <2>2. Has(clks, h)
    BY <1>2 DEF Has
  <2>3. ASSUME NEW i \in 1 .. Len(rest), rest[i] = c
        PROVE  Has(clks, c)
    <3>1. i + 1 \in 1 .. Len(clks) /\ clks[i + 1] = c
      BY <2>3, <1>2
    <3> QED BY <3>1 DEF Has
  <2> QED BY <2>1, <2>2, <2>3 DEF Has
<1>13. SortedBy(rest, left)
  <2> SUFFICES ASSUME NEW i \in 1 .. Len(rest), NEW j \in 1 .. Len(rest), i < j
               PROVE  rest[i] # rest[j] /\ left[rest[i]] <= left[rest[j]]
    BY DEF SortedBy
  <2>1. /\ rest[i] = clks[i + 1] /\ rest[j] = clks[j + 1] /\ i + 1 < j + 1
        /\ i + 1 \in 1 .. Len(clks) /\ j + 1 \in 1 .. Len(clks)
    BY <1>2
  <2>2. rest[i] # rest[j] /\ ticks[rest[i]] <= ticks[rest[j]]
    BY <2>1 DEF SortedBy
  <2>3. /\ rest[i] \in Clk /\ rest[j] \in Clk
        /\ Has(rest, rest[i]) /\ Has(rest, rest[j])
    BY <1>4 DEF Has
  <2>4. /\ left[rest[i]] = ticks[rest[i]] - ticks[h]
        /\ left[rest[j]] = ticks[rest[j]] - ticks[h]
    BY <1>10, <2>3
  <2>5. ticks[rest[i]] \in Nat /\ ticks[rest[j]] \in Nat /\ ticks[h] \in Nat
    BY <1>1, <1>2, <2>3
  <2>6. ticks[rest[i]] - ticks[h] <= ticks[rest[j]] - ticks[h]
    BY <2>2, <2>5
  <2> QED BY <2>2, <2>4, <2>6
<1>14. /\ \A c : Has(clks, c) <=> c = h \/ Has(rest, c)
       /\ \A c \in Clk : Has(rest, c)
            => ticks[c] >= ticks[h] /\ left[c] = ticks[c] - ticks[h]
  BY <1>10, <1>12
<1> QED BY <1>2, <1>5, <1>6, <1>8, <1>11, <1>13, <1>14 DEF h, rest

(* The pass in which the head of the list ticks.                            *)
LEMMA TickHeadInv ==
  ASSUME IInv, TickHead
  PROVE  IInv'
<1> DEFINE h == Head(clks)
           rest == Tail(clks)
           consumed == ticks[h]
           left == [Charge(rest, consumed) EXCEPT
                      ![h] = PhaseLength(period[h], phase[h])]
<1>1. /\ step = "loop" /\ remaining >= consumed
      /\ phase' = [phase EXCEPT ![h] = ~phase[h]]
      /\ edges' = [edges EXCEPT ![h] = edges[h] + 1]
      /\ TickMainIfLast(consumed)
      /\ ticks' = left /\ rerun' = AnyDue(rest, left)
      /\ remaining' = remaining - consumed /\ now' = now + consumed
      /\ UNCHANGED <<mainPeriod, period, step, born, halves>>
  BY DEF TickHead
<1>2. PICK n \in 1 .. Len(rest) + 1 :
        IsPlace(rest, n, h, left) /\ clks' = InsertAt(rest, n, h)
  BY DEF TickHead
<1>3. /\ TypeOK /\ SortedBy(clks, ticks) /\ TicksAreTimeToEdge /\ MainKeepsTime
      /\ clks # <<>>
  BY <1>1, ListFacts DEF IInv, MainKeepsTime
<1>4. /\ h \in Live /\ ~Has(rest, h) /\ rest \in Seq(Clk) /\ left \in [Clk -> Nat]
      /\ left[h] = PhaseLength(period[h], phase[h])
      /\ \A c : Has(clks, c) <=> c = h \/ Has(rest, c)
      /\ \A c \in Clk : Has(rest, c)
           => ticks[c] >= consumed /\ left[c] = ticks[c] - consumed
      /\ SortedBy(rest, left)
  BY <1>3, PassCharges
<1>5. h \in Clk /\ consumed \in Nat
  BY <1>3, <1>4 DEF TypeOK, Live
<1> HIDE DEF h, rest, consumed, left
<1>6. /\ clks' \in Seq(Clk) /\ clks' # <<>> /\ SortedBy(clks', left)
      /\ \A c : Has(clks', c) <=> Has(clks, c)
  <2>1. /\ InsertAt(rest, n, h) \in Seq(Clk) /\ InsertAt(rest, n, h) # <<>>
        /\ SortedBy(InsertAt(rest, n, h), left)
        /\ \A c : Has(InsertAt(rest, n, h), c) <=> c = h \/ Has(rest, c)
    BY <1>2, <1>4, <1>5, PlaceKeepsOrder
  <2> QED BY <2>1, <1>2, <1>4
<1>7. /\ MainKeepsTime' /\ mainPhase' \in BOOLEAN /\ mainTicked' \in BOOLEAN
      /\ mainEdges' \in Nat /\ remaining' \in Nat /\ now' \in Nat
  BY <1>1, <1>3, <1>5, <1>6, PassKeepsMain
<1>8. TypeOK'
  <2>1. rerun' \in BOOLEAN
    BY <1>1 DEF AnyDue
  <2>2. phase' \in [Clk -> BOOLEAN]
    <3>1. phase \in [Clk -> BOOLEAN]
      BY <1>3 DEF TypeOK
    <3> QED BY <1>1, <1>5, <3>1
  <2>3. edges' \in [Clk -> Nat]
    BY <1>1, <1>3, <1>5 DEF TypeOK
  <2> QED BY <1>1, <1>3, <1>4, <1>6, <1>7, <2>1, <2>2, <2>3 DEF TypeOK
<1>9. TicksAreTimeToEdge'
  <2> SUFFICES ASSUME NEW d \in Live'
               PROVE  /\ now' + ticks'[d] = Ideal!DueAt(d)'
                      /\ phase'[d] <=> edges'[d] % 2 = 1
    BY DEF TicksAreTimeToEdge
  <2>1. d \in Live /\ d \in Clk /\ (d = h \/ Has(rest, d))
    BY <1>4, <1>6, ListFacts, ListFactsNext
  <2>2. CASE d = h
    <3>1. /\ edges[h] \in Nat /\ period[h] \in Nat /\ born[h] \in Nat
          /\ now \in Nat /\ phase[h] \in BOOLEAN
      BY <1>3, <1>5 DEF TypeOK
    <3>2. now + consumed = Ideal!DueAt(h) /\ (phase[h] <=> edges[h] % 2 = 1)
      BY <1>3, <1>4 DEF TicksAreTimeToEdge, consumed
    <3>3. /\ edges'[h] = edges[h] + 1 /\ period'[h] = period[h]
          /\ born'[h] = born[h]
          /\ ticks'[h] = PhaseLength(period[h], phase[h])
      BY <1>1, <1>3, <1>4, <1>5 DEF TypeOK
    <3>4. phase'[h] <=> ~phase[h]
      <4>1. phase \in [Clk -> BOOLEAN]
        BY <1>3 DEF TypeOK
      <4> QED BY <1>1, <1>5, <4>1
    <3>5. PhaseLength(period[h], edges[h] % 2 = 1) = ticks'[h]
      BY <3>1, <3>2, <3>3 DEF PhaseLength
    <3>6. Ideal!DueAt(d)' = Ideal!DueAt(d) + ticks'[h]
      <4>1. /\ Ideal!EdgeTime(period[h], edges[h]) \in Nat
            /\ Ideal!EdgeTime(period[h], edges[h] + 1)
                 = Ideal!EdgeTime(period[h], edges[h]) + ticks'[h]
        BY <3>1, <3>5, EdgeTimeStep
      <4>2. ticks'[h] \in Nat
        BY <1>1, <1>4, <1>5
      <4> QED BY <2>2, <3>1, <3>3, <4>1, <4>2 DEF Ideal!DueAt
    <3>7. now' + ticks'[d] = Ideal!DueAt(d)'
      BY <1>1, <2>2, <3>2, <3>6
    <3>8. phase'[h] <=> edges'[h] % 2 = 1
      <4>1. ((edges[h] + 1) % 2 = 1) = ~(edges[h] % 2 = 1)
        BY <3>1, Parity
      <4> QED BY <3>2, <3>3, <3>4, <4>1
    <3> QED BY <2>2, <3>7, <3>8
  <2>3. CASE d # h
    <3>1. /\ ticks'[d] = ticks[d] - consumed /\ now' = now + consumed
          /\ period'[d] = period[d] /\ born'[d] = born[d]
          /\ edges'[d] = edges[d] /\ phase'[d] = phase[d]
      BY <1>1, <1>3, <1>4, <2>1, <2>3 DEF TypeOK
    <3> QED BY <1>3, <1>5, <2>1, <3>1, ChargedClock
  <2> QED BY <2>2, <2>3
<1>10. ListSorted'
  BY <1>1, <1>6, ListFactsNext
<1> QED BY <1>7, <1>8, <1>9, <1>10 DEF IInv

-----------------------------------------------------------------------------
LEMMA NextInv == IInv /\ [Next]_vars => IInv'
<1> SUFFICES ASSUME IInv, [Next]_vars PROVE IInv'
  OBVIOUS
<1>1. ASSUME NEW c \in Clk, NEW cfg \in Configs, ClockAdd(c, cfg) PROVE IInv'
  BY <1>1, ClockAddInv
<1>2. ASSUME NEW i \in 1 .. Len(clks), ClockRemove(i) PROVE IInv'
  BY <1>2, ClockRemoveInv
<1>3. CASE HalfTickAlone
  BY <1>3, HalfTickAloneInv
<1>4. CASE HalfTickBegin
  BY <1>4, HalfTickBeginInv
<1>5. CASE TickHead
  BY <1>5, TickHeadInv
<1>6. CASE TickMainOnly
  BY <1>6, TickMainOnlyInv
<1>7. CASE HalfTickEnd
  BY <1>7, HalfTickEndInv
<1>8. CASE UNCHANGED vars
  BY <1>8 DEF IInv, TypeOK, ListSorted, TicksAreTimeToEdge, MainKeepsTime,
              Live, InList, Ideal!DueAt, Ideal!MainDueAt,
              vars, clockVars, loopVars, history
<1> QED BY <1>1, <1>2, <1>3, <1>4, <1>5, <1>6, <1>7, <1>8 DEF Next

LEMMA Invariance == Spec => []IInv
BY InitInv, NextInv, PTL DEF Spec

(* Every variable keeps its type: in particular no clock's unsigned ticks   *)
(* ever underflow.                                                         *)
THEOREM TypeCorrect == Spec => []TypeOK
<1>1. IInv => TypeOK
  BY DEF IInv
<1> QED BY <1>1, Invariance, PTL

(* The list of clocks is always sorted by the time that remains.            *)
THEOREM ListAlwaysSorted == Spec => []ListSorted
<1>1. IInv => ListSorted
  BY DEF IInv
<1> QED BY <1>1, Invariance, PTL

(* The relative bookkeeping never drifts from the ideal square waves.       *)
THEOREM NoDrift == Spec => [](TicksAreTimeToEdge /\ MainKeepsTime)
<1>1. IInv => TicksAreTimeToEdge /\ MainKeepsTime
  BY DEF IInv
<1> QED BY <1>1, Invariance, PTL

-----------------------------------------------------------------------------
(* One edge of the main clock per half tick, when its period is longer than *)
(* the resolution of 1 ns.                                                 *)

EdgeCount ==
  /\ mainPeriod > 1
  /\ step = "idle" => mainEdges = halves
  /\ step = "loop" => mainEdges = halves + (IF mainTicked THEN 1 ELSE 0)

LEMMA EdgeCountNext ==
  ASSUME IInv, EdgeCount, [Next]_vars
  PROVE  EdgeCount'
<1>1. TypeOK /\ MainKeepsTime
  BY DEF IInv
<1>2. /\ mainEdges \in Nat /\ halves \in Nat /\ mainPeriod \in Nat
      /\ mainTicked \in BOOLEAN /\ mainPhase \in BOOLEAN /\ remaining \in Nat
      /\ step \in {"idle", "loop"}
  BY <1>1 DEF TypeOK
<1>3. ASSUME NEW c \in Clk, NEW cfg \in Configs, ClockAdd(c, cfg)
      PROVE  EdgeCount'
  BY <1>3 DEF ClockAdd, EdgeCount, loopVars
<1>4. ASSUME NEW i \in 1 .. Len(clks), ClockRemove(i)
      PROVE  EdgeCount'
  BY <1>4 DEF ClockRemove, EdgeCount, loopVars, history
<1>5. CASE HalfTickAlone
  BY <1>2, <1>5 DEF HalfTickAlone, TickMain, EdgeCount
<1>6. CASE HalfTickBegin
  BY <1>2, <1>6 DEF HalfTickBegin, EdgeCount, clockVars, history
<1>7. ASSUME NEW consumed, TickMainIfLast(consumed), step = "loop",
             UNCHANGED <<mainPeriod, step, halves>>
      PROVE  EdgeCount'
  BY <1>2, <1>7 DEF TickMainIfLast, TickMain, EdgeCount
<1>8. CASE TickHead
  BY <1>7, <1>8 DEF TickHead
<1>9. CASE TickMainOnly
  BY <1>7, <1>9 DEF TickMainOnly
<1>10. CASE HalfTickEnd
  <2>1. HalfTick(mainPeriod, mainPhase) # 0
    BY <1>2 DEF EdgeCount, HalfTick
  <2>2. remaining = 0
    BY <1>2, <1>10 DEF HalfTickEnd, LoopGuard
  <2>3. mainTicked
    BY <1>1, <1>10, <2>1, <2>2 DEF MainKeepsTime, HalfTickEnd
  <2> QED BY <1>10, <2>3 DEF HalfTickEnd, EdgeCount, clockVars
<1>11. CASE UNCHANGED vars
  BY <1>11 DEF EdgeCount, vars, clockVars, loopVars, history
<1> QED BY <1>3, <1>4, <1>5, <1>6, <1>8, <1>9, <1>10, <1>11 DEF Next

(* Every half tick that is run makes exactly one edge of the main clock,    *)
(* and so every clock_main_tick is one cycle of the cpu, for every main    *)
(* clock slower than 1 ns and any set of derived clocks.                   *)
THEOREM OneMainEdgePerHalfTick ==
  ASSUME \A cfg \in MainConfigs : Accepted(cfg) => PeriodOf(cfg) > 1
  PROVE  Spec => []MainOncePerHalfTick
<1>1. Init => EdgeCount
  BY DEF Init, EdgeCount
<1>2. IInv /\ EdgeCount /\ [Next]_vars => EdgeCount'
  BY EdgeCountNext
<1>3. EdgeCount => MainOncePerHalfTick
  BY DEF EdgeCount, MainOncePerHalfTick
<1> QED BY <1>1, <1>2, <1>3, Invariance, PTL DEF Spec

-----------------------------------------------------------------------------
(* The list of relative times implements the ideal clocks: a pass of the    *)
(* loop is one Elapse step of theirs.                                      *)

LEMMA InitIdeal == Init => Ideal!IdealInit
<1> SUFFICES ASSUME Init PROVE Ideal!IdealInit
  OBVIOUS
<1>1. TypeOK
  BY InitInv DEF IInv
<1>2. Live = {}
  BY DEF Init, Live, InList
<1> QED BY <1>1, <1>2 DEF Init, TypeOK, Ideal!IdealInit

LEMMA AddIdeal ==
  ASSUME IInv, IInv', NEW c \in Clk, NEW cfg \in Configs, ClockAdd(c, cfg)
  PROVE  Ideal!Add(c)
<1>1. TypeOK /\ TypeOK' /\ SortedBy(clks, ticks) /\ SortedBy(clks', ticks')
  BY ListFacts, ListFactsNext DEF IInv
<1>2. PICK n \in 1 .. Len(clks) + 1 : clks' = InsertAt(clks, n, c)
  BY DEF ClockAdd
<1>3. \A d : Has(clks', d) <=> d = c \/ Has(clks, d)
  BY <1>1, <1>2, InsertMembers DEF TypeOK
<1>4. c \notin Live /\ Live' = Live \cup {c}
  BY <1>3, ListFacts, ListFactsNext DEF ClockAdd
<1>5. /\ period' = [period EXCEPT ![c] = period'[c]]
      /\ period'[c] \in Nat \ {0}
  BY <1>1 DEF ClockAdd, TypeOK
<1>6. /\ born' = [born EXCEPT ![c] = now] /\ edges' = [edges EXCEPT ![c] = 0]
      /\ UNCHANGED <<now, mainPeriod, mainEdges>>
  BY DEF ClockAdd
<1> QED BY <1>4, <1>5, <1>6 DEF Ideal!Add

LEMMA RemoveIdeal ==
  ASSUME IInv, NEW n \in 1 .. Len(clks), ClockRemove(n)
  PROVE  \E c \in Clk : Ideal!Remove(c)
<1>1. clks \in Seq(Clk) /\ SortedBy(clks, ticks)
  BY ListFacts DEF IInv, TypeOK
<1>2. \A d : Has(clks', d) <=> Has(clks, d) /\ d # clks[n]
  BY <1>1, RemoveKeepsOrder DEF ClockRemove
<1>3. clks[n] \in Clk /\ Has(clks, clks[n])
  BY <1>1 DEF Has
<1>4. clks[n] \in Live /\ Live' = Live \ {clks[n]}
  BY <1>2, <1>3, ListFacts, ListFactsNext
<1>5. UNCHANGED <<now, mainPeriod, mainEdges, period, born, edges>>
  BY DEF ClockRemove, history
<1> QED BY <1>3, <1>4, <1>5 DEF Ideal!Remove

(* The main clock's share of an Elapse step.                                *)
LEMMA PassIdealMain ==
  ASSUME TypeOK, MainKeepsTime, step = "loop", NEW consumed \in Nat,
         remaining >= consumed, now' = now + consumed,
         TickMainIfLast(consumed)
  PROVE  /\ now' >= now /\ Ideal!MainDueAt >= now'
         /\ \/ mainEdges' = mainEdges
            \/ Ideal!MainDueAt = now' /\ mainEdges' = mainEdges + 1
<1>1. /\ remaining \in Nat /\ now \in Nat
      /\ HalfTick(mainPeriod, mainPhase) \in Nat
  BY PhaseLengthNat DEF TypeOK
<1>2. CASE mainTicked
  <2>1. remaining = 0 /\ now + HalfTick(mainPeriod, mainPhase) = Ideal!MainDueAt
    BY <1>2 DEF MainKeepsTime
  <2>2. mainEdges' = mainEdges
    BY <1>2 DEF TickMainIfLast
  <2> QED BY <1>1, <2>1, <2>2
<1>3. CASE ~mainTicked
  <2>1. now + remaining = Ideal!MainDueAt
    BY <1>3 DEF MainKeepsTime
  <2>2. mainEdges' = mainEdges \/ (consumed = remaining /\ mainEdges' = mainEdges + 1)
    BY DEF TickMainIfLast, TickMain
  <2> QED BY <1>1, <2>1, <2>2
<1> QED BY <1>2, <1>3

LEMMA TickHeadIdeal ==
  ASSUME IInv, IInv', TickHead
  PROVE  Ideal!Elapse
<1> DEFINE h == Head(clks)
           rest == Tail(clks)
           consumed == ticks[h]
           left == [Charge(rest, consumed) EXCEPT
                      ![h] = PhaseLength(period[h], phase[h])]
<1>1. /\ step = "loop" /\ remaining >= consumed
      /\ edges' = [edges EXCEPT ![h] = edges[h] + 1]
      /\ TickMainIfLast(consumed) /\ now' = now + consumed
      /\ UNCHANGED <<mainPeriod, period, born>>
  BY DEF TickHead
<1>2. PICK n \in 1 .. Len(rest) + 1 :
        IsPlace(rest, n, h, left) /\ clks' = InsertAt(rest, n, h)
  BY DEF TickHead
<1>3. /\ TypeOK /\ TypeOK' /\ SortedBy(clks, ticks) /\ TicksAreTimeToEdge
      /\ MainKeepsTime /\ clks # <<>>
  BY <1>1, ListFacts DEF IInv, MainKeepsTime
<1>4. /\ h \in Live /\ ~Has(rest, h) /\ rest \in Seq(Clk) /\ left \in [Clk -> Nat]
      /\ \A c : Has(clks, c) <=> c = h \/ Has(rest, c)
      /\ \A c \in Clk : Has(rest, c) => ticks[c] >= consumed
      /\ SortedBy(rest, left)
  BY <1>3, PassCharges
<1>5. h \in Clk /\ consumed \in Nat
  BY <1>3, <1>4 DEF TypeOK, Live
<1> HIDE DEF h, rest, left
<1>6. \A c : Has(clks', c) <=> Has(clks, c)
  <2>1. \A c : Has(InsertAt(rest, n, h), c) <=> c = h \/ Has(rest, c)
    BY <1>2, <1>4, <1>5, PlaceKeepsOrder
  <2> QED BY <2>1, <1>2, <1>4
<1>7. Live' = Live
  BY <1>6, ListFacts, ListFactsNext
<1> HIDE DEF consumed
<1>8. \A c \in Live : Ideal!DueAt(c) >= now'
  <2> SUFFICES ASSUME NEW c \in Live PROVE Ideal!DueAt(c) >= now'
    OBVIOUS
  <2>1. c \in Clk /\ now + ticks[c] = Ideal!DueAt(c)
    BY <1>3 DEF Live, TicksAreTimeToEdge
  <2>2. ticks[c] >= consumed
    <3>1. c = h \/ Has(rest, c)
      BY <1>4, ListFacts
    <3> QED BY <1>4, <1>5, <2>1, <3>1 DEF consumed
  <2>3. now \in Nat /\ ticks[c] \in Nat
    BY <1>3, <2>1 DEF TypeOK
  <2> QED BY <1>1, <1>5, <2>1, <2>2, <2>3
<1>9. Ideal!DueAt(h) = now'
  BY <1>1, <1>3, <1>4 DEF TicksAreTimeToEdge, consumed
<1>10. \A c \in Clk : \/ edges'[c] = edges[c]
                      \/ c \in Live /\ Ideal!DueAt(c) = now' /\ edges'[c] = edges[c] + 1
  <2> SUFFICES ASSUME NEW c \in Clk
               PROVE  \/ edges'[c] = edges[c]
                      \/ c \in Live /\ Ideal!DueAt(c) = now' /\ edges'[c] = edges[c] + 1
    OBVIOUS
  <2>1. CASE c = h
    <3>1. edges'[c] = edges[c] + 1
      BY <1>1, <1>3, <1>5, <2>1 DEF TypeOK
    <3> QED BY <1>4, <1>9, <2>1, <3>1
  <2>2. CASE c # h
    BY <1>1, <1>3, <1>5, <2>2 DEF TypeOK
  <2> QED BY <2>1, <2>2
<1>11. /\ now' >= now /\ Ideal!MainDueAt >= now'
       /\ \/ mainEdges' = mainEdges
          \/ Ideal!MainDueAt = now' /\ mainEdges' = mainEdges + 1
  BY <1>1, <1>3, <1>5, PassIdealMain
<1>12. edges' \in [Clk -> Nat]
  BY <1>3 DEF TypeOK
<1> QED BY <1>1, <1>7, <1>8, <1>10, <1>11, <1>12 DEF Ideal!Elapse

LEMMA TickMainOnlyIdeal ==
  ASSUME IInv, IInv', TickMainOnly
  PROVE  Ideal!Elapse
<1>1. /\ step = "loop" /\ remaining < ticks[Head(clks)]
      /\ TickMainIfLast(remaining) /\ now' = now + remaining
      /\ UNCHANGED <<mainPeriod, clks, period, born, edges>>
  BY DEF TickMainOnly
<1>2. /\ TypeOK /\ TypeOK' /\ SortedBy(clks, ticks) /\ TicksAreTimeToEdge
      /\ MainKeepsTime /\ clks # <<>>
  BY <1>1, ListFacts DEF IInv, MainKeepsTime
<1>3. remaining \in Nat /\ now \in Nat /\ remaining >= remaining
  BY <1>2 DEF TypeOK
<1>4. \A c \in Live : Ideal!DueAt(c) >= now'
  <2> SUFFICES ASSUME NEW c \in Live PROVE Ideal!DueAt(c) >= now'
    OBVIOUS
  <2>1. c \in Clk /\ now + ticks[c] = Ideal!DueAt(c)
    BY <1>2 DEF Live, TicksAreTimeToEdge
  <2>2. PICK i \in 1 .. Len(clks) : clks[i] = c
    BY DEF Live, InList
  <2>3. Head(clks) = clks[1] /\ clks[1] \in Clk /\ Len(clks) \in Nat
    BY <1>2, TailLemma DEF TypeOK
  <2>4. ticks[clks[1]] \in Nat /\ ticks[c] \in Nat
    BY <1>2, <2>1, <2>3 DEF TypeOK
  <2>5. ticks[clks[1]] <= ticks[c]
    BY <1>2, <2>2, <2>3, <2>4 DEF SortedBy
  <2> QED BY <1>1, <1>3, <2>1, <2>3, <2>4, <2>5
<1>5. /\ now' >= now /\ Ideal!MainDueAt >= now'
      /\ \/ mainEdges' = mainEdges
         \/ Ideal!MainDueAt = now' /\ mainEdges' = mainEdges + 1
  BY <1>1, <1>2, <1>3, PassIdealMain
<1>6. Live' = Live
  BY <1>1 DEF Live, InList
<1>7. edges' \in [Clk -> Nat] /\ \A c \in Clk : edges'[c] = edges[c]
  BY <1>1, <1>2 DEF TypeOK
<1> QED BY <1>1, <1>4, <1>5, <1>6, <1>7 DEF Ideal!Elapse

LEMMA HalfTickAloneIdeal ==
  ASSUME IInv, IInv', HalfTickAlone
  PROVE  Ideal!Elapse
<1>1. /\ step = "idle" /\ clks = <<>> /\ clks' = clks /\ mainEdges' = mainEdges + 1
      /\ now' = now + HalfTick(mainPeriod, mainPhase)
      /\ UNCHANGED <<mainPeriod, period, born, edges>>
  BY DEF HalfTickAlone, TickMain
<1>2. TypeOK /\ TypeOK' /\ MainKeepsTime
  BY DEF IInv
<1>3. HalfTick(mainPeriod, mainPhase) \in Nat /\ now \in Nat
  BY <1>2, PhaseLengthNat DEF TypeOK
<1>4. now' >= now /\ Ideal!MainDueAt = now' /\ Ideal!MainDueAt >= now'
  BY <1>1, <1>2, <1>3 DEF MainKeepsTime
<1>5. Live = {} /\ Live' = Live
  BY <1>1 DEF Live, InList
<1>6. edges' \in [Clk -> Nat] /\ \A c \in Clk : edges'[c] = edges[c]
  BY <1>1, <1>2 DEF TypeOK
<1> QED BY <1>1, <1>4, <1>5, <1>6 DEF Ideal!Elapse

LEMMA NextIdeal ==
  ASSUME IInv, IInv', [Next]_vars
  PROVE  [Ideal!IdealNext]_(Ideal!idealVars)
<1>1. ASSUME NEW c \in Clk, NEW cfg \in Configs, ClockAdd(c, cfg)
      PROVE  Ideal!IdealNext
  BY <1>1, AddIdeal DEF Ideal!IdealNext
<1>2. ASSUME NEW i \in 1 .. Len(clks), ClockRemove(i)
      PROVE  Ideal!IdealNext
  BY <1>2, RemoveIdeal DEF Ideal!IdealNext
<1>3. CASE HalfTickAlone
  BY <1>3, HalfTickAloneIdeal DEF Ideal!IdealNext
<1>4. CASE TickHead
  BY <1>4, TickHeadIdeal DEF Ideal!IdealNext
<1>5. CASE TickMainOnly
  BY <1>5, TickMainOnlyIdeal DEF Ideal!IdealNext
<1>6. ASSUME UNCHANGED <<clks, now, mainPeriod, mainEdges, period, born, edges>>
      PROVE  UNCHANGED Ideal!idealVars
  <2>1. Live' = Live
    BY <1>6 DEF Live, InList
  <2> QED BY <1>6, <2>1 DEF Ideal!idealVars
<1>7. CASE HalfTickBegin
  BY <1>6, <1>7 DEF HalfTickBegin, clockVars, history
<1>8. CASE HalfTickEnd
  BY <1>6, <1>8 DEF HalfTickEnd, clockVars
<1>9. CASE UNCHANGED vars
  BY <1>6, <1>9 DEF vars, clockVars, history
<1> QED BY <1>1, <1>2, <1>3, <1>4, <1>5, <1>7, <1>8, <1>9 DEF Next

(* The scheduler implements the ideal clocks: every edge of every clock at  *)
(* its exact time and in order of time, whatever the periods.              *)
THEOREM SchedulerIsExact == Spec => ImplementsIdealClocks
<1>1. IInv /\ IInv' /\ [Next]_vars => [Ideal!IdealNext]_(Ideal!idealVars)
  BY NextIdeal
<1> QED BY <1>1, InitIdeal, Invariance, PTL
        DEF Spec, ImplementsIdealClocks, Ideal!IdealSpec
==============================================================================
