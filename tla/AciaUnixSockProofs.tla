-------------------------- MODULE AciaUnixSockProofs ---------------------------
(***************************************************************************)
(* Proofs about the socket transport of the ACIA, for any size of the ring *)
(* buffer: its invariants, and, in the second half, that it is a serial    *)
(* line.                                                                   *)
(***************************************************************************)
EXTENDS AciaUnixSock, SequenceTheorems, TLAPS

(* What is in the buffer: bytes that the emulator has not taken, and bytes  *)
(* that the thread has read and not counted.                               *)
Unread    == numBytes - (IF emu = "taken" THEN 1 ELSE 0)
Uncounted == IF thread = "count" THEN got ELSE 0

(* The indices and the count agree; the byte that is taken is counted       *)
(* still, so that the thread leaves its cell alone.                        *)
Indices ==
  /\ emu = "taken" => numBytes >= 1
  /\ numBytes + Uncounted <= Size
  /\ writeIdx = Wrap(readIdx + Unread + Uncounted)

(* The count of free cells was right when it was taken, and stays safe.     *)
Counts ==
  /\ thread = "read" => avail <= Size - numBytes /\ (avail = 0 => shutdown)
  /\ thread = "count" <=> got > 0

SockInv == SockTypeOK /\ Indices /\ Counts /\ SleepsOnlyWhenFull
           /\ NeverSendsToClosed /\ (client => open)

(* What a socket holds are always bytes.                                    *)
LEMMA NoBytes == <<>> \in Seq(Byte)
  OBVIOUS

(* Some of the bytes are read, the others stay.                             *)
LEMMA RestOfBytes ==
  ASSUME NEW s \in Seq(Byte), NEW n \in 0 .. Len(s)
  PROVE  SubSeq(s, n + 1, Len(s)) \in Seq(Byte)
  OBVIOUS

(* A context that has just been made.                                       *)
LEMMA SockInvInit == SockInit => SockInv
<1> SUFFICES ASSUME SockInit PROVE SockInv
  OBVIOUS
<1>1. inflight \in Seq(Byte)
  BY NoBytes DEF SockInit
<1>2. buffer \in [0 .. Size - 1 -> Byte]
  BY SockAssumption DEF SockInit
<1>3. SockTypeOK
  <2>1. RingOK
    BY <1>2, SockAssumption DEF SockInit, RingOK
  <2>2. data \in Byte
    BY SockAssumption DEF SockInit
  <2> QED BY <1>1, <2>1, <2>2, Zenon DEF SockInit, SockTypeOK
<1>4. Indices /\ Counts
  BY SockAssumption DEF SockInit, Indices, Counts, Unread, Uncounted, Wrap
<1>5. SleepsOnlyWhenFull /\ NeverSendsToClosed /\ (client => open)
  BY DEF SockInit, SleepsOnlyWhenFull, NeverSendsToClosed
<1> QED BY <1>3, <1>4, <1>5 DEF SockInv

(* The thread ends: the ring is left as it is.                              *)
LEMMA InvThreadExits ==
  ASSUME SockInv, ThreadExits
  PROVE  SockInv'
<1>1. SockTypeOK'
  BY SockAssumption
  DEF SockInv, SockTypeOK, RingOK, ThreadExits, ring, locals, caller, kernel
<1>2. Indices'
  BY SockAssumption
  DEF SockInv, SockTypeOK, RingOK, Indices, Counts, Unread, Uncounted, Wrap,
      ThreadExits, ring, locals, caller, kernel
<1>3. Counts'
  BY SockAssumption
  DEF SockInv, SockTypeOK, RingOK, Indices, Counts, Uncounted, ThreadExits, ring, locals, caller, kernel
<1>4. SleepsOnlyWhenFull' /\ NeverSendsToClosed' /\ (client' => open')
  BY SockAssumption
  DEF SockInv, SockTypeOK, RingOK, SleepsOnlyWhenFull, NeverSendsToClosed, Counts,
      ThreadExits, ring, locals, caller, kernel
<1> QED BY <1>1, <1>2, <1>3, <1>4 DEF SockInv

(* A client is accepted: client and open become true together.              *)
LEMMA InvAccept ==
  ASSUME SockInv, Accept
  PROVE  SockInv'
<1>1. inflight' \in Seq(Byte)
  BY NoBytes DEF Accept
<1>2. SockTypeOK'
  BY <1>1, SockAssumption
  DEF SockInv, SockTypeOK, RingOK, Accept, ring, locals, caller, kernel
<1>3. Indices'
  BY SockAssumption
  DEF SockInv, SockTypeOK, RingOK, Indices, Counts, Unread, Uncounted, Wrap,
      Accept, ring, locals, caller, kernel
<1>4. Counts'
  BY SockAssumption
  DEF SockInv, SockTypeOK, RingOK, Indices, Counts, Uncounted, Accept, ring, locals, caller, kernel
<1>5. SleepsOnlyWhenFull' /\ NeverSendsToClosed' /\ (client' => open')
  BY SockAssumption
  DEF SockInv, SockTypeOK, RingOK, SleepsOnlyWhenFull, NeverSendsToClosed, Counts,
      Accept, ring, locals, caller, kernel
<1> QED BY <1>2, <1>3, <1>4, <1>5 DEF SockInv

(* No client: nothing but the request changes.                              *)
LEMMA InvAcceptFails ==
  ASSUME SockInv, AcceptFails
  PROVE  SockInv'
<1>1. SockTypeOK'
  BY SockAssumption
  DEF SockInv, SockTypeOK, RingOK, AcceptFails, ring, locals, caller, kernel
<1>2. Indices'
  BY SockAssumption
  DEF SockInv, SockTypeOK, RingOK, Indices, Counts, Unread, Uncounted, Wrap,
      AcceptFails, ring, locals, caller, kernel
<1>3. Counts'
  BY SockAssumption
  DEF SockInv, SockTypeOK, RingOK, Indices, Counts, Uncounted, AcceptFails, ring, locals, caller, kernel
<1>4. SleepsOnlyWhenFull' /\ NeverSendsToClosed' /\ (client' => open')
  BY SockAssumption
  DEF SockInv, SockTypeOK, RingOK, SleepsOnlyWhenFull, NeverSendsToClosed, Counts,
      AcceptFails, ring, locals, caller, kernel
<1> QED BY <1>1, <1>2, <1>3, <1>4 DEF SockInv

(* The poll decides only where the thread goes on.                          *)
LEMMA InvPollClient ==
  ASSUME SockInv, PollClient
  PROVE  SockInv'
<1>1. SockTypeOK'
  BY SockAssumption
  DEF SockInv, SockTypeOK, RingOK, PollClient, ring, locals, caller, kernel
<1>2. Indices'
  BY SockAssumption
  DEF SockInv, SockTypeOK, RingOK, Indices, Counts, Unread, Uncounted, Wrap,
      PollClient, ring, locals, caller, kernel
<1>3. Counts'
  BY SockAssumption
  DEF SockInv, SockTypeOK, RingOK, Indices, Counts, Uncounted, PollClient, ring, locals, caller, kernel
<1>4. SleepsOnlyWhenFull' /\ NeverSendsToClosed' /\ (client' => open')
  BY SockAssumption
  DEF SockInv, SockTypeOK, RingOK, SleepsOnlyWhenFull, NeverSendsToClosed, Counts,
      PollClient, ring, locals, caller, kernel
<1> QED BY <1>1, <1>2, <1>3, <1>4 DEF SockInv

(* The thread goes on with a count of free cells, or sleeps on a full ring. *)
LEMMA InvWaitForSpace ==
  ASSUME SockInv, WaitForSpace
  PROVE  SockInv'
<1>1. SockTypeOK'
  BY SockAssumption
  DEF SockInv, SockTypeOK, RingOK, WaitForSpace, ring, locals, caller, kernel, FreeSpace
<1>2. Indices'
  BY SockAssumption
  DEF SockInv, SockTypeOK, RingOK, Indices, Counts, Unread, Uncounted, Wrap,
      WaitForSpace, ring, locals, caller, kernel, FreeSpace
<1>3. Counts'
  BY SockAssumption
  DEF SockInv, SockTypeOK, RingOK, Indices, Counts, Uncounted, WaitForSpace, ring, locals, caller, kernel, FreeSpace
<1>4. SleepsOnlyWhenFull' /\ NeverSendsToClosed' /\ (client' => open')
  BY SockAssumption
  DEF SockInv, SockTypeOK, RingOK, SleepsOnlyWhenFull, NeverSendsToClosed, Counts,
      WaitForSpace, ring, locals, caller, kernel, FreeSpace
<1> QED BY <1>1, <1>2, <1>3, <1>4 DEF SockInv

(* Waking up for no reason: the thread counts again.                        *)
LEMMA InvSpuriousWakeup ==
  ASSUME SockInv, SpuriousWakeup
  PROVE  SockInv'
<1>1. SockTypeOK'
  BY SockAssumption
  DEF SockInv, SockTypeOK, RingOK, SpuriousWakeup, ring, locals, caller, kernel
<1>2. Indices'
  BY SockAssumption
  DEF SockInv, SockTypeOK, RingOK, Indices, Counts, Unread, Uncounted, Wrap,
      SpuriousWakeup, ring, locals, caller, kernel
<1>3. Counts'
  BY SockAssumption
  DEF SockInv, SockTypeOK, RingOK, Indices, Counts, Uncounted, SpuriousWakeup, ring, locals, caller, kernel
<1>4. SleepsOnlyWhenFull' /\ NeverSendsToClosed' /\ (client' => open')
  BY SockAssumption
  DEF SockInv, SockTypeOK, RingOK, SleepsOnlyWhenFull, NeverSendsToClosed, Counts,
      SpuriousWakeup, ring, locals, caller, kernel
<1> QED BY <1>1, <1>2, <1>3, <1>4 DEF SockInv

(* The thread has seen shutdown.                                            *)
LEMMA InvReadShutdown ==
  ASSUME SockInv, ReadShutdown
  PROVE  SockInv'
<1>1. SockTypeOK'
  BY SockAssumption
  DEF SockInv, SockTypeOK, RingOK, ReadShutdown, ring, locals, caller, kernel
<1>2. Indices'
  BY SockAssumption
  DEF SockInv, SockTypeOK, RingOK, Indices, Counts, Unread, Uncounted, Wrap,
      ReadShutdown, ring, locals, caller, kernel
<1>3. Counts'
  BY SockAssumption
  DEF SockInv, SockTypeOK, RingOK, Indices, Counts, Uncounted, ReadShutdown, ring, locals, caller, kernel
<1>4. SleepsOnlyWhenFull' /\ NeverSendsToClosed' /\ (client' => open')
  BY SockAssumption
  DEF SockInv, SockTypeOK, RingOK, SleepsOnlyWhenFull, NeverSendsToClosed, Counts,
      ReadShutdown, ring, locals, caller, kernel
<1> QED BY <1>1, <1>2, <1>3, <1>4 DEF SockInv

(* The bytes that are read are not counted yet, but writeIdx has passed them.*)
LEMMA InvReadClient ==
  ASSUME SockInv, ReadClient
  PROVE  SockInv'
<1> USE SockAssumption
<1> DEFINE n == IF Room < Len(inflight) THEN Room ELSE Len(inflight)
<1>1. /\ inflight \in Seq(Byte) /\ Len(inflight) \in Nat /\ buffer \in [0 .. Size - 1 -> Byte]
      /\ writeIdx \in 0 .. Size - 1 /\ avail \in 0 .. Size
  BY DEF SockInv, SockTypeOK, RingOK
<1>2. Room \in 0 .. avail /\ writeIdx + Room <= Size
  BY <1>1 DEF Room
<1>3. n \in 0 .. Len(inflight) /\ n \in 0 .. avail /\ writeIdx + n <= Size
  BY <1>1, <1>2
<1>4. inflight' \in Seq(Byte)
  <2>1. inflight' = SubSeq(inflight, n + 1, Len(inflight))
    BY DEF ReadClient
  <2> HIDE DEF n
  <2> QED BY <1>1, <1>3, <2>1, RestOfBytes
<1>5. buffer' \in [0 .. Size - 1 -> Byte]
  <2>1. buffer' = [i \in 0 .. Size - 1 |->
                     IF writeIdx <= i /\ i < writeIdx + n
                     THEN inflight[i - writeIdx + 1] ELSE buffer[i]]
    BY DEF ReadClient
  <2> HIDE DEF n
  <2>2. ASSUME NEW i \in 0 .. Size - 1, writeIdx <= i, i < writeIdx + n
        PROVE  inflight[i - writeIdx + 1] \in Byte
    <3>1. i - writeIdx + 1 \in 1 .. Len(inflight)
      BY <1>1, <1>3, <2>2
    <3> QED BY <1>1, <3>1
  <2> QED BY <1>1, <2>1, <2>2
<1>6. writeIdx' = Wrap(writeIdx + n) /\ got' = n
  BY DEF ReadClient
<1>7. writeIdx' \in 0 .. Size - 1 /\ got' \in 0 .. Size
  BY <1>1, <1>3, <1>6 DEF Wrap
<1>8. SockTypeOK'
  BY <1>4, <1>5, <1>7 DEF SockInv, SockTypeOK, RingOK, ReadClient, caller
<1>9. Indices'
  BY SockAssumption
  DEF SockInv, SockTypeOK, RingOK, Indices, Counts, Unread, Uncounted, Wrap,
      ReadClient, ring, locals, caller, kernel, Room
<1>10. Counts'
  BY SockAssumption
  DEF SockInv, SockTypeOK, RingOK, Indices, Counts, Uncounted, ReadClient, ring, locals, caller, kernel, Room
<1>11. SleepsOnlyWhenFull' /\ NeverSendsToClosed' /\ (client' => open')
  BY SockAssumption
  DEF SockInv, SockTypeOK, RingOK, SleepsOnlyWhenFull, NeverSendsToClosed, Counts,
      ReadClient, ring, locals, caller, kernel, Room
<1> QED BY <1>8, <1>9, <1>10, <1>11 DEF SockInv

(* A failed read leaves the ring alone.                                     *)
LEMMA InvReadFails ==
  ASSUME SockInv, ReadFails
  PROVE  SockInv'
<1>1. SockTypeOK'
  BY SockAssumption
  DEF SockInv, SockTypeOK, RingOK, ReadFails, ring, locals, caller, kernel
<1>2. Indices'
  BY SockAssumption
  DEF SockInv, SockTypeOK, RingOK, Indices, Counts, Unread, Uncounted, Wrap,
      ReadFails, ring, locals, caller, kernel
<1>3. Counts'
  BY SockAssumption
  DEF SockInv, SockTypeOK, RingOK, Indices, Counts, Uncounted, ReadFails, ring, locals, caller, kernel
<1>4. SleepsOnlyWhenFull' /\ NeverSendsToClosed' /\ (client' => open')
  BY SockAssumption
  DEF SockInv, SockTypeOK, RingOK, SleepsOnlyWhenFull, NeverSendsToClosed, Counts,
      ReadFails, ring, locals, caller, kernel
<1> QED BY <1>1, <1>2, <1>3, <1>4 DEF SockInv

(* What was uncounted is counted: the sum stays.                            *)
LEMMA InvCountRead ==
  ASSUME SockInv, CountRead
  PROVE  SockInv'
<1>1. SockTypeOK'
  BY SockAssumption
  DEF SockInv, SockTypeOK, RingOK, CountRead, ring, locals, caller, kernel
<1>2. Indices'
  BY SockAssumption
  DEF SockInv, SockTypeOK, RingOK, Indices, Counts, Unread, Uncounted, Wrap,
      CountRead, ring, locals, caller, kernel
<1>3. Counts'
  BY SockAssumption
  DEF SockInv, SockTypeOK, RingOK, Indices, Counts, Uncounted, CountRead, ring, locals, caller, kernel
<1>4. SleepsOnlyWhenFull' /\ NeverSendsToClosed' /\ (client' => open')
  BY SockAssumption
  DEF SockInv, SockTypeOK, RingOK, SleepsOnlyWhenFull, NeverSendsToClosed, Counts,
      CountRead, ring, locals, caller, kernel
<1> QED BY <1>1, <1>2, <1>3, <1>4 DEF SockInv

(* client and open become false together.                                   *)
LEMMA InvCloseClient ==
  ASSUME SockInv, CloseClient
  PROVE  SockInv'
<1>1. inflight' \in Seq(Byte)
  BY NoBytes DEF CloseClient
<1>2. SockTypeOK'
  <2>1. RingOK'
    BY SockAssumption DEF SockInv, SockTypeOK, RingOK, CloseClient, ring
  <2>2. data' = data /\ emu' = emu /\ sentTo' = sentTo
    BY DEF CloseClient, caller
  <2> QED BY <1>1, <2>1, <2>2, Zenon DEF SockInv, SockTypeOK, CloseClient, Close
<1>3. Indices'
  BY SockAssumption
  DEF SockInv, SockTypeOK, RingOK, Indices, Counts, Unread, Uncounted, Wrap,
      CloseClient, ring, locals, caller, kernel, Close
<1>4. Counts'
  BY SockAssumption
  DEF SockInv, SockTypeOK, RingOK, Indices, Counts, Uncounted, CloseClient, ring, locals, caller, kernel, Close
<1>5. SleepsOnlyWhenFull' /\ NeverSendsToClosed' /\ (client' => open')
  BY SockAssumption
  DEF SockInv, SockTypeOK, RingOK, SleepsOnlyWhenFull, NeverSendsToClosed, Counts,
      CloseClient, ring, locals, caller, kernel, Close
<1> QED BY <1>2, <1>3, <1>4, <1>5 DEF SockInv

(* readIdx moves on and the byte is not unread any more: the sum stays.     *)
LEMMA InvTakeByte ==
  ASSUME SockInv, TakeByte
  PROVE  SockInv'
<1>1. SockTypeOK'
  BY SockAssumption
  DEF SockInv, SockTypeOK, RingOK, TakeByte, ring, locals, caller, kernel
<1>2. Indices'
  BY SockAssumption
  DEF SockInv, SockTypeOK, RingOK, Indices, Counts, Unread, Uncounted, Wrap,
      TakeByte, ring, locals, caller, kernel
<1>3. Counts'
  BY SockAssumption
  DEF SockInv, SockTypeOK, RingOK, Indices, Counts, Uncounted, TakeByte, ring, locals, caller, kernel
<1>4. SleepsOnlyWhenFull' /\ NeverSendsToClosed' /\ (client' => open')
  BY SockAssumption
  DEF SockInv, SockTypeOK, RingOK, SleepsOnlyWhenFull, NeverSendsToClosed, Counts,
      TakeByte, ring, locals, caller, kernel
<1> QED BY <1>1, <1>2, <1>3, <1>4 DEF SockInv

(* The count follows, and whoever sleeps is woken up.                       *)
LEMMA InvCountTaken ==
  ASSUME SockInv, CountTaken
  PROVE  SockInv'
<1>1. SockTypeOK'
  BY SockAssumption
  DEF SockInv, SockTypeOK, RingOK, CountTaken, ring, locals, caller, kernel, Signals
<1>2. Indices'
  BY SockAssumption
  DEF SockInv, SockTypeOK, RingOK, Indices, Counts, Unread, Uncounted, Wrap,
      CountTaken, ring, locals, caller, kernel, Signals
<1>3. Counts'
  BY SockAssumption
  DEF SockInv, SockTypeOK, RingOK, Indices, Counts, Uncounted, CountTaken, ring, locals, caller, kernel, Signals
<1>4. SleepsOnlyWhenFull' /\ NeverSendsToClosed' /\ (client' => open')
  BY SockAssumption
  DEF SockInv, SockTypeOK, RingOK, SleepsOnlyWhenFull, NeverSendsToClosed, Counts,
      CountTaken, ring, locals, caller, kernel, Signals
<1> QED BY <1>1, <1>2, <1>3, <1>4 DEF SockInv

(* The socket is looked at under the lock: a known client is an open one.   *)
LEMMA InvWriteByte ==
  ASSUME SockInv, WriteByte
  PROVE  SockInv'
<1>1. SockTypeOK'
  BY SockAssumption
  DEF SockInv, SockTypeOK, RingOK, WriteByte, ring, locals, caller, kernel
<1>2. Indices'
  BY SockAssumption
  DEF SockInv, SockTypeOK, RingOK, Indices, Counts, Unread, Uncounted, Wrap,
      WriteByte, ring, locals, caller, kernel
<1>3. Counts'
  BY SockAssumption
  DEF SockInv, SockTypeOK, RingOK, Indices, Counts, Uncounted, WriteByte, ring, locals, caller, kernel
<1>4. SleepsOnlyWhenFull' /\ NeverSendsToClosed' /\ (client' => open')
  BY SockAssumption
  DEF SockInv, SockTypeOK, RingOK, SleepsOnlyWhenFull, NeverSendsToClosed, Counts,
      WriteByte, ring, locals, caller, kernel
<1> QED BY <1>1, <1>2, <1>3, <1>4 DEF SockInv

(* shutdown is set and whoever sleeps is woken up.                          *)
LEMMA InvCleanupLocks ==
  ASSUME SockInv, CleanupLocks
  PROVE  SockInv'
<1>1. SockTypeOK'
  BY SockAssumption
  DEF SockInv, SockTypeOK, RingOK, CleanupLocks, ring, locals, caller, kernel, Signals
<1>2. Indices'
  BY SockAssumption
  DEF SockInv, SockTypeOK, RingOK, Indices, Counts, Unread, Uncounted, Wrap,
      CleanupLocks, ring, locals, caller, kernel, Signals
<1>3. Counts'
  BY SockAssumption
  DEF SockInv, SockTypeOK, RingOK, Indices, Counts, Uncounted, CleanupLocks, ring, locals, caller, kernel, Signals
<1>4. SleepsOnlyWhenFull' /\ NeverSendsToClosed' /\ (client' => open')
  BY SockAssumption
  DEF SockInv, SockTypeOK, RingOK, SleepsOnlyWhenFull, NeverSendsToClosed, Counts,
      CleanupLocks, ring, locals, caller, kernel, Signals
<1> QED BY <1>1, <1>2, <1>3, <1>4 DEF SockInv

(* The event is raised; the ring is left as it is.                          *)
LEMMA InvCleanupUnlocks ==
  ASSUME SockInv, CleanupUnlocks
  PROVE  SockInv'
<1>1. SockTypeOK'
  BY SockAssumption
  DEF SockInv, SockTypeOK, RingOK, CleanupUnlocks, ring, locals, caller, kernel
<1>2. Indices'
  BY SockAssumption
  DEF SockInv, SockTypeOK, RingOK, Indices, Counts, Unread, Uncounted, Wrap,
      CleanupUnlocks, ring, locals, caller, kernel
<1>3. Counts'
  BY SockAssumption
  DEF SockInv, SockTypeOK, RingOK, Indices, Counts, Uncounted, CleanupUnlocks, ring, locals, caller, kernel
<1>4. SleepsOnlyWhenFull' /\ NeverSendsToClosed' /\ (client' => open')
  BY SockAssumption
  DEF SockInv, SockTypeOK, RingOK, SleepsOnlyWhenFull, NeverSendsToClosed, Counts,
      CleanupUnlocks, ring, locals, caller, kernel
<1> QED BY <1>1, <1>2, <1>3, <1>4 DEF SockInv

(* The ring is left as it is.                                               *)
LEMMA InvCleanupJoins ==
  ASSUME SockInv, CleanupJoins
  PROVE  SockInv'
<1>1. SockTypeOK'
  BY SockAssumption
  DEF SockInv, SockTypeOK, RingOK, CleanupJoins, ring, locals, caller, kernel
<1>2. Indices'
  BY SockAssumption
  DEF SockInv, SockTypeOK, RingOK, Indices, Counts, Unread, Uncounted, Wrap,
      CleanupJoins, ring, locals, caller, kernel
<1>3. Counts'
  BY SockAssumption
  DEF SockInv, SockTypeOK, RingOK, Indices, Counts, Uncounted, CleanupJoins, ring, locals, caller, kernel
<1>4. SleepsOnlyWhenFull' /\ NeverSendsToClosed' /\ (client' => open')
  BY SockAssumption
  DEF SockInv, SockTypeOK, RingOK, SleepsOnlyWhenFull, NeverSendsToClosed, Counts,
      CleanupJoins, ring, locals, caller, kernel
<1> QED BY <1>1, <1>2, <1>3, <1>4 DEF SockInv

(* A client may wait at any time.                                           *)
LEMMA InvClientAsks ==
  ASSUME SockInv, ClientAsks
  PROVE  SockInv'
<1>1. SockTypeOK'
  BY SockAssumption
  DEF SockInv, SockTypeOK, RingOK, ClientAsks, ring, locals, caller, kernel, Others
<1>2. Indices'
  BY SockAssumption
  DEF SockInv, SockTypeOK, RingOK, Indices, Counts, Unread, Uncounted, Wrap,
      ClientAsks, ring, locals, caller, kernel, Others
<1>3. Counts'
  BY SockAssumption
  DEF SockInv, SockTypeOK, RingOK, Indices, Counts, Uncounted, ClientAsks, ring, locals, caller, kernel, Others
<1>4. SleepsOnlyWhenFull' /\ NeverSendsToClosed' /\ (client' => open')
  BY SockAssumption
  DEF SockInv, SockTypeOK, RingOK, SleepsOnlyWhenFull, NeverSendsToClosed, Counts,
      ClientAsks, ring, locals, caller, kernel, Others
<1> QED BY <1>1, <1>2, <1>3, <1>4 DEF SockInv

(* What is sent waits in the socket.                                        *)
LEMMA InvClientSends ==
  ASSUME SockInv, NEW b \in Byte, ClientSends(b)
  PROVE  SockInv'
<1>1. SockTypeOK'
  BY SockAssumption
  DEF SockInv, SockTypeOK, RingOK, ClientSends, ring, locals, caller, kernel, Others
<1>2. Indices'
  BY SockAssumption
  DEF SockInv, SockTypeOK, RingOK, Indices, Counts, Unread, Uncounted, Wrap,
      ClientSends, ring, locals, caller, kernel, Others
<1>3. Counts'
  BY SockAssumption
  DEF SockInv, SockTypeOK, RingOK, Indices, Counts, Uncounted, ClientSends, ring, locals, caller, kernel, Others
<1>4. SleepsOnlyWhenFull' /\ NeverSendsToClosed' /\ (client' => open')
  BY SockAssumption
  DEF SockInv, SockTypeOK, RingOK, SleepsOnlyWhenFull, NeverSendsToClosed, Counts,
      ClientSends, ring, locals, caller, kernel, Others
<1> QED BY <1>1, <1>2, <1>3, <1>4 DEF SockInv

(* The connection stays open on this side.                                  *)
LEMMA InvClientHangsUp ==
  ASSUME SockInv, ClientHangsUp
  PROVE  SockInv'
<1>1. SockTypeOK'
  BY SockAssumption
  DEF SockInv, SockTypeOK, RingOK, ClientHangsUp, ring, locals, caller, kernel, Others
<1>2. Indices'
  BY SockAssumption
  DEF SockInv, SockTypeOK, RingOK, Indices, Counts, Unread, Uncounted, Wrap,
      ClientHangsUp, ring, locals, caller, kernel, Others
<1>3. Counts'
  BY SockAssumption
  DEF SockInv, SockTypeOK, RingOK, Indices, Counts, Uncounted, ClientHangsUp, ring, locals, caller, kernel, Others
<1>4. SleepsOnlyWhenFull' /\ NeverSendsToClosed' /\ (client' => open')
  BY SockAssumption
  DEF SockInv, SockTypeOK, RingOK, SleepsOnlyWhenFull, NeverSendsToClosed, Counts,
      ClientHangsUp, ring, locals, caller, kernel, Others
<1> QED BY <1>1, <1>2, <1>3, <1>4 DEF SockInv

(* No step of the thread, of the emulator or of a client breaks it.         *)
LEMMA SockInvNext == SockInv /\ [SockNext]_sockVars => SockInv'
<1> SUFFICES ASSUME SockInv, [SockNext]_sockVars PROVE SockInv'
  OBVIOUS
<1>1. CASE Thread
  BY <1>1, InvThreadExits, InvAccept, InvAcceptFails, InvPollClient, InvWaitForSpace,
     InvReadShutdown, InvReadClient, InvReadFails, InvCountRead, InvCloseClient
  DEF Thread
<1>2. CASE SpuriousWakeup
  BY <1>2, InvSpuriousWakeup
<1>3. CASE Call
  BY <1>3, InvTakeByte, InvCountTaken, InvWriteByte,
     InvCleanupLocks, InvCleanupUnlocks, InvCleanupJoins
  DEF Call
<1>4. CASE ClientAsks
  BY <1>4, InvClientAsks
<1>5. CASE \E b \in Byte : ClientSends(b)
  BY <1>5, InvClientSends
<1>6. CASE ClientHangsUp
  BY <1>6, InvClientHangsUp
<1>7. CASE UNCHANGED sockVars
  BY <1>7
  DEF SockInv, SockTypeOK, RingOK, Indices, Counts, Unread, Uncounted, Wrap,
      SleepsOnlyWhenFull, NeverSendsToClosed, sockVars, ring, locals, caller, kernel
<1> QED BY <1>1, <1>2, <1>3, <1>4, <1>5, <1>6, <1>7 DEF SockNext

(* It holds in every behaviour.                                             *)
LEMMA SockInvariant == SockSpec => []SockInv
<1>1. SockInit => SockInv
  BY SockInvInit
<1>2. SockInv /\ [SockNext]_sockVars => SockInv'
  BY SockInvNext
<1> QED BY <1>1, <1>2, PTL DEF SockSpec

-----------------------------------------------------------------------------
(* Whatever the clients do and however the thread and the emulator           *)
(* interleave, each variable keeps its type: the indices stay inside of the *)
(* buffer and no more than Size bytes are counted.                          *)
THEOREM SockTypeCorrect == SockSpec => []SockTypeOK
<1>1. SockInv => SockTypeOK
  BY DEF SockInv
<1> QED BY <1>1, SockInvariant, PTL

(* The free cells that were counted under the lock are still free when the  *)
(* thread fills them without it.                                            *)
THEOREM CountStaysSafe == SockSpec => []CountIsSafe
<1>1. SockInv => CountIsSafe
  BY DEF SockInv, Counts, CountIsSafe
<1> QED BY <1>1, SockInvariant, PTL

(* The thread never sleeps on a ring that has room, nor after shutdown.     *)
THEOREM NoLostWakeup == SockSpec => []SleepsOnlyWhenFull
<1>1. SockInv => SleepsOnlyWhenFull
  BY DEF SockInv
<1> QED BY <1>1, SockInvariant, PTL

(* No byte is sent to a socket that has been closed.                        *)
THEOREM SendsToOpenSockets == SockSpec => []NeverSendsToClosed
<1>1. SockInv => NeverSendsToClosed
  BY DEF SockInv
<1> QED BY <1>1, SockInvariant, PTL

-----------------------------------------------------------------------------

(* The serial line that a state stands for: bytes that have been read but   *)
(* not counted are on the line still, and the byte that the emulator has   *)
(* taken is not in the queue any more, though it is counted.               *)
OnTheWay == IF thread = "count" THEN Slice(Wrap(writeIdx + Size - got), got) ELSE <<>>
LineOf   == OnTheWay \o inflight
QueueOf  == Slice(readIdx, Unread)

-----------------------------------------------------------------------------
(* Cells of the ring, from any index on, are a sequence of bytes.           *)
LEMMA SliceProperties ==
  ASSUME RingOK, NEW i \in 0 .. Size - 1, NEW n \in 0 .. Size
  PROVE  /\ Slice(i, n) \in Seq(Byte)
         /\ Len(Slice(i, n)) = n
         /\ \A k \in 1 .. n : Slice(i, n)[k] = buffer[Wrap(i + k - 1)]
<1>1. ASSUME NEW k \in 1 .. n PROVE buffer[Wrap(i + k - 1)] \in Byte
  <2>1. Wrap(i + k - 1) \in 0 .. Size - 1
    BY SockAssumption DEF Wrap
  <2> QED BY <2>1 DEF RingOK
<1>2. Slice(i, n) \in [1 .. n -> Byte]
  BY <1>1 DEF Slice
<1>3. n \in Nat
  BY SockAssumption
<1>4. \A k \in 1 .. n : Slice(i, n)[k] = buffer[Wrap(i + k - 1)]
  BY DEF Slice
<1>5. DOMAIN Slice(i, n) = 1 .. n
  BY DEF Slice
<1> DEFINE s == Slice(i, n)
<1>6. s \in Seq(Byte) /\ Len(s) = n
  <2>1. s \in [1 .. n -> Byte]
    BY <1>2
  <2> HIDE DEF s
  <2> QED BY <1>3, <2>1
<1> QED BY <1>4, <1>6

(* Two neighbouring stretches of cells are one.                             *)
LEMMA SliceSplits ==
  ASSUME RingOK, NEW i \in 0 .. Size - 1, NEW m \in 0 .. Size, NEW n \in 0 .. Size,
         m + n <= Size
  PROVE  Slice(i, m + n) = Slice(i, m) \o Slice(Wrap(i + m), n)
<1> DEFINE j == Wrap(i + m)
<1>1. j \in 0 .. Size - 1 /\ m + n \in 0 .. Size
  BY SockAssumption DEF Wrap
<1>2. /\ Slice(i, m) \in Seq(Byte) /\ Len(Slice(i, m)) = m
      /\ \A k \in 1 .. m : Slice(i, m)[k] = buffer[Wrap(i + k - 1)]
  BY SliceProperties
<1>3. /\ Slice(j, n) \in Seq(Byte) /\ Len(Slice(j, n)) = n
      /\ \A k \in 1 .. n : Slice(j, n)[k] = buffer[Wrap(j + k - 1)]
  BY <1>1, SliceProperties
<1>4. /\ Slice(i, m + n) \in Seq(Byte) /\ Len(Slice(i, m + n)) = m + n
      /\ \A k \in 1 .. m + n : Slice(i, m + n)[k] = buffer[Wrap(i + k - 1)]
  BY <1>1, SliceProperties
<1>5. ASSUME NEW k \in 1 .. n PROVE Wrap(j + k - 1) = Wrap(i + (m + k) - 1)
  BY SockAssumption DEF Wrap
<1> HIDE DEF j
<1> DEFINE s == Slice(i, m)
           t == Slice(j, n)
           both == s \o t
<1>6. /\ both \in Seq(Byte) /\ Len(both) = m + n
      /\ \A k \in 1 .. m + n : both[k] = IF k <= m THEN s[k] ELSE t[k - m]
  <2>1. s \in Seq(Byte) /\ Len(s) = m /\ t \in Seq(Byte) /\ Len(t) = n
    BY <1>2, <1>3
  <2> HIDE DEF s, t
  <2> QED BY <2>1, ConcatProperties
<1>7. ASSUME NEW k \in 1 .. m + n PROVE both[k] = buffer[Wrap(i + k - 1)]
  <2>1. CASE k <= m
    <3>1. k \in 1 .. m
      BY <2>1
    <3>2. s[k] = buffer[Wrap(i + k - 1)]
      BY <1>2, <3>1
    <3> HIDE DEF s, t, both
    <3> QED BY <1>6, <2>1, <3>2
  <2>2. CASE k > m
    <3>1. k - m \in 1 .. n /\ m + (k - m) = k
      BY <2>2
    <3>2. t[k - m] = buffer[Wrap(j + (k - m) - 1)]
      BY <1>3, <3>1
    <3>3. Wrap(j + (k - m) - 1) = Wrap(i + k - 1)
      BY <1>5, <3>1
    <3> HIDE DEF s, t, both
    <3> QED BY <1>6, <2>2, <3>2, <3>3
  <2>3. k <= m \/ k > m
    BY SockAssumption
  <2> QED BY <2>1, <2>2, <2>3
<1>8. both = Slice(i, m + n)
  <2> HIDE DEF both
  <2> QED BY <1>4, <1>6, <1>7, SeqEqual
<1> QED BY <1>8 DEF j

(* A whole that is one sequence and another is what they make.              *)
LEMMA SplitAt ==
  ASSUME NEW s \in Seq(Byte), NEW t \in Seq(Byte)
  PROVE  /\ SubSeq(s \o t, 1, Len(s)) = s
         /\ SubSeq(s \o t, Len(s) + 1, Len(s \o t)) = t
<1> DEFINE w == s \o t
<1>1. /\ w \in Seq(Byte) /\ Len(w) = Len(s) + Len(t)
      /\ \A i \in 1 .. Len(s) + Len(t) : w[i] = IF i <= Len(s) THEN s[i] ELSE t[i - Len(s)]
  BY ConcatProperties
<1>2. Len(s) \in Nat /\ Len(t) \in Nat
  BY LenProperties
<1> HIDE DEF w
<1> DEFINE a == SubSeq(w, 1, Len(s))
           b == SubSeq(w, Len(s) + 1, Len(w))
<1>3. a = s
  <2>1. \A i \in 1 .. Len(s) : w[i] \in Byte
    BY <1>1, <1>2, ElementOfSeq
  <2>2. /\ a \in Seq(Byte)
        /\ Len(a) = IF 1 <= Len(s) THEN Len(s) - 1 + 1 ELSE 0
        /\ \A i \in 1 .. Len(s) - 1 + 1 : a[i] = w[1 + i - 1]
    <3>1. 1 \in Int /\ Len(s) \in Int
      BY <1>2
    <3> QED BY <2>1, <3>1, SubSeqProperties
  <2>3. Len(a) = Len(s)
    BY <1>2, <2>2
  <2>4. \A i \in 1 .. Len(a) : a[i] = s[i]
    BY <1>1, <1>2, <2>2, <2>3
  <2> HIDE DEF a
  <2> QED BY <2>2, <2>3, <2>4, SeqEqual
<1>4. b = t
  <2>1. \A i \in Len(s) + 1 .. Len(w) : w[i] \in Byte
    BY <1>1, <1>2, ElementOfSeq
  <2>2. /\ b \in Seq(Byte)
        /\ Len(b) = IF Len(s) + 1 <= Len(w) THEN Len(w) - (Len(s) + 1) + 1 ELSE 0
        /\ \A i \in 1 .. Len(w) - (Len(s) + 1) + 1 : b[i] = w[(Len(s) + 1) + i - 1]
    <3>1. Len(s) + 1 \in Int /\ Len(w) \in Int
      BY <1>1, <1>2
    <3> QED BY <2>1, <3>1, SubSeqProperties
  <2>3. Len(b) = Len(t)
    BY <1>1, <1>2, <2>2
  <2>4. \A i \in 1 .. Len(b) : b[i] = t[i]
    <3> SUFFICES ASSUME NEW i \in 1 .. Len(b) PROVE b[i] = t[i]
      OBVIOUS
    <3>1. b[i] = w[Len(s) + i] /\ Len(s) + i \in 1 .. Len(s) + Len(t) /\ ~(Len(s) + i <= Len(s))
      BY <1>1, <1>2, <2>2, <2>3
    <3>2. (Len(s) + i) - Len(s) = i
      BY <1>2
    <3> HIDE DEF b
    <3> QED BY <1>1, <3>1, <3>2
  <2> HIDE DEF b
  <2> QED BY <2>2, <2>3, <2>4, SeqEqual
<1> QED BY <1>3, <1>4 DEF w

-----------------------------------------------------------------------------
(* What is on the line and in the queue are bytes, as many as were counted. *)
LEMMA LineTypes ==
  ASSUME SockInv
  PROVE  /\ OnTheWay \in Seq(Byte) /\ inflight \in Seq(Byte) /\ LineOf \in Seq(Byte)
         /\ QueueOf \in Seq(Byte) /\ Len(QueueOf) = Unread /\ Unread \in 0 .. Size
<1>1. RingOK /\ inflight \in Seq(Byte)
  BY DEF SockInv, SockTypeOK
<1>2. Unread \in 0 .. Size /\ readIdx \in 0 .. Size - 1
  BY <1>1, SockAssumption DEF SockInv, Indices, Unread, RingOK
<1>3. QueueOf \in Seq(Byte) /\ Len(QueueOf) = Unread
  BY <1>1, <1>2, SliceProperties DEF QueueOf
<1>4. OnTheWay \in Seq(Byte)
  <2>1. CASE thread = "count"
    <3>1. Wrap(writeIdx + Size - got) \in 0 .. Size - 1 /\ got \in 0 .. Size
      BY <1>1, <2>1, SockAssumption DEF SockInv, Counts, RingOK, Wrap
    <3> QED BY <1>1, <2>1, <3>1, SliceProperties DEF OnTheWay
  <2>2. CASE thread # "count"
    BY <2>2, NoBytes DEF OnTheWay
  <2> QED BY <2>1, <2>2
<1>5. LineOf \in Seq(Byte)
  BY <1>1, <1>4, ConcatProperties DEF LineOf
<1> QED BY <1>1, <1>2, <1>3, <1>4, <1>5

(* While nothing is read but not counted, the line is what waits in the     *)
(* socket.                                                                 *)
LEMMA LineIsInflight ==
  ASSUME inflight \in Seq(Byte), thread # "count"
  PROVE  LineOf = inflight
BY ConcatEmptySeq DEF LineOf, OnTheWay

(* A step that moves no byte does not show on the line.                     *)
LEMMA StepUnseen ==
  ASSUME UNCHANGED <<readIdx, writeIdx, buffer, got, inflight>>, Unread' = Unread,
         (thread' = "count") <=> (thread = "count")
  PROVE  LineOf' = LineOf /\ QueueOf' = QueueOf
<1>1. OnTheWay' = OnTheWay
  BY DEF OnTheWay, Slice, Wrap
<1>2. QueueOf' = QueueOf
  BY DEF QueueOf, Slice, Wrap
<1> QED BY <1>1, <1>2 DEF LineOf

(* The byte that the emulator takes is the head of the queue.               *)
LEMMA TakeReceives ==
  ASSUME SockInv, TakeByte
  PROVE  LineOf' = LineOf /\ QueueOf # <<>> /\ data' = Head(QueueOf) /\ QueueOf' = Tail(QueueOf)
<1>1. RingOK
  BY DEF SockInv, SockTypeOK
<1>2. /\ QueueOf \in Seq(Byte) /\ Len(QueueOf) = Unread
      /\ \A k \in 1 .. Unread : QueueOf[k] = buffer[Wrap(readIdx + k - 1)]
  <2>1. Unread \in 0 .. Size /\ readIdx \in 0 .. Size - 1
    BY <1>1, LineTypes DEF RingOK
  <2> QED BY <1>1, <2>1, SliceProperties DEF QueueOf
<1>3. /\ Unread = numBytes /\ Unread' = numBytes - 1 /\ numBytes \in 1 .. Size
      /\ readIdx \in 0 .. Size - 1 /\ readIdx' = Wrap(readIdx + 1)
  BY <1>1, SockAssumption DEF TakeByte, Unread, RingOK
<1>4. LineOf' = LineOf
  <2>1. OnTheWay' = OnTheWay
    BY DEF OnTheWay, Slice, Wrap, TakeByte, locals
  <2> QED BY <2>1 DEF LineOf, TakeByte, kernel
<1>5. QueueOf # <<>>
  BY <1>2, <1>3, EmptySeq
<1>6. data' = Head(QueueOf)
  <2>1. Head(QueueOf) = QueueOf[1]
    BY <1>2, <1>3
  <2>2. QueueOf[1] = buffer[Wrap(readIdx)]
    BY <1>2, <1>3
  <2>3. Wrap(readIdx) = readIdx
    BY <1>3, SockAssumption DEF Wrap
  <2> QED BY <2>1, <2>2, <2>3 DEF TakeByte
<1>7. QueueOf' = Tail(QueueOf)
  <2> DEFINE i == Wrap(readIdx + 1)
             n == numBytes - 1
             rest == Slice(i, n)
             tl == Tail(QueueOf)
  <2>1. QueueOf' = rest
    BY <1>3 DEF QueueOf, Slice, Wrap, TakeByte
  <2>2. i \in 0 .. Size - 1 /\ n \in 0 .. Size
    BY <1>3, SockAssumption DEF Wrap
  <2>3. /\ rest \in Seq(Byte) /\ Len(rest) = n
        /\ \A k \in 1 .. n : rest[k] = buffer[Wrap(i + k - 1)]
    BY <1>1, <2>2, SliceProperties
  <2>4. /\ tl \in Seq(Byte) /\ Len(tl) = Len(QueueOf) - 1
        /\ \A k \in 1 .. Len(tl) : tl[k] = QueueOf[k + 1]
    BY <1>2, <1>5, HeadTailProperties
  <2>5. ASSUME NEW k \in 1 .. n PROVE rest[k] = tl[k]
    <3>1. Wrap(i + k - 1) = Wrap(readIdx + (k + 1) - 1)
      BY <1>3, SockAssumption DEF Wrap
    <3>2. QueueOf[k + 1] = buffer[Wrap(readIdx + (k + 1) - 1)]
      BY <1>2, <1>3
    <3>3. k \in 1 .. Len(tl)
      BY <1>2, <1>3, <2>4
    <3> HIDE DEF rest, tl, i
    <3> QED BY <2>3, <2>4, <3>1, <3>2, <3>3
  <2>6. Len(rest) = Len(tl) /\ Len(rest) = n
    BY <1>2, <1>3, <2>3, <2>4
  <2> HIDE DEF rest, tl, n
  <2>7. rest = tl
    BY <2>3, <2>4, <2>5, <2>6, SeqEqual
  <2> QED BY <2>1, <2>7 DEF tl
<1> QED BY <1>4, <1>5, <1>6, <1>7

(* What is read into the buffer is still on the line, and what is unread    *)
(* there is left alone.                                                    *)
LEMMA ReadUnseen ==
  ASSUME SockInv, SockInv', ReadClient
  PROVE  LineOf' = LineOf /\ QueueOf' = QueueOf
<1> DEFINE n == IF Room < Len(inflight) THEN Room ELSE Len(inflight)
<1>1. /\ RingOK /\ inflight \in Seq(Byte) /\ Len(inflight) \in Nat
      /\ writeIdx \in 0 .. Size - 1 /\ avail \in 0 .. Size
  BY DEF SockInv, SockTypeOK, RingOK
<1>2. /\ thread = "read" /\ thread' = "count" /\ emu' = emu /\ numBytes' = numBytes
      /\ readIdx' = readIdx /\ writeIdx' = Wrap(writeIdx + n) /\ got' = n
      /\ inflight' = SubSeq(inflight, n + 1, Len(inflight))
      /\ buffer' = [i \in 0 .. Size - 1 |->
                      IF writeIdx <= i /\ i < writeIdx + n
                      THEN inflight[i - writeIdx + 1] ELSE buffer[i]]
  BY DEF ReadClient, caller
<1>3. n \in 0 .. Len(inflight) /\ n \in 0 .. avail /\ writeIdx + n <= Size
  BY <1>1, SockAssumption DEF Room
<1>4. n \in 1 .. Size
  BY <1>1, <1>2, <1>3, SockAssumption DEF SockInv, Counts
<1> HIDE DEF n
<1>5. RingOK'
  BY DEF SockInv, SockTypeOK
<1>6. LineOf' = LineOf
  <2> DEFINE first == SubSeq(inflight, 1, n)
             rest == SubSeq(inflight, n + 1, Len(inflight))
             cells == OnTheWay'
  <2>1. first \o rest = inflight
    <3>1. /\ 1 \in 1 .. Len(inflight) + 1 /\ n \in 1 - 1 .. Len(inflight)
          /\ Len(inflight) \in n .. Len(inflight)
      BY <1>1, <1>3
    <3>2. first \o rest = SubSeq(inflight, 1, Len(inflight))
      BY <1>1, <3>1, ConcatAdjacentSubSeq
    <3> QED BY <1>1, <3>2, SubSeqFull
  <2>2. Wrap(writeIdx' + Size - n) = writeIdx
    BY <1>1, <1>2, <1>3, <1>4, SockAssumption DEF Wrap
  <2>3. cells = [k \in 1 .. n |-> buffer'[Wrap(writeIdx + k - 1)]]
    <3>1. cells = Slice(Wrap(writeIdx + Size - got), got)'
      BY <1>2 DEF OnTheWay
    <3>2. Slice(Wrap(writeIdx + Size - got), got)' =
            [k \in 1 .. got' |-> buffer'[Wrap(Wrap(writeIdx' + Size - got') + k - 1)]]
      BY DEF Slice, Wrap
    <3> HIDE DEF cells
    <3> QED BY <1>2, <2>2, <3>1, <3>2
  <2>4. /\ cells \in Seq(Byte) /\ Len(cells) = n
        /\ \A k \in 1 .. n : cells[k] = buffer'[Wrap(writeIdx + k - 1)]
    <3>1. ASSUME NEW k \in 1 .. n PROVE buffer'[Wrap(writeIdx + k - 1)] \in Byte
      <4>1. Wrap(writeIdx + k - 1) \in 0 .. Size - 1
        BY <1>1, <1>4, SockAssumption DEF Wrap
      <4>2. buffer' \in [0 .. Size - 1 -> Byte]
        BY <1>5 DEF RingOK
      <4> QED BY <4>1, <4>2
    <3>2. n \in Nat
      BY <1>4, SockAssumption
    <3> HIDE DEF cells
    <3>3. cells \in [1 .. n -> Byte] /\ \A k \in 1 .. n : cells[k] = buffer'[Wrap(writeIdx + k - 1)]
      BY <2>3, <3>1
    <3> QED BY <3>2, <3>3
  <2>5. /\ first \in Seq(Byte) /\ Len(first) = n
        /\ \A k \in 1 .. n : first[k] = inflight[k]
    <3>1. \A k \in 1 .. n : inflight[k] \in Byte
      BY <1>1, <1>3, ElementOfSeq
    <3>2. /\ first \in Seq(Byte)
          /\ Len(first) = IF 1 <= n THEN n - 1 + 1 ELSE 0
          /\ \A k \in 1 .. n - 1 + 1 : first[k] = inflight[1 + k - 1]
      BY <1>4, <3>1, SubSeqProperties
    <3> HIDE DEF first
    <3> QED BY <1>4, <3>2
  <2>6. ASSUME NEW k \in 1 .. n PROVE cells[k] = first[k]
    <3>1. Wrap(writeIdx + k - 1) = writeIdx + k - 1 /\ writeIdx + k - 1 \in 0 .. Size - 1
      BY <1>1, <1>3, <1>4, SockAssumption DEF Wrap
    <3>2. buffer'[writeIdx + k - 1] = inflight[k]
      <4>1. writeIdx <= writeIdx + k - 1 /\ writeIdx + k - 1 < writeIdx + n
        BY <1>1, <1>4
      <4>2. (writeIdx + k - 1) - writeIdx + 1 = k
        BY <1>1
      <4> QED BY <1>2, <3>1, <4>1, <4>2
    <3> HIDE DEF cells, first
    <3> QED BY <2>4, <2>5, <3>1, <3>2
  <2>7. cells = first
    <3> HIDE DEF cells, first
    <3> QED BY <2>4, <2>5, <2>6, SeqEqual
  <2>8. LineOf' = inflight
    BY <1>2, <2>1, <2>7 DEF LineOf
  <2> QED BY <1>1, <1>2, <2>8, LineIsInflight
<1>7. QueueOf' = QueueOf
  <2>1. Unread' = Unread /\ Unread \in 0 .. Size /\ readIdx \in 0 .. Size - 1
    BY <1>1, <1>2, LineTypes DEF Unread, RingOK
  <2>2. ASSUME NEW k \in 1 .. Unread
        PROVE  buffer'[Wrap(readIdx + k - 1)] = buffer[Wrap(readIdx + k - 1)]
    <3> DEFINE c == Wrap(readIdx + k - 1)
    <3>1. c \in 0 .. Size - 1
      BY <2>1, SockAssumption DEF Wrap
    <3>2. ~(writeIdx <= c /\ c < writeIdx + n)
      <4>1. writeIdx = Wrap(readIdx + Unread)
        <5>1. Uncounted = 0
          BY <1>2 DEF Uncounted
        <5>2. readIdx + Unread + Uncounted = readIdx + Unread
          BY <2>1, <5>1
        <5> QED BY <5>2 DEF SockInv, Indices
      <4>2. Unread + n <= Size
        BY <1>1, <1>2, <1>3, SockAssumption DEF SockInv, Counts, Unread, RingOK
      <4> QED BY <1>3, <1>4, <2>1, <4>1, <4>2, SockAssumption DEF Wrap
    <3> HIDE DEF c
    <3>3. buffer'[c] = buffer[c]
      BY <1>2, <3>1, <3>2
    <3> QED BY <3>3 DEF c
  <2>3. QueueOf' = [k \in 1 .. Unread |-> buffer'[Wrap(readIdx + k - 1)]]
    BY <1>2, <2>1 DEF QueueOf, Slice, Wrap
  <2>4. QueueOf = [k \in 1 .. Unread |-> buffer[Wrap(readIdx + k - 1)]]
    BY DEF QueueOf, Slice
  <2> QED BY <2>2, <2>3, <2>4
<1> QED BY <1>6, <1>7

(* Counting what has been read is its arrival.                              *)
LEMMA CountArrives ==
  ASSUME SockInv, SockInv', CountRead
  PROVE  /\ got \in 1 .. Size /\ got <= Len(LineOf) /\ Len(QueueOf) + got <= Size
         /\ QueueOf' = QueueOf \o SubSeq(LineOf, 1, got)
         /\ LineOf' = SubSeq(LineOf, got + 1, Len(LineOf))
<1>1. /\ RingOK /\ inflight \in Seq(Byte) /\ thread = "count" /\ thread' = "poll"
      /\ readIdx \in 0 .. Size - 1 /\ writeIdx \in 0 .. Size - 1
      /\ numBytes' = numBytes + got /\ emu' = emu
      /\ UNCHANGED <<readIdx, writeIdx, buffer, inflight>>
  BY DEF SockInv, SockTypeOK, RingOK, CountRead, caller, kernel
<1>2. got \in 1 .. Size /\ Unread \in 0 .. Size /\ Unread + got <= Size
      /\ Unread' = Unread + got
  BY <1>1, LineTypes, SockAssumption DEF SockInv, Indices, Counts, Unread, Uncounted, RingOK
<1>3. Wrap(writeIdx + Size - got) = Wrap(readIdx + Unread)
  <2>1. writeIdx = Wrap(readIdx + Unread + got)
    BY <1>1 DEF SockInv, Indices, Uncounted
  <2> QED BY <1>1, <1>2, <2>1, SockAssumption DEF Wrap
<1> DEFINE i == Wrap(readIdx + Unread)
           cells == Slice(i, got)
<1>4. OnTheWay = cells
  BY <1>1, <1>3 DEF OnTheWay
<1>5. cells \in Seq(Byte) /\ Len(cells) = got
  <2>1. i \in 0 .. Size - 1 /\ got \in 0 .. Size
    BY <1>1, <1>2, SockAssumption DEF Wrap
  <2> HIDE DEF i
  <2> QED BY <1>1, <2>1, SliceProperties
<1>6. QueueOf' = QueueOf \o cells
  <2>1. got \in 0 .. Size
    BY <1>2
  <2>2. Slice(readIdx, Unread + got) = Slice(readIdx, Unread) \o Slice(Wrap(readIdx + Unread), got)
    BY <1>1, <1>2, <2>1, SliceSplits
  <2>3. QueueOf' = Slice(readIdx, Unread + got)
    BY <1>1, <1>2 DEF QueueOf, Slice, Wrap
  <2> QED BY <2>2, <2>3 DEF QueueOf
<1> HIDE DEF cells
<1>7. LineOf = cells \o inflight
  BY <1>4 DEF LineOf
<1>8. SubSeq(LineOf, 1, got) = cells /\ SubSeq(LineOf, got + 1, Len(LineOf)) = inflight
  BY <1>1, <1>5, <1>7, SplitAt
<1>9. got <= Len(LineOf)
  <2>1. Len(LineOf) = got + Len(inflight) /\ Len(inflight) \in Nat
    BY <1>1, <1>5, <1>7, ConcatProperties, LenProperties
  <2> QED BY <1>2, <2>1
<1>10. LineOf' = inflight
  <2>1. LineOf' = <<>> \o inflight'
    BY <1>1 DEF LineOf, OnTheWay
  <2> QED BY <1>1, <2>1, ConcatEmptySeq
<1>11. Len(QueueOf) + got <= Size
  BY <1>2, LineTypes
<1> QED BY <1>2, <1>6, <1>8, <1>9, <1>10, <1>11

(* What a client sends is appended to the line.                             *)
LEMMA SendAppends ==
  ASSUME SockInv, NEW b \in Byte, ClientSends(b)
  PROVE  LineOf' = Append(LineOf, b) /\ QueueOf' = QueueOf /\ data' = data
<1>1. OnTheWay \in Seq(Byte) /\ inflight \in Seq(Byte) /\ LineOf \in Seq(Byte)
  BY LineTypes
<1>2. inflight' = Append(inflight, b)
  BY DEF ClientSends
<1>3. OnTheWay' = OnTheWay /\ QueueOf' = QueueOf /\ data' = data
  BY DEF ClientSends, Others, OnTheWay, QueueOf, Unread, Slice, Wrap, ring, locals, caller
<1>4. OnTheWay \o Append(inflight, b) = Append(LineOf, b)
  <2>1. <<b>> \in Seq(Byte)
    OBVIOUS
  <2>2. Append(inflight, b) = inflight \o <<b>> /\ Append(LineOf, b) = LineOf \o <<b>>
    BY <1>1, AppendIsConcat
  <2>3. (OnTheWay \o inflight) \o <<b>> = OnTheWay \o (inflight \o <<b>>)
    BY <1>1, <2>1, ConcatAssociative
  <2> QED BY <2>2, <2>3 DEF LineOf
<1> QED BY <1>2, <1>3, <1>4 DEF LineOf

(* A connection that begins or ends has nothing on the line.                *)
LEMMA ConnectionEmpties ==
  ASSUME SockInv, Accept \/ CloseClient
  PROVE  LineOf' = <<>> /\ QueueOf' = QueueOf /\ data' = data
<1>1. thread' # "count" /\ inflight' = <<>>
  BY DEF Accept, CloseClient
<1>2. LineOf' = <<>>
  <2>1. LineOf' = <<>> \o <<>>
    BY <1>1 DEF LineOf, OnTheWay
  <2> QED BY <2>1, NoBytes, ConcatEmptySeq
<1>3. QueueOf' = QueueOf /\ data' = data
  BY DEF Accept, CloseClient, QueueOf, Unread, Slice, Wrap, ring, caller
<1> QED BY <1>2, <1>3

-----------------------------------------------------------------------------
(* The steps of the line, said of what the state stands for.                *)
LEMMA LineSteps ==
  /\ LineOf' = LineOf /\ QueueOf' = QueueOf /\ data' = data => UNCHANGED Line!lineVars
  /\ LineOf' = LineOf /\ QueueOf # <<>> /\ data' = Head(QueueOf) /\ QueueOf' = Tail(QueueOf)
       => Line!Receive
  /\ \A b : LineOf' = Append(LineOf, b) /\ QueueOf' = QueueOf /\ data' = data => Line!Send(b)
  /\ LineOf' = <<>> /\ QueueOf' = QueueOf /\ data' = data => Line!HangUp
<1>1. LineOf' = LineOf /\ QueueOf' = QueueOf /\ data' = data => UNCHANGED Line!lineVars
  BY DEF Line!lineVars, LineOf, OnTheWay, QueueOf, Unread
<1>2. LineOf' = LineOf /\ QueueOf # <<>> /\ data' = Head(QueueOf) /\ QueueOf' = Tail(QueueOf)
       => Line!Receive
  BY DEF Line!Receive, LineOf, OnTheWay, QueueOf, Unread
<1>3. \A b : LineOf' = Append(LineOf, b) /\ QueueOf' = QueueOf /\ data' = data => Line!Send(b)
  BY DEF Line!Send, LineOf, OnTheWay, QueueOf, Unread
<1>4. LineOf' = <<>> /\ QueueOf' = QueueOf /\ data' = data => Line!HangUp
  BY DEF Line!HangUp, LineOf, OnTheWay, QueueOf, Unread
<1> QED BY <1>1, <1>2, <1>3, <1>4

(* The steps that move no byte.                                             *)
LEMMA Unseen ==
  ASSUME SockInv,
         \/ ThreadExits \/ AcceptFails \/ PollClient \/ WaitForSpace \/ SpuriousWakeup
         \/ ReadShutdown \/ ReadFails \/ CountTaken \/ WriteByte \/ CleanupLocks
         \/ CleanupUnlocks \/ CleanupJoins \/ ClientAsks \/ ClientHangsUp
         \/ UNCHANGED sockVars
  PROVE  LineOf' = LineOf /\ QueueOf' = QueueOf /\ data' = data
<1> USE DEF ring, locals, caller, kernel
<1>1. UNCHANGED <<readIdx, writeIdx, buffer, got, inflight, data>>
  BY DEF ThreadExits, AcceptFails, PollClient, WaitForSpace, SpuriousWakeup, ReadShutdown,
         ReadFails, CountTaken, WriteByte, CleanupLocks, CleanupUnlocks, CleanupJoins,
         ClientAsks, ClientHangsUp, Others, sockVars
<1>2. (thread' = "count") <=> (thread = "count")
  BY DEF ThreadExits, AcceptFails, PollClient, WaitForSpace, SpuriousWakeup, ReadShutdown,
         ReadFails, CountTaken, WriteByte, CleanupLocks, CleanupUnlocks, CleanupJoins,
         ClientAsks, ClientHangsUp, Others, sockVars, Signals
<1>3. Unread' = Unread
  <2>1. numBytes \in Nat
    BY SockAssumption DEF SockInv, SockTypeOK, RingOK
  <2> QED
    BY <2>1
    DEF Unread, ThreadExits, AcceptFails, PollClient, WaitForSpace, SpuriousWakeup,
        ReadShutdown, ReadFails, CountTaken, WriteByte, CleanupLocks, CleanupUnlocks,
        CleanupJoins, ClientAsks, ClientHangsUp, Others, sockVars
<1> QED BY <1>1, <1>2, <1>3, StepUnseen

(* Every step is one of the line, or does not show.                         *)
LEMMA LineStep == SockInv /\ SockInv' /\ [SockNext]_sockVars => [Line!LineNext]_(Line!lineVars)
<1> SUFFICES ASSUME SockInv, SockInv', [SockNext]_sockVars
             PROVE  [Line!LineNext]_(Line!lineVars)
  OBVIOUS
<1>1. CASE Accept \/ CloseClient
  <2>1. Line!HangUp
    BY <1>1, ConnectionEmpties, LineSteps
  <2> QED BY <2>1 DEF Line!LineNext
<1>2. CASE ReadClient
  <2>1. data' = data
    BY <1>2 DEF ReadClient, caller
  <2> QED BY <1>2, <2>1, ReadUnseen, LineSteps
<1>3. CASE CountRead
  <2>1. data' = data
    BY <1>3 DEF CountRead, caller
  <2>2. Line!Arrive(got)
    BY <1>3, <2>1, CountArrives DEF Line!Arrive, LineOf, OnTheWay, QueueOf, Unread
  <2>3. got \in 1 .. Size
    BY <1>3, CountArrives
  <2> QED BY <2>2, <2>3 DEF Line!LineNext
<1>4. CASE TakeByte
  <2>1. Line!Receive
    BY <1>4, TakeReceives, LineSteps
  <2> QED BY <2>1 DEF Line!LineNext
<1>5. CASE \E b \in Byte : ClientSends(b)
  <2>1. PICK b \in Byte : ClientSends(b)
    BY <1>5
  <2>2. Line!Send(b)
    BY <2>1, SendAppends, LineSteps
  <2> QED BY <2>2 DEF Line!LineNext
<1>6. CASE \/ ThreadExits \/ AcceptFails \/ PollClient \/ WaitForSpace \/ SpuriousWakeup
           \/ ReadShutdown \/ ReadFails \/ CountTaken \/ WriteByte \/ CleanupLocks
           \/ CleanupUnlocks \/ CleanupJoins \/ ClientAsks \/ ClientHangsUp
           \/ UNCHANGED sockVars
  BY <1>6, Unseen, LineSteps
<1> QED BY <1>1, <1>2, <1>3, <1>4, <1>5, <1>6 DEF SockNext, Thread, Call

(* A line of which nothing has been sent.                                   *)
LEMMA LineInitially == SockInit => Line!LineInit
<1> SUFFICES ASSUME SockInit PROVE Line!LineInit
  OBVIOUS
<1>1. LineOf = <<>>
  <2>1. LineOf = <<>> \o <<>>
    BY DEF SockInit, LineOf, OnTheWay
  <2> QED BY <2>1, NoBytes, ConcatEmptySeq
<1>2. QueueOf = <<>>
  <2>1. Unread = 0 /\ readIdx = 0 /\ RingOK
    BY SockInvInit DEF SockInit, Unread, SockInv, SockTypeOK
  <2>2. QueueOf \in Seq(Byte) /\ Len(QueueOf) = 0
    BY <2>1, SockAssumption, SliceProperties DEF QueueOf
  <2> QED BY <2>2, EmptySeq
<1>3. data \in Byte
  BY SockAssumption DEF SockInit
<1> QED BY <1>1, <1>2, <1>3 DEF Line!LineInit, LineOf, OnTheWay, QueueOf, Unread

(* The ring buffer, filled and emptied without the lock, and the socket      *)
(* behind it are a serial line, for any size of the ring.                   *)
THEOREM SocketIsASerialLine == SockSpec => ImplementsSerialLine
<1>1. SockInit => Line!LineInit
  BY LineInitially
<1>2. SockInv /\ SockInv' /\ [SockNext]_sockVars => [Line!LineNext]_(Line!lineVars)
  BY LineStep
<1> QED BY <1>1, <1>2, SockInvariant, PTL DEF SockSpec, ImplementsSerialLine, Line!LineSpec
================================================================================
