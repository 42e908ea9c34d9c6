----------------------------- MODULE AciaUnixSock ------------------------------
(***************************************************************************)
(* The socket transport of the ACIA, io/acia/src/acia_unix_sock.c.          *)
(*                                                                         *)
(* A thread of its own accepts one client at a time and reads what it      *)
(* sends into a ring buffer; the emulator takes bytes out of it and sends  *)
(* bytes to the client.  Both use a lock, but not for all that they share: *)
(* the emulator looks at num_bytes and at the buffer without it, and the   *)
(* thread fills the buffer without it.                                     *)
(*                                                                         *)
(* A critical section is one step, as nothing in it blocks, except that of *)
(* acia_unix_cleanup, whose first half the thread can see: it reads        *)
(* shutdown without the lock.  Memory is sequentially consistent.          *)
(*                                                                         *)
(* The client, its connection and the eventfd are those of the kernel.     *)
(***************************************************************************)
EXTENDS Integers, Sequences

CONSTANTS
  Size,         \* RING_BUFFER_SIZE
  Byte,
  Zero,         \* the byte 0
  MaxInflight   \* bound of the model: bytes that wait in the socket

ASSUME SockAssumption ==
  /\ Size \in Nat \ {0}
  /\ Zero \in Byte
  /\ MaxInflight \in Nat

VARIABLES
  readIdx, writeIdx, numBytes, buffer,   \* the ring buffer
  client,       \* client_sock is not -1
  shutdown,     \* shutdown
  locked,       \* acia_unix_cleanup holds the lock
  thread,       \* how far the thread is
  avail, got,   \* process_client: avail, and the result of read
  emu, data,    \* how far the emulator is in a call, and data of acia_unix_read
  asks,         \* external: a client waits to be accepted
  open,         \* external: the socket of the client is open
  inflight,     \* external: what it sent and has not been read
  hung,         \* external: it has closed its side
  event,        \* external: the eventfd is readable
  sentTo        \* history: what the last byte was sent to

ring    == <<readIdx, writeIdx, numBytes, buffer>>
locals  == <<avail, got>>
caller  == <<emu, data, sentTo>>
kernel  == <<asks, open, inflight, hung, event>>
sockVars == <<ring, client, shutdown, locked, thread, locals, caller, kernel>>

-----------------------------------------------------------------------------
(* An index that has been moved on, as the code wraps it.                   *)
Wrap(i) == IF i >= Size THEN i - Size ELSE i

(* The n bytes of the ring from index i on.                                 *)
Slice(i, n) == [k \in 1 .. n |-> buffer[Wrap(i + k - 1)]]

-----------------------------------------------------------------------------
(* The thread.  read_thread between two clients: poll of the server socket *)
(* and of the eventfd.                                                     *)
ThreadExits ==
  /\ thread = "server"
  /\ shutdown \/ event
  /\ thread' = "exited"
  /\ UNCHANGED <<ring, client, shutdown, locked, locals, caller, kernel>>

Accept ==
  /\ thread = "server" /\ ~event /\ asks
  /\ asks' = FALSE
  /\ client' = TRUE /\ open' = TRUE /\ hung' = FALSE /\ inflight' = <<>>
  /\ thread' = "poll"
  /\ UNCHANGED <<ring, shutdown, locked, locals, caller, event>>

(* accept4 fails.                                                           *)
AcceptFails ==
  /\ thread = "server" /\ ~event /\ asks
  /\ asks' = FALSE
  /\ UNCHANGED <<ring, client, shutdown, locked, thread, locals, caller,
                 open, inflight, hung, event>>

(* process_client: poll of the client and of the eventfd.  A client that    *)
(* has closed its side is readable and hung up, which is not POLLIN alone. *)
PollClient ==
  /\ thread = "poll"
  /\ \/ event /\ thread' = "close"
     \/ ~event /\ hung /\ thread' = "close"
     \/ ~event /\ ~hung /\ inflight # <<>> /\ thread' = "space"
  /\ UNCHANGED <<ring, client, shutdown, locked, locals, caller, kernel>>

(* The wait for space, under the lock.                                      *)
FreeSpace == Size - numBytes

WaitForSpace ==
  /\ thread = "space" /\ ~locked
  /\ avail' = FreeSpace
  /\ thread' = IF avail' = 0 /\ ~shutdown THEN "waiting" ELSE "read"
  /\ UNCHANGED <<ring, client, shutdown, locked, got, caller, kernel>>

SpuriousWakeup ==
  /\ thread = "waiting"
  /\ thread' = "space"
  /\ UNCHANGED <<ring, client, shutdown, locked, locals, caller, kernel>>

ReadShutdown ==
  /\ thread = "read" /\ shutdown
  /\ thread' = "close"
  /\ UNCHANGED <<ring, client, shutdown, locked, locals, caller, kernel>>

(* read of the client, to the end of the buffer at most.                    *)
\* (a mutant: into all that is free, past the end of the buffer)
RoomToRing == avail

Room == IF writeIdx + avail >= Size THEN Size - writeIdx ELSE avail

ReadClient ==
  /\ thread = "read" /\ ~shutdown
  /\ inflight # <<>>
  /\ LET n == IF Room < Len(inflight) THEN Room ELSE Len(inflight)
     IN /\ buffer' = [i \in 0 .. Size - 1 |->
                        IF writeIdx <= i /\ i < writeIdx + n
                        THEN inflight[i - writeIdx + 1] ELSE buffer[i]]
        /\ writeIdx' = Wrap(writeIdx + n)
        /\ inflight' = SubSeq(inflight, n + 1, Len(inflight))
        /\ got' = n
  /\ thread' = "count"
  /\ UNCHANGED <<readIdx, numBytes, client, shutdown, locked, avail, caller,
                 asks, open, hung, event>>

(* read fails, which it may once the client has gone.                       *)
ReadFails ==
  /\ thread = "read" /\ ~shutdown
  /\ hung
  /\ thread' = "close"
  /\ UNCHANGED <<ring, client, shutdown, locked, locals, caller, kernel>>

CountRead ==
  /\ thread = "count" /\ ~locked
  /\ numBytes' = numBytes + got
  /\ got' = 0 /\ avail' = 0
  /\ thread' = "poll"
  /\ UNCHANGED <<readIdx, writeIdx, buffer, client, shutdown, locked, caller, kernel>>

(* The end of read_thread's loop: the socket is closed and forgotten.       *)
Close == open' = FALSE /\ client' = FALSE

CloseClient ==
  /\ thread = "close" /\ ~locked
  /\ Close
  /\ inflight' = <<>> /\ hung' = FALSE
  /\ avail' = 0
  /\ thread' = "server"
  /\ UNCHANGED <<ring, shutdown, locked, got, caller, asks, event>>

Thread ==
  \/ ThreadExits \/ Accept \/ AcceptFails
  \/ PollClient \/ WaitForSpace \/ ReadShutdown \/ ReadClient \/ ReadFails
  \/ CountRead \/ CloseClient

-----------------------------------------------------------------------------
(* The emulator.  acia_unix_read: the byte is taken without the lock (an    *)
(* empty ring is left alone), and counted with it.                         *)
TakeByte ==
  /\ emu = "idle" /\ numBytes > 0
  /\ data' = buffer[readIdx]
  /\ readIdx' = Wrap(readIdx + 1)
  /\ emu' = "taken"
  /\ UNCHANGED <<writeIdx, numBytes, buffer, client, shutdown, locked, thread,
                 locals, sentTo, kernel>>

\* (a mutant: nobody is woken up)
SignalsNobody == thread' = thread

Signals == thread' = IF thread = "waiting" THEN "space" ELSE thread

CountTaken ==
  /\ emu = "taken" /\ ~locked
  /\ numBytes' = numBytes - 1
  /\ Signals
  /\ emu' = "idle"
  /\ UNCHANGED <<readIdx, writeIdx, buffer, client, shutdown, locked, locals,
                 data, sentTo, kernel>>

(* acia_unix_write.                                                         *)
WriteByte ==
  /\ emu = "idle" /\ ~locked
  /\ sentTo' = IF ~client THEN "nobody" ELSE IF open THEN "client" ELSE "closed"
  /\ UNCHANGED <<ring, client, shutdown, locked, thread, locals, emu, data, kernel>>

(* acia_unix_cleanup, by which the transport ends.                          *)
CleanupLocks ==
  /\ emu = "idle" /\ ~locked
  /\ locked' = TRUE /\ shutdown' = TRUE
  /\ Signals
  /\ emu' = "cleanup"
  /\ UNCHANGED <<ring, client, locals, data, sentTo, kernel>>

CleanupUnlocks ==
  /\ emu = "cleanup"
  /\ event' = TRUE /\ locked' = FALSE
  /\ emu' = "join"
  /\ UNCHANGED <<ring, client, shutdown, thread, locals, data, sentTo,
                 asks, open, inflight, hung>>

CleanupJoins ==
  /\ emu = "join" /\ thread = "exited"
  /\ emu' = "destroyed"
  /\ UNCHANGED <<ring, client, shutdown, locked, thread, locals, data, sentTo, kernel>>

Call == TakeByte \/ CountTaken \/ WriteByte \/ CleanupLocks \/ CleanupUnlocks \/ CleanupJoins

-----------------------------------------------------------------------------
(* The clients.                                                             *)
Others == UNCHANGED <<ring, client, shutdown, locked, thread, locals, caller, open, event>>

ClientAsks == ~asks /\ asks' = TRUE /\ UNCHANGED <<inflight, hung>> /\ Others

ClientSends(b) ==
  /\ open /\ ~hung /\ Len(inflight) < MaxInflight
  /\ inflight' = Append(inflight, b)
  /\ UNCHANGED <<asks, hung>> /\ Others

ClientHangsUp ==
  /\ open /\ ~hung
  /\ hung' = TRUE
  /\ UNCHANGED <<asks, inflight>> /\ Others

(* acia_unix_init, all of which has succeeded.                              *)
SockInit ==
  /\ readIdx = 0 /\ writeIdx = 0 /\ numBytes = 0
  /\ buffer = [i \in 0 .. Size - 1 |-> Zero]
  /\ client = FALSE /\ shutdown = FALSE /\ locked = FALSE
  /\ thread = "server" /\ avail = 0 /\ got = 0
  /\ emu = "idle" /\ data = Zero /\ sentTo = "nobody"
  /\ asks = FALSE /\ open = FALSE /\ inflight = <<>> /\ hung = FALSE /\ event = FALSE

SockNext ==
  \/ Thread
  \/ SpuriousWakeup
  \/ Call
  \/ ClientAsks
  \/ \E b \in Byte : ClientSends(b)
  \/ ClientHangsUp

SockSpec == SockInit /\ [][SockNext]_sockVars

(* The thread is scheduled, and a cleanup that has begun goes on.  Nothing  *)
(* is assumed of the clients, nor of what the emulator calls when.         *)
FairSockSpec ==
  /\ SockSpec
  /\ WF_sockVars(Thread)
  /\ WF_sockVars(CleanupUnlocks \/ CleanupJoins)

-----------------------------------------------------------------------------
RingOK ==
  /\ readIdx \in 0 .. Size - 1 /\ writeIdx \in 0 .. Size - 1
  /\ numBytes \in 0 .. Size
  /\ buffer \in [0 .. Size - 1 -> Byte]
  /\ avail \in 0 .. Size /\ got \in 0 .. Size

SockTypeOK ==
  /\ RingOK
  /\ client \in BOOLEAN /\ shutdown \in BOOLEAN /\ locked \in BOOLEAN
  /\ thread \in {"server", "poll", "space", "waiting", "read", "count", "close", "exited"}
  /\ emu \in {"idle", "taken", "cleanup", "join", "destroyed"} /\ data \in Byte
  /\ sentTo \in {"nobody", "client", "closed"}
  /\ asks \in BOOLEAN /\ open \in BOOLEAN /\ hung \in BOOLEAN /\ event \in BOOLEAN
  /\ inflight \in Seq(Byte)

(* The ring buffer and the socket are a serial line: however the thread and *)
(* the emulator interleave, with or without the lock, no byte is lost,     *)
(* doubled, overwritten before it is read, or read before it has arrived,  *)
(* also across the end of the buffer and from one client to the next.      *)
Line == INSTANCE SerialLine WITH
  line  <- (IF thread = "count" THEN Slice(Wrap(writeIdx + Size - got), got) ELSE <<>>)
             \o inflight,
  queue <- Slice(readIdx, numBytes - (IF emu = "taken" THEN 1 ELSE 0)),
  last  <- data

ImplementsSerialLine == Line!LineSpec

(* "It's safe to use this count unlocked now, since the reader can only     *)
(* make it larger", acia_unix_sock.c:91-92.                                *)
CountIsSafe == thread = "read" => avail <= Size - numBytes

(* The thread sleeps only while the ring is full, or the emulator is about  *)
(* to tell it that a byte has been taken: no wakeup is lost.               *)
SleepsOnlyWhenFull ==
  thread = "waiting" => numBytes = Size /\ ~shutdown

(* No byte is sent to a socket that has been closed: "Do the write under    *)
(* lock, so that the socket is not closed while we use it",                *)
(* acia_unix_sock.c:353-355.                                               *)
NeverSendsToClosed == sentTo # "closed"

(* acia_unix_cleanup returns, wherever the thread is: polling, waiting for  *)
(* space, reading, or about to close.                                      *)
CleanupReturns == emu = "cleanup" ~> emu = "destroyed"
================================================================================
