----------------------------- MODULE DeviceProofs ------------------------------
(***************************************************************************)
(* Proofs about devices.                                                   *)
(*                                                                         *)
(* Of the AT28C256 (At28c256), for any sizes of the load and of the write  *)
(* cycle, ticks and accesses: the times of a write, the software data      *)
(* protection, and the poll of bit 7.  Of the VIA and its programs (Via,   *)
(* ViaPrograms), in the second half of the module, for a timer of any      *)
(* width and any pins: the ends of pulses, what listeners know, the times  *)
(* of timer 1, and the handshake.  And of the SD card behind it (SdCard),  *)
(* for any bytes that it is sent: that it keeps to its buffers.            *)
(***************************************************************************)
EXTENDS At28c256, ViaPrograms, SequenceTheorems, TLAPS

(* What the device keeps, typed as narrowly as the steps need it.           *)
DeviceTyped ==
  /\ At28c256TypeOK
  /\ last_write \in Octet
  /\ pending \in [DOMAIN pending -> Octet]
  /\ target = <<target[1], target[2]>> /\ target[1] \in Nat /\ target[2] \in Octet

-----------------------------------------------------------------------------
(* The constants, the addresses in the device, and what a program writes.   *)
LEMMA Constants ==
  /\ T_BLC \in Nat /\ T_BLC > 0 /\ T_WC \in Nat /\ T_WC > 0
  /\ \A nanos \in Nanos : nanos \in Nat /\ nanos > 0
  <1>1. T_BLC \in Nat /\ T_BLC # 0 /\ T_WC \in Nat /\ T_WC # 0
    BY At28c256Assumption
  <1>2. \A nanos \in Nanos : nanos \in Nat /\ nanos # 0
    BY At28c256Assumption
  <1>q. QED BY <1>1, <1>2

LEMMA AddrIsLocal == \A a \in Addr : a \in Nat /\ a < 32768
  <1>1. Addr \subseteq 0 .. IMAGE_SIZE - 1
    BY DEF Addr
  <1>2. \A a \in 0 .. IMAGE_SIZE - 1 : a \in Nat /\ a < 32768
    BY DEF IMAGE_SIZE
  <1>q. QED BY <1>1, <1>2

LEMMA PageAndByte ==
  \A a \in Nat : Page(a) \in Nat /\ ByteOf(a) \in 0 .. 63
  BY DEF Page, ByteOf, PAGE_SIZE

LEMMA WritesAreBytes ==
  \A w \in Writes : w = <<w[1], w[2]>> /\ w[1] \in Addr /\ w[1] \in Nat /\ w[2] \in Octet
  <1>1. \A w \in KeyWrites : w = <<w[1], w[2]>> /\ w[2] \in Octet
    <2>1. \A s \in SdpState \ {"SDP1"} :
             Awaited[s] = <<Awaited[s][1], Awaited[s][2]>> /\ Awaited[s][2] \in Octet
      BY DEF Awaited, SdpState, Octet
    <2>2. DOMAIN Awaited = SdpState \ {"SDP1"}
      BY DEF Awaited
    <2>3. \A w \in {Awaited[s] : s \in DOMAIN Awaited} : w = <<w[1], w[2]>> /\ w[2] \in Octet
      BY <2>1, <2>2
    <2>4. \A w \in {<<21845, ENABLE>>, <<21845, DISABLE>>} : w = <<w[1], w[2]>> /\ w[2] \in Octet
      BY DEF Octet, ENABLE, DISABLE
    <2>q. QED BY <2>3, <2>4 DEF KeyWrites
  <1>2. \A w \in Addr \X DataByte : w = <<w[1], w[2]>> /\ w[2] \in Octet
    <2>1. DataByte \subseteq Octet
      BY At28c256Assumption
    <2>q. QED BY <2>1
  <1>3. \A w \in Writes : w[1] \in Addr /\ w \in KeyWrites \cup (Addr \X DataByte)
    BY DEF Writes
  <1>q. QED BY <1>1, <1>2, <1>3, AddrIsLocal

(* The bits that a read turns over: bit 6 alone is not seen in bit 7, and   *)
(* the complement of bit 7 is.                                              *)
LEMMA FlipIsOctet == \A v \in Octet : Flip(v, STROBE_BIT) \in Octet /\ Flip(v, POLL_BIT) \in Octet
  BY DEF Flip, Bit, Octet, STROBE_BIT, POLL_BIT

LEMMA StrobeKeepsPoll ==
  \A v \in Octet : Bit(Flip(v, STROBE_BIT), POLL_BIT) = Bit(v, POLL_BIT)
  BY DEF Flip, Bit, Octet, STROBE_BIT, POLL_BIT

LEMMA PollIsComplement ==
  \A v \in Octet : Bit(Flip(v, POLL_BIT), POLL_BIT) # Bit(v, POLL_BIT)
  BY DEF Flip, Bit, Octet, STROBE_BIT, POLL_BIT

-----------------------------------------------------------------------------
(* What a step of the program, of the debugger or of the clock does to the  *)
(* device.                                                                 *)
DeviceStep ==
  \/ \E size \in LoadSizes, offset \in Addr \cup {0} : LoadImage(size, offset)
  \/ UNCHANGED <<device, observed>>
  \/ \E w \in Writes : Write(w[1], w[2])
  \/ \E a \in Nat : Read(a)
  \/ \E nanos \in Nanos : Tick(nanos)
  \/ \E on \in BOOLEAN : SetSdpEnable(on)

LEMMA StepsOfDevice == ASSUME DeviceTyped, [At28c256Next]_eepromVars PROVE DeviceStep
  <1>1. CASE \E size \in LoadSizes, offset \in Addr \cup {0} : LoadImage(size, offset)
    BY <1>1 DEF DeviceStep
  <1>2. CASE Start \/ Resume \/ UNCHANGED eepromVars
    BY <1>2 DEF DeviceStep, Start, Resume, eepromVars
  <1>3. CASE FreeWrite \/ WriteToPoll
    BY <1>3 DEF DeviceStep, FreeWrite, WriteToPoll
  <1>4. CASE FreeRead \/ Peek
    <2>1. PICK a \in Addr : Read(a)
      BY <1>4 DEF FreeRead, Peek
    <2>2. a \in Nat
      BY AddrIsLocal
    <2>q. QED BY <2>1, <2>2 DEF DeviceStep
  <1>5. CASE Poll \/ Strobe
    BY <1>5 DEF DeviceStep, Poll, Strobe, DeviceTyped
  <1>6. CASE TimePasses
    BY <1>6 DEF DeviceStep, TimePasses
  <1>7. CASE \E on \in BOOLEAN : SetSdpEnable(on)
    BY <1>7 DEF DeviceStep
  <1>q. QED BY <1>1, <1>2, <1>3, <1>4, <1>5, <1>6, <1>7 DEF At28c256Next

-----------------------------------------------------------------------------
(* The type invariant.                                                     *)
LEMMA PageWriteTyped ==
  ASSUME NEW a \in Nat, NEW v \in Octet, NEW taken, NEW sdp,
         DOMAIN taken \subseteq 0 .. 63, taken \in [DOMAIN taken -> Octet],
         PageWrite(a, v, taken, sdp)
  PROVE  DOMAIN pending' \subseteq 0 .. 63 /\ pending' \in [DOMAIN pending' -> Octet]
  <1>1. ByteOf(a) \in 0 .. 63
    BY PageAndByte
  <1>2. /\ DOMAIN With(taken, ByteOf(a), v) = {ByteOf(a)} \cup DOMAIN taken
        /\ With(taken, ByteOf(a), v) \in [{ByteOf(a)} \cup DOMAIN taken -> Octet]
    BY DEF With
  <1>q. QED BY <1>1, <1>2 DEF PageWrite

LEMMA NothingTyped == DOMAIN NothingTaken = {} /\ NothingTaken \in [DOMAIN NothingTaken -> Octet]
  BY DEF NothingTaken

LEMMA EepromInitTyped == At28c256Init => DeviceTyped
  <1> SUFFICES ASSUME At28c256Init PROVE DeviceTyped
    OBVIOUS
  <1>1. DOMAIN pending \subseteq 0 .. PAGE_SIZE - 1 /\ pending \in [DOMAIN pending -> Octet]
    BY NothingTyped DEF At28c256Init
  <1>2. image \in [Addr -> Int]
    BY DEF At28c256Init
  <1>3. target = <<target[1], target[2]>> /\ target[1] \in Nat /\ target[2] \in Octet
    BY DEF At28c256Init, Octet
  <1>q. QED BY <1>1, <1>2, <1>3 DEF At28c256Init, DeviceTyped, At28c256TypeOK, SdpState, Octet

LEMMA WriteTyped ==
  ASSUME DeviceTyped, NEW w \in Writes, Write(w[1], w[2])
  PROVE  /\ write_state' \in {"IDLE", "SDP", "SDP_WRITE_EN", "BYTE_LOAD", "WRITE_CYCLE"}
         /\ sdp_state' \in SdpState
         /\ enabled' \in BOOLEAN /\ writes_enabled' \in BOOLEAN /\ locked' \in BOOLEAN
         /\ image' = image
         /\ page_addr' \in Nat /\ DOMAIN pending' \subseteq 0 .. 63
         /\ last_write' \in Octet /\ last_write_addr' \in Nat
         /\ elapsed' \in Nat /\ age' \in Nat
         /\ pending' \in [DOMAIN pending' -> Octet]
  <1> DEFINE a == w[1]
             v == w[2]
  <1>0. a \in Nat /\ v \in Octet /\ Page(a) \in Nat
    BY WritesAreBytes, PageAndByte
  <1> HIDE DEF a, v
  <1>1. /\ write_state \in {"IDLE", "SDP", "SDP_WRITE_EN", "BYTE_LOAD", "WRITE_CYCLE"}
        /\ sdp_state \in SdpState /\ enabled \in BOOLEAN /\ writes_enabled \in BOOLEAN
        /\ locked \in BOOLEAN
        /\ page_addr \in Nat /\ last_write \in Octet /\ last_write_addr \in Nat
        /\ elapsed \in Nat /\ age \in Nat
        /\ DOMAIN pending \subseteq 0 .. 63 /\ pending \in [DOMAIN pending -> Octet]
    BY DEF DeviceTyped, At28c256TypeOK, PAGE_SIZE
  <1>2. locked' \in BOOLEAN /\ age' \in Nat
    BY <1>1 DEF Write, ObserveWrite
  <1>3. CASE WriteIdle(a, v)
    <2>1. DOMAIN pending' \subseteq 0 .. 63 /\ pending' \in [DOMAIN pending' -> Octet]
      BY <1>0, <1>3, PageWriteTyped, NothingTyped DEF WriteIdle
    <2>q. QED BY <1>0, <1>1, <1>2, <1>3, <2>1 DEF WriteIdle, Remember, PageWrite, SdpState
  <1>4. CASE WriteSdpValid(a, v)
    <2>1. DOMAIN pending' \subseteq 0 .. 63 /\ pending' \in [DOMAIN pending' -> Octet]
      BY <1>1, <1>4, NothingTyped DEF WriteSdpValid, SequenceEnds
    <2>2. sdp_state' \in SdpState
      BY <1>1, <1>4 DEF WriteSdpValid, SequenceEnds, SdpState, Successor
    <2>3. enabled' \in BOOLEAN /\ writes_enabled' \in BOOLEAN
      BY <1>1, <1>4 DEF WriteSdpValid, SequenceEnds
    <2>q. QED BY <1>0, <1>1, <1>2, <1>4, <2>1, <2>2, <2>3 DEF WriteSdpValid, SequenceEnds, Remember
  <1>5. CASE WriteSdpInvalid(a, v)
    BY <1>1, <1>2, <1>5 DEF WriteSdpInvalid, SdpState
  <1>6. CASE WriteSdpEnabled(a, v)
    <2>1. DOMAIN pending' \subseteq 0 .. 63 /\ pending' \in [DOMAIN pending' -> Octet]
      BY <1>0, <1>6, PageWriteTyped, NothingTyped DEF WriteSdpEnabled
    <2>q. QED BY <1>0, <1>1, <1>2, <1>6, <2>1 DEF WriteSdpEnabled, Remember, PageWrite
  <1>7. CASE WriteLoad(a, v)
    <2>1. DOMAIN pending' \subseteq 0 .. 63 /\ pending' \in [DOMAIN pending' -> Octet]
      BY <1>0, <1>1, <1>7, PageWriteTyped DEF WriteLoad
    <2>q. QED BY <1>0, <1>1, <1>2, <1>7, <2>1 DEF WriteLoad, Remember, PageWrite
  <1>8. CASE WriteBusy(a, v)
    BY <1>0, <1>1, <1>2, <1>8 DEF WriteBusy, Remember
  <1>q. QED BY <1>3, <1>4, <1>5, <1>6, <1>7, <1>8 DEF Write, a, v

LEMMA InWriteCycleTyped ==
  ASSUME DeviceTyped, NEW spent \in Nat, InWriteCycle(spent)
  PROVE  /\ write_state' \in {"IDLE", "WRITE_CYCLE"}
         /\ writes_enabled' \in BOOLEAN /\ elapsed' \in Nat
         /\ image' \in [Addr -> Int]
  <1>1. image \in [Addr -> Int] /\ writes_enabled \in BOOLEAN
    BY DEF DeviceTyped, At28c256TypeOK
  <1>2. CASE spent < T_WC
    BY <1>1, <1>2 DEF InWriteCycle
  <1>3. CASE ~(spent < T_WC)
    <2>1. Idle
      BY <1>3 DEF InWriteCycle
    <2>2. pending \in [DOMAIN pending -> Octet] /\ \A v \in Octet : v \in Int
      BY DEF DeviceTyped, Octet
    <2>3. image' \in [Addr -> Int]
      BY <1>1, <2>1, <2>2 DEF Idle
    <2>q. QED BY <2>1, <2>3 DEF Idle
  <1>q. QED BY <1>2, <1>3

LEMMA TickTyped ==
  ASSUME DeviceTyped, NEW nanos \in Nanos, Tick(nanos)
  PROVE  DeviceTyped'
  <1>1. /\ nanos \in Nat /\ T_BLC \in Nat /\ T_WC \in Nat
        /\ elapsed \in Nat /\ age \in Nat /\ sdp_state \in SdpState
        /\ image \in [Addr -> Int] /\ writes_enabled \in BOOLEAN /\ locked \in BOOLEAN
    BY Constants DEF DeviceTyped, At28c256TypeOK
  <1>2. UNCHANGED <<enabled, page_addr, pending, last_write, last_write_addr, prog, target>>
    BY DEF Tick
  <1>3. CASE UNCHANGED <<device, observed>>
    BY <1>2, <1>3 DEF DeviceTyped, At28c256TypeOK, device, observed
  <1>4. CASE Loading(elapsed + nanos) /\ Ages(nanos) /\ write_state \in {"SDP", "SDP_WRITE_EN", "BYTE_LOAD"}
    <2>1. age' \in Nat /\ locked' \in BOOLEAN
      BY <1>1, <1>4 DEF Ages
    <2>2. sdp_state' \in SdpState
      BY <1>1, <1>4 DEF Loading, SdpState
    <2>3. CASE elapsed + nanos < T_BLC
      BY <1>1, <1>2, <1>4, <2>1, <2>2, <2>3 DEF Loading, DeviceTyped, At28c256TypeOK
    <2>4. CASE ~(elapsed + nanos < T_BLC)
      <3>1. elapsed + nanos - T_BLC \in Nat /\ InWriteCycle(elapsed + nanos - T_BLC)
        BY <1>1, <1>4, <2>4 DEF Loading
      <3>2. /\ write_state' \in {"IDLE", "WRITE_CYCLE"}
            /\ writes_enabled' \in BOOLEAN /\ elapsed' \in Nat
            /\ image' \in [Addr -> Int]
        BY <3>1, InWriteCycleTyped
      <3>q. QED BY <1>2, <2>1, <2>2, <3>2 DEF DeviceTyped, At28c256TypeOK
    <2>q. QED BY <2>3, <2>4
  <1>5. CASE InWriteCycle(elapsed + nanos) /\ Ages(nanos) /\ UNCHANGED sdp_state
    <2>1. age' \in Nat /\ locked' \in BOOLEAN
      BY <1>1, <1>5 DEF Ages
    <2>2. /\ write_state' \in {"IDLE", "WRITE_CYCLE"}
          /\ writes_enabled' \in BOOLEAN /\ elapsed' \in Nat
          /\ image' \in [Addr -> Int]
      <3>1. elapsed + nanos \in Nat
        BY <1>1
      <3>q. QED BY <1>5, <3>1, InWriteCycleTyped
    <2>q. QED BY <1>1, <1>2, <1>5, <2>1, <2>2 DEF DeviceTyped, At28c256TypeOK
  <1>q. QED BY <1>3, <1>4, <1>5 DEF Tick

LEMMA ReadTyped ==
  ASSUME DeviceTyped, NEW a \in Nat, Read(a) PROVE last_write' \in Octet
  BY FlipIsOctet DEF DeviceTyped, Read

LEMMA LoadTyped ==
  ASSUME DeviceTyped, NEW size, NEW offset, LoadImage(size, offset)
  PROVE  image' \in [Addr -> Int]
  <1>1. image \in [Addr -> Int] /\ IMAGE_FILL \in Int
    BY DEF DeviceTyped, At28c256TypeOK, IMAGE_FILL
  <1>q. QED BY <1>1 DEF LoadImage

(* The part of the state that is not the device's own.                      *)
LEMMA ProgramTyped ==
  ASSUME DeviceTyped, [At28c256Next]_eepromVars
  PROVE  /\ prog' \in {"setup", "runs", "polls", "strobes", "saw0", "saw1", "polled", "strobed"}
         /\ target' = <<target'[1], target'[2]>> /\ target'[1] \in Nat /\ target'[2] \in Octet
  <1>1. /\ prog \in {"setup", "runs", "polls", "strobes", "saw0", "saw1", "polled", "strobed"}
        /\ target = <<target[1], target[2]>> /\ target[1] \in Nat /\ target[2] \in Octet
    BY DEF DeviceTyped, At28c256TypeOK
  <1>2. CASE \E size \in LoadSizes, offset \in Addr \cup {0} : LoadImage(size, offset)
    BY <1>1, <1>2 DEF LoadImage
  <1>3. CASE Start
    BY <1>1, <1>3 DEF Start
  <1>4. CASE Resume
    BY <1>1, <1>4 DEF Resume, Octet
  <1>5. CASE FreeWrite \/ FreeRead \/ Peek
    BY <1>1, <1>5 DEF FreeWrite, FreeRead, Peek
  <1>6. CASE WriteToPoll
    BY <1>1, <1>6, WritesAreBytes DEF WriteToPoll
  <1>7. CASE Poll
    BY <1>1, <1>7 DEF Poll
  <1>8. CASE Strobe
    BY <1>1, <1>8 DEF Strobe
  <1>9. CASE TimePasses
    BY <1>1, <1>9 DEF TimePasses, Tick
  <1>10. CASE \E on \in BOOLEAN : SetSdpEnable(on)
    BY <1>1, <1>10 DEF SetSdpEnable
  <1>11. CASE UNCHANGED eepromVars
    BY <1>1, <1>11 DEF eepromVars
  <1>q. QED BY <1>2, <1>3, <1>4, <1>5, <1>6, <1>7, <1>8, <1>9, <1>10, <1>11 DEF At28c256Next

LEMMA EepromStepTyped == ASSUME DeviceTyped, [At28c256Next]_eepromVars PROVE DeviceTyped'
  <1>0. /\ prog' \in {"setup", "runs", "polls", "strobes", "saw0", "saw1", "polled", "strobed"}
        /\ target' = <<target'[1], target'[2]>> /\ target'[1] \in Nat /\ target'[2] \in Octet
    BY ProgramTyped
  <1>1. CASE \E size \in LoadSizes, offset \in Addr \cup {0} : LoadImage(size, offset)
    <2>1. PICK size \in LoadSizes, offset \in Addr \cup {0} : LoadImage(size, offset)
      BY <1>1
    <2>2. image' \in [Addr -> Int]
      BY <2>1, LoadTyped
    <2>q. QED BY <1>0, <2>1, <2>2 DEF DeviceTyped, At28c256TypeOK, LoadImage, observed
  <1>2. CASE UNCHANGED <<device, observed>>
    BY <1>0, <1>2 DEF DeviceTyped, At28c256TypeOK, device, observed
  <1>3. CASE \E w \in Writes : Write(w[1], w[2])
    <2>1. PICK w \in Writes : Write(w[1], w[2])
      BY <1>3
    <2>2. image \in [Addr -> Int]
      BY DEF DeviceTyped, At28c256TypeOK
    <2>3. \A v \in Octet : v \in Nat
      BY DEF Octet
    <2>q. QED BY <1>0, <2>1, <2>2, <2>3, WriteTyped DEF DeviceTyped, At28c256TypeOK, PAGE_SIZE
  <1>4. CASE \E a \in Nat : Read(a)
    <2>1. PICK a \in Nat : Read(a)
      BY <1>4
    <2>2. last_write' \in Octet /\ last_write' \in Nat
      BY <2>1, ReadTyped DEF Octet
    <2>q. QED BY <1>0, <2>1, <2>2 DEF DeviceTyped, At28c256TypeOK, Read, observed
  <1>5. CASE \E nanos \in Nanos : Tick(nanos)
    BY <1>5, TickTyped
  <1>6. CASE \E on \in BOOLEAN : SetSdpEnable(on)
    BY <1>0, <1>6 DEF DeviceTyped, At28c256TypeOK, SetSdpEnable, observed
  <1>q. QED BY <1>1, <1>2, <1>3, <1>4, <1>5, <1>6, StepsOfDevice DEF DeviceStep

LEMMA EepromAlwaysTyped == At28c256Spec => []DeviceTyped
  <1>1. DeviceTyped /\ [At28c256Next]_eepromVars => DeviceTyped'
    BY EepromStepTyped
  <1>q. QED BY <1>1, EepromInitTyped, PTL DEF At28c256Spec

(* The type invariant holds.                                               *)
THEOREM EepromTyping == At28c256Spec => []At28c256TypeOK
  <1>1. DeviceTyped => At28c256TypeOK
    BY DEF DeviceTyped
  <1>q. QED BY <1>1, EepromAlwaysTyped, PTL

-----------------------------------------------------------------------------
(* The times.  In a load the device's own count is the time since the last  *)
(* byte that was taken; in a write cycle it is that less the load.          *)
LoadState == {"SDP", "SDP_WRITE_EN", "BYTE_LOAD"}

AgeIsElapsed ==
  /\ write_state \in LoadState => elapsed < T_BLC /\ age = elapsed
  /\ write_state = "WRITE_CYCLE" => elapsed < T_WC /\ age = T_BLC + elapsed

(* What one step promises.                                                  *)
TimingStep ==
  /\ write_state' \in {"SDP", "SDP_WRITE_EN", "BYTE_LOAD"} => age' < T_BLC
  /\ write_state' = "WRITE_CYCLE" => age' \in T_BLC .. T_BLC + T_WC - 1
  /\ write_state # "IDLE" /\ write_state' = "IDLE" /\ age' > age => age' >= T_BLC + T_WC

LEMMA WriteAges ==
  ASSUME DeviceTyped, AgeIsElapsed, NEW a \in Nat, NEW v \in Octet, Write(a, v)
  PROVE  AgeIsElapsed' /\ (write_state' = "IDLE" => ~(age' > age))
  <1>0. /\ T_BLC \in Nat /\ T_BLC > 0 /\ elapsed \in Nat /\ age \in Nat
        /\ write_state \in {"IDLE", "SDP", "SDP_WRITE_EN", "BYTE_LOAD", "WRITE_CYCLE"}
    BY Constants DEF DeviceTyped, At28c256TypeOK
  <1>1. CASE WriteIdle(a, v)
    BY <1>0, <1>1 DEF Write, WriteIdle, ObserveWrite, PageWrite, AgeIsElapsed, LoadState
  <1>2. CASE WriteSdpValid(a, v)
    BY <1>0, <1>2 DEF Write, WriteSdpValid, SequenceEnds, ObserveWrite, AgeIsElapsed, LoadState
  <1>3. CASE WriteSdpInvalid(a, v)
    BY <1>0, <1>3 DEF Write, WriteSdpInvalid, ObserveWrite, AgeIsElapsed, LoadState
  <1>4. CASE WriteSdpEnabled(a, v)
    BY <1>0, <1>4 DEF Write, WriteSdpEnabled, ObserveWrite, PageWrite, AgeIsElapsed, LoadState
  <1>5. CASE WriteLoad(a, v)
    BY <1>0, <1>5 DEF Write, WriteLoad, ObserveWrite, PageWrite, AgeIsElapsed, LoadState
  <1>6. CASE WriteBusy(a, v)
    BY <1>0, <1>6 DEF Write, WriteBusy, ObserveWrite, AgeIsElapsed, LoadState
  <1>q. QED BY <1>1, <1>2, <1>3, <1>4, <1>5, <1>6 DEF Write

LEMMA TickAges ==
  ASSUME DeviceTyped, AgeIsElapsed, NEW nanos \in Nanos, Tick(nanos)
  PROVE  AgeIsElapsed' /\ TimingStep
  <1>0. /\ nanos \in Nat /\ T_BLC \in Nat /\ T_WC \in Nat /\ T_BLC > 0 /\ T_WC > 0
        /\ elapsed \in Nat /\ age \in Nat
    BY Constants DEF DeviceTyped, At28c256TypeOK
  <1>1. CASE write_state = "IDLE" /\ UNCHANGED <<device, observed>>
    BY <1>0, <1>1 DEF AgeIsElapsed, TimingStep, LoadState, device, observed
  <1>2. CASE write_state \in LoadState /\ Loading(elapsed + nanos) /\ Ages(nanos)
    <2>1. age = elapsed /\ elapsed < T_BLC
      BY <1>2 DEF AgeIsElapsed
    <2>2. age' = IF age + nanos < T_BLC + T_WC THEN age + nanos ELSE T_BLC + T_WC
      BY <1>2 DEF Ages
    <2>3. CASE elapsed + nanos < T_BLC
      BY <1>0, <1>2, <2>1, <2>2, <2>3 DEF Loading, AgeIsElapsed, TimingStep, LoadState
    <2>4. CASE ~(elapsed + nanos < T_BLC) /\ elapsed + nanos - T_BLC < T_WC
      BY <1>0, <1>2, <2>1, <2>2, <2>4 DEF Loading, InWriteCycle, AgeIsElapsed, TimingStep, LoadState
    <2>5. CASE ~(elapsed + nanos < T_BLC) /\ ~(elapsed + nanos - T_BLC < T_WC)
      BY <1>0, <1>2, <2>1, <2>2, <2>5 DEF Loading, InWriteCycle, Idle, AgeIsElapsed, TimingStep, LoadState
    <2>q. QED BY <2>3, <2>4, <2>5
  <1>3. CASE write_state = "WRITE_CYCLE" /\ InWriteCycle(elapsed + nanos) /\ Ages(nanos)
    <2>1. age = T_BLC + elapsed /\ elapsed < T_WC
      BY <1>3 DEF AgeIsElapsed
    <2>2. age' = IF age + nanos < T_BLC + T_WC THEN age + nanos ELSE T_BLC + T_WC
      BY <1>3 DEF Ages
    <2>3. CASE elapsed + nanos < T_WC
      BY <1>0, <1>3, <2>1, <2>2, <2>3 DEF InWriteCycle, AgeIsElapsed, TimingStep, LoadState
    <2>4. CASE ~(elapsed + nanos < T_WC)
      BY <1>0, <1>3, <2>1, <2>2, <2>4 DEF InWriteCycle, Idle, AgeIsElapsed, TimingStep, LoadState
    <2>q. QED BY <2>3, <2>4
  <1>q. QED BY <1>1, <1>2, <1>3 DEF Tick, LoadState

LEMMA StepAges ==
  ASSUME DeviceTyped, AgeIsElapsed, [At28c256Next]_eepromVars
  PROVE  AgeIsElapsed' /\ TimingStep
  <1>0. T_BLC \in Nat /\ T_WC \in Nat /\ elapsed \in Nat /\ age \in Nat /\ elapsed' \in Nat /\ age' \in Nat
    BY Constants, EepromStepTyped DEF DeviceTyped, At28c256TypeOK
  <1>1. ASSUME AgeIsElapsed', write_state' = "IDLE" => ~(age' > age) PROVE TimingStep
    <2>1. write_state' \in LoadState => age' < T_BLC
      BY <1>0, <1>1 DEF AgeIsElapsed
    <2>2. ASSUME write_state' = "WRITE_CYCLE" PROVE age' \in T_BLC .. T_BLC + T_WC - 1
      <3>1. elapsed' < T_WC /\ age' = T_BLC + elapsed'
        BY <1>1, <2>2 DEF AgeIsElapsed
      <3>2. \A b, w, e \in Nat : e < w => b + e \in b .. b + w - 1
        OBVIOUS
      <3>q. QED BY <1>0, <3>1, <3>2
    <2>q. QED BY <1>1, <2>1, <2>2 DEF TimingStep, LoadState
  <1>2. CASE UNCHANGED <<write_state, elapsed, age>>
    BY <1>0, <1>1, <1>2 DEF AgeIsElapsed
  <1>3. CASE \E w \in Writes : Write(w[1], w[2])
    BY <1>1, <1>3, WriteAges, WritesAreBytes
  <1>4. CASE \E nanos \in Nanos : Tick(nanos)
    BY <1>4, TickAges
  <1>q. QED BY <1>2, <1>3, <1>4, StepsOfDevice
            DEF DeviceStep, LoadImage, Read, SetSdpEnable, device, observed

(* Writes end T_BLC + T_WC after the last byte that was taken and loads     *)
(* T_BLC after it, however the time is cut into ticks: at28c256_tick.       *)
THEOREM TimesAreExact == At28c256Spec => TimingIsExact
  <1>1. At28c256Init => AgeIsElapsed
    BY DEF At28c256Init, AgeIsElapsed, LoadState
  <1>2. DeviceTyped /\ AgeIsElapsed /\ [At28c256Next]_eepromVars => AgeIsElapsed' /\ TimingStep
    BY StepAges
  <1>3. TimingStep => [TimingStep]_eepromVars
    OBVIOUS
  <1>4. At28c256Spec => [][TimingStep]_eepromVars
    BY <1>1, <1>2, <1>3, EepromAlwaysTyped, PTL DEF At28c256Spec
  <1>q. QED BY <1>4 DEF TimingIsExact, TimingStep

-----------------------------------------------------------------------------
(* Sequences of keys: how many keys each state of the device stands for.    *)
Keys == Nat \X Nat

Behind == [s \in SdpState \ {"SDP_IDLE"} |->
  CASE s = "SDP0" -> 1 [] s = "SDP1" -> 2 [] s = "SDP_DIS_80" -> 3
    [] s = "SDP_DIS_AA" -> 4 [] s = "SDP_DIS_55" -> 5]

LEMMA SequenceLengths ==
  /\ DisableSequence \in Seq(Keys) /\ Len(DisableSequence) = 6
  /\ EnableSequence \in Seq(Keys) /\ Len(EnableSequence) = 3
  BY DEF DisableSequence, EnableSequence, Keys, ENABLE, DISABLE

LEMMA SequenceKeys ==
  /\ DisableSequence[1] = <<21845, 170>> /\ DisableSequence[2] = <<10922, 85>>
  /\ DisableSequence[3] = <<0, DISABLE>> /\ DisableSequence[4] = <<21845, 170>>
  /\ DisableSequence[5] = <<10922, 85>> /\ DisableSequence[6] = <<21845, 32>>
  /\ EnableSequence[3] = <<0, ENABLE>>
  BY DEF DisableSequence, EnableSequence

LEMMA SequencesDiffer ==
  /\ EnableSequence[1] = DisableSequence[1] /\ EnableSequence[2] = DisableSequence[2]
  /\ EnableSequence[3] # DisableSequence[3]
  BY DEF DisableSequence, EnableSequence, ENABLE, DISABLE

(* The beginning of a sequence with its next key is a longer beginning.     *)
LEMMA LongerBeginning ==
  ASSUME NEW ks \in Seq(Keys), NEW n \in Nat, n < Len(ks)
  PROVE  /\ Append(SubSeq(ks, 1, n), ks[n + 1]) = SubSeq(ks, 1, n + 1)
         /\ SubSeq(ks, 1, n) \in Seq(Keys) /\ Len(SubSeq(ks, 1, n)) = n
         /\ Len(SubSeq(ks, 1, n + 1)) = n + 1
  <1>1. Len(ks) \in Nat /\ \A i \in 1 .. Len(ks) : ks[i] \in Keys
    BY ElementOfSeq, LenProperties
  <1>2. /\ SubSeq(ks, 1, n) \in Seq(Keys) /\ Len(SubSeq(ks, 1, n)) = n
        /\ \A i \in 1 .. n : SubSeq(ks, 1, n)[i] = ks[i]
    <2>1. \A i \in 1 .. n : ks[i] \in Keys
      BY <1>1
    <2>2. /\ SubSeq(ks, 1, n) \in Seq(Keys)
          /\ Len(SubSeq(ks, 1, n)) = IF 1 <= n THEN n - 1 + 1 ELSE 0
          /\ \A i \in 1 .. n - 1 + 1 : SubSeq(ks, 1, n)[i] = ks[1 + i - 1]
      BY <2>1, SubSeqProperties
    <2>q. QED BY <2>2
  <1>3. /\ SubSeq(ks, 1, n + 1) \in Seq(Keys) /\ Len(SubSeq(ks, 1, n + 1)) = n + 1
        /\ \A i \in 1 .. n + 1 : SubSeq(ks, 1, n + 1)[i] = ks[i]
    <2>1. \A i \in 1 .. n + 1 : ks[i] \in Keys
      BY <1>1
    <2>2. /\ SubSeq(ks, 1, n + 1) \in Seq(Keys)
          /\ Len(SubSeq(ks, 1, n + 1)) = IF 1 <= n + 1 THEN n + 1 - 1 + 1 ELSE 0
          /\ \A i \in 1 .. n + 1 - 1 + 1 : SubSeq(ks, 1, n + 1)[i] = ks[1 + i - 1]
      BY <2>1, SubSeqProperties
    <2>q. QED BY <2>2
  <1> DEFINE longer == Append(SubSeq(ks, 1, n), ks[n + 1])
  <1>4. /\ longer \in Seq(Keys) /\ Len(longer) = n + 1
        /\ \A i \in 1 .. n : longer[i] = ks[i]
        /\ longer[n + 1] = ks[n + 1]
    <2>1. ks[n + 1] \in Keys
      BY <1>1
    <2>q. QED BY <1>2, <2>1, AppendProperties
  <1>5. \A i \in 1 .. Len(longer) : longer[i] = SubSeq(ks, 1, n + 1)[i]
    BY <1>3, <1>4
  <1>q. QED BY <1>2, <1>3, <1>4, <1>5, SeqEqual

LEMMA Beginnings ==
  /\ \A n \in 1 .. 5 : Len(SubSeq(DisableSequence, 1, n)) = n
  /\ \A n \in 1 .. 5 : SubSeq(DisableSequence, 1, n)[n] = DisableSequence[n]
  /\ SubSeq(DisableSequence, 1, 6) = DisableSequence
  /\ SubSeq(EnableSequence, 1, 3) = EnableSequence
  <1>1. ASSUME NEW n \in 1 .. 5 PROVE Len(SubSeq(DisableSequence, 1, n)) = n
    <2>1. DisableSequence \in Seq(Keys) /\ n \in Nat /\ n < Len(DisableSequence)
      BY SequenceLengths
    <2>q. QED BY <2>1, LongerBeginning
  <1>2. ASSUME NEW n \in 1 .. 5 PROVE SubSeq(DisableSequence, 1, n)[n] = DisableSequence[n]
    OBVIOUS
  <1>3. SubSeq(DisableSequence, 1, 6) = DisableSequence
    BY SequenceLengths, SubSeqFull
  <1>4. SubSeq(EnableSequence, 1, 3) = EnableSequence
    BY SequenceLengths, SubSeqFull
  <1>q. QED BY <1>1, <1>2, <1>3, <1>4

LEMMA FirstBeginning == SubSeq(DisableSequence, 1, 1) = <<DisableSequence[1]>>
  <1> DEFINE d == SubSeq(DisableSequence, 1, 1)
             e == <<DisableSequence[1]>>
  <1>1. d \in Seq(Keys) /\ Len(d) = 1
    <2>1. DisableSequence \in Seq(Keys) /\ 1 \in Nat /\ 1 < Len(DisableSequence)
      BY SequenceLengths
    <2>q. QED BY <2>1, LongerBeginning
  <1>2. e \in Seq(Keys) /\ Len(e) = 1
    <2>1. DisableSequence[1] \in Keys
      BY SequenceLengths, ElementOfSeq
    <2>q. QED BY <2>1
  <1>3. \A i \in 1 .. 1 : d[i] = e[i]
    OBVIOUS
  <1> HIDE DEF d, e
  <1>4. d = e
    BY <1>1, <1>2, <1>3, SeqEqual
  <1>q. QED BY <1>4 DEF d, e

LEMMA BeginningIsNotWhole ==
  \A n \in 1 .. 5 : ~Whole(SubSeq(DisableSequence, 1, n))
  <1> TAKE n \in 1 .. 5
  <1> DEFINE b == SubSeq(DisableSequence, 1, n)
  <1>1. Len(b) = n /\ b[n] = DisableSequence[n]
    BY Beginnings
  <1> HIDE DEF b
  <1>2. b # DisableSequence
    <2>1. Len(b) # 6
      BY <1>1
    <2>2. Len(DisableSequence) = 6
      BY SequenceLengths
    <2>q. QED BY <2>1, <2>2
  <1>3. b # EnableSequence
    BY <1>1, SequenceLengths, SequencesDiffer
  <1>q. QED BY <1>2, <1>3 DEF Whole, b

LEMMA SameBeginning == SubSeq(DisableSequence, 1, 2) = SubSeq(EnableSequence, 1, 2)
  <1> DEFINE d == SubSeq(DisableSequence, 1, 2)
             e == SubSeq(EnableSequence, 1, 2)
  <1>1. d \in Seq(Keys) /\ Len(d) = 2
    <2>1. DisableSequence \in Seq(Keys) /\ 2 \in Nat /\ 2 < Len(DisableSequence)
      BY SequenceLengths
    <2>q. QED BY <2>1, LongerBeginning
  <1>2. e \in Seq(Keys) /\ Len(e) = 2
    <2>1. EnableSequence \in Seq(Keys) /\ 2 \in Nat /\ 2 < Len(EnableSequence)
      BY SequenceLengths
    <2>q. QED BY <2>1, LongerBeginning
  <1>3. \A i \in 1 .. 2 : d[i] = DisableSequence[i] /\ e[i] = EnableSequence[i]
    OBVIOUS
  <1>4. \A i \in 1 .. 2 : d[i] = e[i]
    BY <1>3, SequencesDiffer
  <1> HIDE DEF d, e
  <1>5. d = e
    BY <1>1, <1>2, <1>4, SeqEqual
  <1>q. QED BY <1>5 DEF d, e

(* The observer of the keys follows the device.                             *)
LEMMA KeyIsSeen ==
  ASSUME NEW ks \in {EnableSequence, DisableSequence}, NEW n \in Nat, n < Len(ks),
         keys = SubSeq(ks, 1, n), ~Whole(keys),
         NEW a, NEW v, <<IF n = 2 THEN 0 ELSE a, v>> = ks[n + 1]
  PROVE  KeysWith(a, v) = SubSeq(ks, 1, n + 1)
  <1>0. ks \in Seq(Keys) /\ Len(ks) \in Nat
    BY SequenceLengths
  <1>1. /\ Append(keys, ks[n + 1]) = SubSeq(ks, 1, n + 1)
        /\ Len(keys) = n /\ Len(SubSeq(ks, 1, n + 1)) = n + 1
    BY <1>0, LongerBeginning
  <1>2. <<IF Len(keys) = 2 THEN 0 ELSE a, v>> = ks[n + 1]
    BY <1>1
  <1>3. n + 1 <= Len(ks)
    BY <1>0
  <1>q. QED BY <1>1, <1>2, <1>3 DEF KeysWith

LEMMA SpoiltStays ==
  ASSUME keys = Spoilt \/ Whole(keys), NEW a, NEW v
  PROVE  KeysWith(a, v) = keys
  <1>1. CASE Whole(keys)
    BY <1>1 DEF KeysWith
  <1>2. CASE keys = Spoilt
    BY <1>2 DEF KeysWith, Spoilt, Whole, EnableSequence, DisableSequence
  <1>q. QED BY <1>1, <1>2

-----------------------------------------------------------------------------
(* The protection.  The keys that have been seen say where the device is in *)
(* a sequence, and until a sequence is whole what it protects is what it    *)
(* protected when it was idle.                                             *)
KeysTellProtection ==
  /\ write_state = "SDP" <=> sdp_state # "SDP_IDLE"
  /\ write_state = "SDP" => keys = SubSeq(DisableSequence, 1, Behind[sdp_state])
  /\ write_state = "SDP_WRITE_EN" => Whole(keys)
  /\ write_state = "BYTE_LOAD" => keys = Spoilt \/ Whole(keys)
  /\ write_state = "IDLE" => writes_enabled = FALSE
  /\ write_state # "IDLE" /\ ~Whole(keys) => writes_enabled = FALSE /\ enabled = locked

(* What one step promises.                                                  *)
ProtectionStep == image' # image /\ prog # "setup" => ~locked \/ Whole(keys)

LEMMA BehindIs ==
  /\ Behind["SDP0"] = 1 /\ Behind["SDP1"] = 2 /\ Behind["SDP_DIS_80"] = 3
  /\ Behind["SDP_DIS_AA"] = 4 /\ Behind["SDP_DIS_55"] = 5
  BY DEF Behind, SdpState

LEMMA AwaitedIs ==
  /\ Awaited["SDP_IDLE"] = <<21845, 170>> /\ Awaited["SDP0"] = <<10922, 85>>
  /\ Awaited["SDP_DIS_80"] = <<21845, 170>> /\ Awaited["SDP_DIS_AA"] = <<10922, 85>>
  /\ Awaited["SDP_DIS_55"] = <<21845, 32>>
  BY DEF Awaited, SdpState

LEMMA SuccessorIs ==
  /\ DOMAIN Successor = {"SDP0", "SDP_DIS_80", "SDP_DIS_AA"}
  /\ Successor["SDP0"] = "SDP1" /\ Successor["SDP_DIS_80"] = "SDP_DIS_AA"
  /\ Successor["SDP_DIS_AA"] = "SDP_DIS_55"
  BY DEF Successor

(* A key of a sequence, in each of its places.                              *)
LEMMA ValidKeySeen ==
  ASSUME DeviceTyped, KeysTellProtection, write_state = "SDP",
         NEW a \in Nat, NEW v \in Octet, Valid(a, v)
  PROVE  /\ sdp_state \in {"SDP0", "SDP_DIS_80", "SDP_DIS_AA"} =>
              KeysWith(a, v) = SubSeq(DisableSequence, 1, Behind[Successor[sdp_state]])
         /\ sdp_state = "SDP1" /\ v # ENABLE =>
              KeysWith(a, v) = SubSeq(DisableSequence, 1, Behind["SDP_DIS_80"])
         /\ sdp_state = "SDP1" /\ v = ENABLE => KeysWith(a, v) = EnableSequence
         /\ sdp_state = "SDP_DIS_55" => KeysWith(a, v) = DisableSequence
  <1>0. sdp_state \in {"SDP0", "SDP1", "SDP_DIS_80", "SDP_DIS_AA", "SDP_DIS_55"}
    BY DEF DeviceTyped, At28c256TypeOK, SdpState, KeysTellProtection
  <1>1. ASSUME NEW n \in 1 .. 5, n = Behind[sdp_state],
               <<IF n = 2 THEN 0 ELSE a, v>> = DisableSequence[n + 1]
        PROVE  KeysWith(a, v) = SubSeq(DisableSequence, 1, n + 1)
    <2>1. keys = SubSeq(DisableSequence, 1, n) /\ ~Whole(keys)
      BY <1>1, BeginningIsNotWhole DEF KeysTellProtection
    <2>2. n \in Nat /\ n < Len(DisableSequence) /\ DisableSequence \in {EnableSequence, DisableSequence}
      BY SequenceLengths
    <2>q. QED BY <1>1, <2>1, <2>2, KeyIsSeen
  <1>2. ASSUME sdp_state # "SDP1" PROVE <<a, v>> = Awaited[sdp_state]
    BY <1>2 DEF Valid
  <1>3. CASE sdp_state = "SDP0"
    <2>1. 1 \in 1 .. 5 /\ 1 = Behind[sdp_state] /\ <<a, v>> = DisableSequence[1 + 1]
      BY <1>2, <1>3, BehindIs, AwaitedIs, SequenceKeys
    <2>2. KeysWith(a, v) = SubSeq(DisableSequence, 1, 1 + 1)
      BY <1>1, <2>1
    <2>q. QED BY <1>3, <2>2, BehindIs, SuccessorIs
  <1>4. CASE sdp_state = "SDP_DIS_80"
    <2>1. 3 \in 1 .. 5 /\ 3 = Behind[sdp_state] /\ <<a, v>> = DisableSequence[3 + 1]
      BY <1>2, <1>4, BehindIs, AwaitedIs, SequenceKeys
    <2>2. KeysWith(a, v) = SubSeq(DisableSequence, 1, 3 + 1)
      BY <1>1, <2>1
    <2>q. QED BY <1>4, <2>2, BehindIs, SuccessorIs
  <1>5. CASE sdp_state = "SDP_DIS_AA"
    <2>1. 4 \in 1 .. 5 /\ 4 = Behind[sdp_state] /\ <<a, v>> = DisableSequence[4 + 1]
      BY <1>2, <1>5, BehindIs, AwaitedIs, SequenceKeys
    <2>2. KeysWith(a, v) = SubSeq(DisableSequence, 1, 4 + 1)
      BY <1>1, <2>1
    <2>q. QED BY <1>5, <2>2, BehindIs, SuccessorIs
  <1>6. CASE sdp_state = "SDP_DIS_55"
    <2>1. 5 \in 1 .. 5 /\ 5 = Behind[sdp_state] /\ <<a, v>> = DisableSequence[5 + 1]
      BY <1>2, <1>6, BehindIs, AwaitedIs, SequenceKeys
    <2>2. KeysWith(a, v) = SubSeq(DisableSequence, 1, 5 + 1)
      BY <1>1, <2>1
    <2>q. QED BY <1>6, <2>2, Beginnings
  <1>7. CASE sdp_state = "SDP1" /\ v # ENABLE
    <2>1. v = DISABLE
      BY <1>7 DEF Valid
    <2>2. 2 \in 1 .. 5 /\ 2 = Behind[sdp_state] /\ <<0, v>> = DisableSequence[2 + 1]
      BY <1>7, <2>1, BehindIs, SequenceKeys
    <2>3. KeysWith(a, v) = SubSeq(DisableSequence, 1, 2 + 1)
      BY <1>1, <2>2
    <2>q. QED BY <1>7, <2>3, BehindIs
  <1>8. CASE sdp_state = "SDP1" /\ v = ENABLE
    <2>1. keys = SubSeq(EnableSequence, 1, 2)
      BY <1>8, SameBeginning, BehindIs DEF KeysTellProtection
    <2>2. ~Whole(keys)
      <3>1. 2 \in 1 .. 5 /\ keys = SubSeq(DisableSequence, 1, 2)
        BY <1>8, BehindIs DEF KeysTellProtection
      <3>q. QED BY <3>1, BeginningIsNotWhole
    <2>3. /\ 2 \in Nat /\ 2 < Len(EnableSequence) /\ EnableSequence \in {EnableSequence, DisableSequence}
          /\ <<0, v>> = EnableSequence[2 + 1]
      BY <1>8, SequenceLengths, SequenceKeys
    <2>4. KeysWith(a, v) = SubSeq(EnableSequence, 1, 2 + 1)
      BY <2>1, <2>2, <2>3, KeyIsSeen
    <2>q. QED BY <1>8, <2>4, Beginnings
  <1>q. QED BY <1>0, <1>3, <1>4, <1>5, <1>6, <1>7, <1>8

LEMMA WriteKeepsProtection ==
  ASSUME DeviceTyped, KeysTellProtection, NEW a \in Nat, NEW v \in Octet, Write(a, v)
  PROVE  KeysTellProtection'
  <1>0. /\ write_state \in {"IDLE", "SDP", "SDP_WRITE_EN", "BYTE_LOAD", "WRITE_CYCLE"}
        /\ sdp_state \in SdpState
    BY DEF DeviceTyped, At28c256TypeOK
  <1>1. CASE WriteIdle(a, v)
    <2>1. write_state = "IDLE" /\ sdp_state = "SDP_IDLE" /\ writes_enabled = FALSE
      BY <1>1 DEF WriteIdle, KeysTellProtection
    <2>2. /\ writes_enabled' = FALSE /\ enabled' = enabled /\ locked' = enabled
          /\ keys' = IF <<a, v>> = EnableSequence[1] THEN <<<<a, v>>>> ELSE Spoilt
      BY <1>1, <2>1 DEF WriteIdle, Write, ObserveWrite
    <2>3. EnableSequence[1] = Awaited["SDP_IDLE"]
      BY SequencesDiffer, SequenceKeys, AwaitedIs
    <2>4. CASE <<a, v>> = Awaited["SDP_IDLE"]
      <3>1. write_state' = "SDP" /\ sdp_state' = "SDP0"
        BY <1>1, <2>4 DEF WriteIdle
      <3>2. keys' = SubSeq(DisableSequence, 1, 1)
        <4>1. keys' = <<DisableSequence[1]>>
          <5>1. <<a, v>> = DisableSequence[1] /\ keys' = <<<<a, v>>>>
            BY <2>2, <2>3, <2>4, SequencesDiffer
          <5>q. QED BY <5>1
        <4>q. QED BY <4>1, FirstBeginning
      <3>q. QED BY <2>2, <3>1, <3>2, BehindIs DEF KeysTellProtection
    <2>5. CASE <<a, v>> # Awaited["SDP_IDLE"]
      <3>1. write_state' = "BYTE_LOAD" /\ sdp_state' = "SDP_IDLE" /\ keys' = Spoilt
        BY <1>1, <2>1, <2>2, <2>3, <2>5 DEF WriteIdle
      <3>q. QED BY <2>2, <3>1 DEF KeysTellProtection
    <2>q. QED BY <2>4, <2>5
  <1>2. CASE WriteSdpValid(a, v)
    <2>1. write_state = "SDP" /\ Valid(a, v) /\ keys' = KeysWith(a, v) /\ locked' = locked
      BY <1>2 DEF WriteSdpValid, Write, ObserveWrite
    <2>2. writes_enabled = FALSE /\ enabled = locked
      <3>1. Behind[sdp_state] \in 1 .. 5
        BY <1>0, <2>1, BehindIs DEF KeysTellProtection, SdpState
      <3>q. QED BY <2>1, <3>1, BeginningIsNotWhole DEF KeysTellProtection
    <2>3. CASE sdp_state \in DOMAIN Successor /\ sdp_state' = Successor[sdp_state]
               /\ UNCHANGED <<write_state, pending, enabled, writes_enabled>>
      <3>1. keys' = SubSeq(DisableSequence, 1, Behind[sdp_state'])
        BY <2>1, <2>3, ValidKeySeen, SuccessorIs
      <3>2. sdp_state' # "SDP_IDLE"
        BY <2>3, SuccessorIs
      <3>q. QED BY <2>1, <2>2, <2>3, <3>1, <3>2 DEF KeysTellProtection
    <2>4. CASE sdp_state = "SDP1" /\ v # ENABLE /\ sdp_state' = "SDP_DIS_80"
               /\ UNCHANGED <<write_state, pending, enabled, writes_enabled>>
      <3>1. keys' = SubSeq(DisableSequence, 1, Behind[sdp_state'])
        BY <2>1, <2>4, ValidKeySeen
      <3>q. QED BY <2>1, <2>2, <2>4, <3>1 DEF KeysTellProtection
    <2>5. CASE (sdp_state = "SDP1" /\ v = ENABLE /\ SequenceEnds(TRUE))
               \/ (sdp_state = "SDP_DIS_55" /\ SequenceEnds(FALSE))
      <3>1. Whole(keys')
        BY <2>1, <2>5, ValidKeySeen DEF Whole
      <3>2. sdp_state' = "SDP_IDLE" /\ write_state' = "SDP_WRITE_EN"
        BY <2>5 DEF SequenceEnds
      <3>q. QED BY <3>1, <3>2 DEF KeysTellProtection, Whole
    <2>q. QED BY <1>2, <2>3, <2>4, <2>5 DEF WriteSdpValid
  <1>3. CASE WriteSdpInvalid(a, v)
    <2>1. writes_enabled = FALSE
      <3>1. Behind[sdp_state] \in 1 .. 5 /\ write_state = "SDP"
        BY <1>0, <1>3, BehindIs DEF KeysTellProtection, SdpState, WriteSdpInvalid
      <3>q. QED BY <3>1, BeginningIsNotWhole DEF KeysTellProtection
    <2>q. QED BY <1>3, <2>1 DEF WriteSdpInvalid, KeysTellProtection
  <1>4. CASE WriteSdpEnabled(a, v)
    <2>1. Whole(keys) /\ keys' = KeysWith(a, v) /\ sdp_state = "SDP_IDLE"
      BY <1>4 DEF WriteSdpEnabled, Write, ObserveWrite, KeysTellProtection
    <2>2. keys' = keys
      BY <2>1, SpoiltStays
    <2>q. QED BY <1>4, <2>1, <2>2 DEF WriteSdpEnabled, KeysTellProtection, Whole
  <1>5. CASE WriteLoad(a, v)
    <2>1. /\ keys = Spoilt \/ Whole(keys)
          /\ keys' = KeysWith(a, v) /\ locked' = locked
          /\ sdp_state = "SDP_IDLE" /\ write_state = "BYTE_LOAD"
      BY <1>5 DEF WriteLoad, Write, ObserveWrite, KeysTellProtection
    <2>2. keys' = keys
      BY <2>1, SpoiltStays
    <2>3. UNCHANGED <<write_state, sdp_state, enabled, writes_enabled>>
      BY <1>5 DEF WriteLoad
    <2>q. QED BY <2>1, <2>2, <2>3 DEF KeysTellProtection, Whole
  <1>6. CASE WriteBusy(a, v)
    <2>1. UNCHANGED <<write_state, sdp_state, enabled, writes_enabled, keys, locked>>
      BY <1>6 DEF WriteBusy, Write, ObserveWrite
    <2>q. QED BY <2>1 DEF KeysTellProtection, Whole
  <1>q. QED BY <1>1, <1>2, <1>3, <1>4, <1>5, <1>6 DEF Write

LEMMA TickKeepsProtection ==
  ASSUME DeviceTyped, KeysTellProtection, NEW nanos \in Nanos, Tick(nanos)
  PROVE  KeysTellProtection' /\ ProtectionStep
  <1>0. /\ T_BLC \in Nat /\ T_WC \in Nat /\ enabled \in BOOLEAN /\ writes_enabled \in BOOLEAN
        /\ locked \in BOOLEAN /\ enabled' = enabled /\ nanos \in Nat /\ elapsed \in Nat
    BY Constants DEF DeviceTyped, At28c256TypeOK, Tick
  <1>1. CASE UNCHANGED <<device, observed>>
    BY <1>1 DEF KeysTellProtection, ProtectionStep, Whole, device, observed
  <1>2. ASSUME write_state # "IDLE", Ages(nanos), NEW spent, InWriteCycle(spent),
               sdp_state' = "SDP_IDLE"
        PROVE  KeysTellProtection' /\ ProtectionStep
    <2>1. CASE spent < T_WC
      <3>1. /\ write_state' = "WRITE_CYCLE" /\ UNCHANGED <<writes_enabled, image>>
            /\ keys' = keys /\ locked' = locked
        BY <1>2, <2>1 DEF InWriteCycle, Ages
      <3>q. QED BY <1>0, <1>2, <3>1 DEF KeysTellProtection, ProtectionStep, Whole
    <2>2. CASE ~(spent < T_WC)
      <3>1. Idle
        BY <1>2, <2>2 DEF InWriteCycle
      <3>2. KeysTellProtection'
        BY <1>2, <3>1 DEF Idle, KeysTellProtection
      <3>3. ProtectionStep
        <4>1. locked = TRUE /\ ~Whole(keys) => Blocked
          BY <1>0, <1>2 DEF KeysTellProtection, Blocked
        <4>q. QED BY <1>0, <3>1, <4>1 DEF Idle, ProtectionStep
      <3>q. QED BY <3>2, <3>3
    <2>q. QED BY <2>1, <2>2
  <1>3. CASE write_state \in LoadState /\ Loading(elapsed + nanos) /\ Ages(nanos)
    <2>1. CASE elapsed + nanos < T_BLC
      <3>1. /\ UNCHANGED <<write_state, sdp_state, writes_enabled, image>>
            /\ keys' = keys /\ locked' = locked
        BY <1>3, <2>1 DEF Loading, Ages, LoadState
      <3>q. QED BY <1>0, <3>1 DEF KeysTellProtection, ProtectionStep, Whole
    <2>2. CASE ~(elapsed + nanos < T_BLC)
      <3>0. /\ write_state = "SDP" => sdp_state' = "SDP_IDLE"
            /\ write_state # "SDP" => sdp_state' = sdp_state
        BY <1>3, <2>2 DEF Loading
      <3>1. InWriteCycle(elapsed + nanos - T_BLC)
        BY <1>0, <1>3, <2>2 DEF Loading
      <3>2. sdp_state' = "SDP_IDLE"
        <4>1. write_state # "SDP" => sdp_state = "SDP_IDLE"
          BY DEF KeysTellProtection
        <4>q. QED BY <3>0, <4>1
      <3>q. QED BY <1>2, <1>3, <3>1, <3>2 DEF LoadState
    <2>q. QED BY <2>1, <2>2
  <1>4. CASE write_state = "WRITE_CYCLE" /\ InWriteCycle(elapsed + nanos) /\ Ages(nanos)
             /\ UNCHANGED sdp_state
    BY <1>2, <1>4 DEF KeysTellProtection
  <1>q. QED BY <1>1, <1>3, <1>4 DEF Tick, LoadState

LEMMA StepKeepsProtection ==
  ASSUME DeviceTyped, KeysTellProtection, [At28c256Next]_eepromVars
  PROVE  KeysTellProtection' /\ ProtectionStep
  <1>1. CASE UNCHANGED <<write_state, sdp_state, writes_enabled, keys, locked, image, enabled>>
    BY <1>1 DEF KeysTellProtection, ProtectionStep, Whole
  <1>2. CASE \E w \in Writes : Write(w[1], w[2])
    <2>1. PICK w \in Writes : Write(w[1], w[2])
      BY <1>2
    <2>2. KeysTellProtection' /\ image' = image
      BY <2>1, WriteKeepsProtection, WriteTyped, WritesAreBytes
    <2>q. QED BY <2>2 DEF ProtectionStep
  <1>3. CASE \E nanos \in Nanos : Tick(nanos)
    BY <1>3, TickKeepsProtection
  <1>4. CASE \E size \in LoadSizes, offset \in Addr \cup {0} : LoadImage(size, offset)
    BY <1>4 DEF LoadImage, KeysTellProtection, ProtectionStep, Whole, observed
  <1>5. CASE \E on \in BOOLEAN : SetSdpEnable(on)
    BY <1>5 DEF SetSdpEnable, KeysTellProtection, ProtectionStep, Whole, observed
  <1>q. QED BY <1>1, <1>2, <1>3, <1>4, <1>5, StepsOfDevice
            DEF DeviceStep, Read, device, observed

(* What is protected when the device is idle stays as it is until a whole   *)
(* sequence has been written: at28c256_write and at28c256_tick.             *)
THEOREM ProtectionIsKept == At28c256Spec => ProtectionHolds
  <1>1. At28c256Init => KeysTellProtection
    BY DEF At28c256Init, KeysTellProtection
  <1>2. DeviceTyped /\ KeysTellProtection /\ [At28c256Next]_eepromVars => KeysTellProtection' /\ ProtectionStep
    BY StepKeepsProtection
  <1>3. ProtectionStep => [ProtectionStep]_eepromVars
    OBVIOUS
  <1>4. At28c256Spec => [][ProtectionStep]_eepromVars
    BY <1>1, <1>2, <1>3, EepromAlwaysTyped, PTL DEF At28c256Spec
  <1>q. QED BY <1>4 DEF ProtectionHolds, ProtectionStep

-----------------------------------------------------------------------------
(* The poll.  While a program polls its byte, the byte is on the page that  *)
(* is kept and bit 7 of what the device remembers is the byte's; when the   *)
(* device is idle again the byte is in the image.                           *)
PolledByte ==
  prog \in {"polls", "polled"} =>
    /\ target[1] \in Addr /\ last_write_addr = target[1]
    /\ write_state # "IDLE" =>
         /\ prog = "polls" /\ enabled = FALSE
         /\ Page(target[1]) = page_addr
         /\ ByteOf(target[1]) \in DOMAIN pending
         /\ pending[ByteOf(target[1])] = target[2]
         /\ Bit(last_write, POLL_BIT) = Bit(target[2], POLL_BIT)
    /\ write_state = "IDLE" => image[target[1]] = target[2]

LEMMA ReadKeepsPolledByte ==
  ASSUME DeviceTyped, PolledByte, NEW a \in Nat, Read(a), UNCHANGED <<prog, target>>
  PROVE  PolledByte'
  <1>1. Bit(last_write', POLL_BIT) = Bit(last_write, POLL_BIT)
    BY StrobeKeepsPoll DEF Read, DeviceTyped
  <1>2. UNCHANGED <<write_state, enabled, image, page_addr, pending, last_write_addr>>
    BY DEF Read
  <1>q. QED BY <1>1, <1>2 DEF PolledByte

(* A read while the device is busy shows the complement.                    *)
LEMMA BusyShows ==
  ASSUME DeviceTyped, PolledByte, prog = "polls", write_state # "IDLE"
  PROVE  Bit(ReadsAs(target[1]), POLL_BIT) # Bit(target[2], POLL_BIT)
  <1>1. Strobes(target[1]) /\ Bit(last_write, POLL_BIT) = Bit(target[2], POLL_BIT)
    BY DEF PolledByte, Strobes
  <1> DEFINE f == Flip(last_write, STROBE_BIT)
  <1>2. last_write \in Octet /\ f \in Octet
    BY FlipIsOctet DEF DeviceTyped
  <1>3. ReadsAs(target[1]) = Flip(f, POLL_BIT)
    BY <1>1 DEF ReadsAs
  <1>4. Bit(f, POLL_BIT) = Bit(last_write, POLL_BIT)
    BY <1>2, StrobeKeepsPoll
  <1> HIDE DEF f
  <1>5. Bit(Flip(f, POLL_BIT), POLL_BIT) # Bit(f, POLL_BIT)
    BY <1>2, PollIsComplement
  <1>q. QED BY <1>1, <1>3, <1>4, <1>5

LEMMA PollKeepsPolledByte ==
  ASSUME DeviceTyped, PolledByte, Poll
  PROVE  PolledByte'
  <1>1. prog = "polls" /\ Read(target[1]) /\ target' = target /\ prog' \in {"polls", "polled"}
    BY DEF Poll
  <1>2. Bit(last_write', POLL_BIT) = Bit(last_write, POLL_BIT)
    BY <1>1, StrobeKeepsPoll DEF Read, DeviceTyped
  <1>3. UNCHANGED <<write_state, enabled, image, page_addr, pending, last_write_addr>>
    BY <1>1 DEF Read
  <1>4. write_state # "IDLE" => prog' = "polls"
    BY <1>1, BusyShows DEF Poll
  <1>q. QED BY <1>1, <1>2, <1>3, <1>4 DEF PolledByte

LEMMA WriteToPollStarts ==
  ASSUME DeviceTyped, KeysTellProtection, WriteToPoll
  PROVE  PolledByte'
  <1>1. PICK w \in Writes : Write(w[1], w[2]) /\ target' = w
    BY DEF WriteToPoll
  <1>2. write_state = "IDLE" /\ ~enabled /\ sdp_state = "SDP_IDLE" /\ enabled \in BOOLEAN
    BY DEF WriteToPoll, KeysTellProtection, DeviceTyped, At28c256TypeOK
  <1>3. WriteIdle(w[1], w[2])
    BY <1>1, <1>2 DEF Write, WriteSdpValid, WriteSdpInvalid, WriteSdpEnabled, WriteLoad, WriteBusy
  <1>4. w = <<w[1], w[2]>> /\ w[1] \in Addr /\ w[1] \in Nat /\ w[2] \in Octet
    BY <1>1, WritesAreBytes
  <1>5. write_state' # "IDLE" /\ sdp_state' \in {"SDP_IDLE", "SDP0"}
    BY <1>2, <1>3 DEF WriteIdle
  <1>6. pending' = With(NothingTaken, ByteOf(w[1]), w[2])
    BY <1>3, <1>5 DEF WriteIdle, PageWrite
  <1>7. ByteOf(w[1]) \in DOMAIN pending' /\ pending'[ByteOf(w[1])] = w[2]
    BY <1>6 DEF With
  <1>8. /\ page_addr' = Page(w[1]) /\ last_write_addr' = w[1] /\ last_write' = w[2]
        /\ enabled' = FALSE
    BY <1>2, <1>3 DEF WriteIdle, Remember
  <1>9. prog' # "polled"
    BY DEF WriteToPoll
  <1>q. QED BY <1>1, <1>4, <1>5, <1>7, <1>8, <1>9 DEF PolledByte

LEMMA TickKeepsPolledByte ==
  ASSUME DeviceTyped, PolledByte, NEW nanos \in Nanos, Tick(nanos)
  PROVE  PolledByte'
  <1>1. UNCHANGED <<enabled, page_addr, pending, last_write, last_write_addr, prog, target>>
    BY DEF Tick
  <1>2. ASSUME UNCHANGED <<write_state, image>> PROVE PolledByte'
    BY <1>1, <1>2 DEF PolledByte
  <1>3. ASSUME write_state # "IDLE", NEW spent, InWriteCycle(spent) PROVE PolledByte'
    <2>1. CASE write_state' = "WRITE_CYCLE" /\ image' = image
      BY <1>1, <1>3, <2>1 DEF PolledByte
    <2>2. CASE Idle
      <3> SUFFICES ASSUME prog \in {"polls", "polled"}
                   PROVE  PolledByte'
        BY <1>1 DEF PolledByte
      <3>1. /\ target[1] \in Addr /\ last_write_addr = target[1] /\ enabled = FALSE
            /\ Page(target[1]) = page_addr /\ ByteOf(target[1]) \in DOMAIN pending
            /\ pending[ByteOf(target[1])] = target[2]
        BY <1>3 DEF PolledByte
      <3>2. image' = [b \in Addr |-> IF Page(b) = page_addr /\ ByteOf(b) \in DOMAIN pending
                                     THEN pending[ByteOf(b)] ELSE image[b]]
        BY <2>2, <3>1 DEF Idle, Blocked
      <3>3. image'[target[1]] = target[2] /\ write_state' = "IDLE"
        BY <2>2, <3>1, <3>2 DEF Idle
      <3>q. QED BY <1>1, <3>1, <3>3 DEF PolledByte
    <2>q. QED BY <1>3, <2>1, <2>2 DEF InWriteCycle
  <1>q. QED BY <1>2, <1>3 DEF Tick, Loading, device, observed

LEMMA StepKeepsPolledByte ==
  ASSUME DeviceTyped, KeysTellProtection, PolledByte, [At28c256Next]_eepromVars
  PROVE  PolledByte'
  <1>1. CASE \E size \in LoadSizes, offset \in Addr \cup {0} : LoadImage(size, offset)
    BY <1>1 DEF LoadImage, PolledByte
  <1>2. CASE Start
    BY <1>2 DEF Start, PolledByte
  <1>3. CASE FreeWrite \/ FreeRead
    BY <1>3 DEF FreeWrite, FreeRead, PolledByte
  <1>4. CASE WriteToPoll
    BY <1>4, WriteToPollStarts
  <1>5. CASE Poll
    BY <1>5, PollKeepsPolledByte
  <1>6. CASE Strobe
    BY <1>6 DEF Strobe, PolledByte
  <1>7. CASE Resume
    BY <1>7 DEF Resume, PolledByte
  <1>8. CASE Peek
    BY <1>8, ReadKeepsPolledByte, AddrIsLocal DEF Peek
  <1>9. CASE TimePasses
    BY <1>9, TickKeepsPolledByte DEF TimePasses
  <1>10. CASE \E on \in BOOLEAN : SetSdpEnable(on)
    BY <1>10 DEF SetSdpEnable, PolledByte
  <1>11. CASE UNCHANGED eepromVars
    BY <1>11 DEF eepromVars, device, PolledByte
  <1>q. QED BY <1>1, <1>2, <1>3, <1>4, <1>5, <1>6, <1>7, <1>8, <1>9, <1>10, <1>11 DEF At28c256Next

(* A program that polls bit 7 of its byte goes on when the byte is there    *)
(* and not before, whatever a debugger reads: at28c256_read.                *)
THEOREM PollIsTrue == At28c256Spec => []PollTellsTheTruth
  <1>1. At28c256Init => KeysTellProtection /\ PolledByte
    BY DEF At28c256Init, KeysTellProtection, PolledByte
  <1>2. DeviceTyped /\ (KeysTellProtection /\ PolledByte) /\ [At28c256Next]_eepromVars
        => (KeysTellProtection /\ PolledByte)'
    BY StepKeepsProtection, StepKeepsPolledByte
  <1>3. PolledByte => PollTellsTheTruth
    BY DEF PolledByte, PollTellsTheTruth
  <1>q. QED BY <1>1, <1>2, <1>3, EepromAlwaysTyped, PTL DEF At28c256Spec

-----------------------------------------------------------------------------
(* All that a program, a peripheral or the clock does to the VIA, once the  *)
(* callbacks have been delivered.                                          *)
ViaStep ==
  \/ \E p \in Side, v \in SUBSET Pin : WriteDdr(p, v) \/ WriteData(p, v)
  \/ \E l \in [Side -> BOOLEAN], m, b \in BOOLEAN : WriteAcr(l, m, b)
  \/ ReadDataA \/ ReadDataB \/ ReadT1CL
  \/ \E p \in Side, mask, v \in SUBSET Pin : WritePort(p, mask, v) /\ UNCHANGED event
  \/ \E p \in Side, b \in BOOLEAN : WriteC1(p, b) \/ WriteC2(p, b)
  \/ \E c1 \in [Side -> BOOLEAN], c2 \in [Side -> C2Ctrl] : WritePcr(c1, c2)
  \/ \E f \in SUBSET Flag : WriteIfr(f)
  \/ \E v \in 0 .. Half - 1 : WriteT1Low(v) \/ WriteT1LH(v) \/ WriteT1CH(v)
  \/ \E s \in BOOLEAN, f \in SUBSET Flag : WriteIer(s, f)
  \/ Posedge \/ Negedge
  \/ UNCHANGED via

(* What is kept, variable by variable.                                      *)
PortsTyped   == /\ ir \in [Side -> SUBSET Pin] /\ or \in [Side -> SUBSET Pin]
                /\ ddr \in [Side -> SUBSET Pin] /\ pin_in \in [Side -> SUBSET Pin]
LinesTyped   == /\ c1_in \in [Side -> BOOLEAN] /\ c2_in \in [Side -> BOOLEAN]
                /\ c2_out \in [Side -> BOOLEAN]
ControlTyped == /\ latch \in [Side -> BOOLEAN] /\ t1_mode \in BOOLEAN /\ t1_pb7 \in BOOLEAN
                /\ c1_ctrl \in [Side -> BOOLEAN] /\ c2_ctrl \in [Side -> C2Ctrl]
                /\ ier \in SUBSET Flag
FlagsTyped   == ifr \in SUBSET Flag /\ vote \in BOOLEAN
TimerTyped   == /\ t1l \in 0 .. Full /\ t1c \in 0 .. Full
                /\ t1pb7 \in BOOLEAN /\ armed \in BOOLEAN /\ write_pend \in BOOLEAN
PendingTyped == /\ trig \in [Side -> BOOLEAN] /\ pulse \in [Side -> BOOLEAN]
                /\ read_trig \in BOOLEAN /\ read_pulse \in BOOLEAN
EventTyped   == event \in SUBSET {"PORTA", "PORTB", "CTRL"}

ViaTyped == /\ PortsTyped /\ LinesTyped /\ ControlTyped /\ FlagsTyped
            /\ TimerTyped /\ PendingTyped /\ EventTyped

Typed == ViaTyped /\ side \in Side /\ heard \in [Side -> SUBSET Pin]

-----------------------------------------------------------------------------
(* The latch of the timer, in two halves.                                   *)
LEMMA Remainders ==
  ASSUME NEW n \in Nat \ {0}
  PROVE  /\ \A x \in 0 .. n - 1 : x % n = x
         /\ (0 - 1) % n = n - 1
         /\ \A x \in Nat : x % n \in 0 .. n - 1 /\ x \div n \in Nat
  OBVIOUS

LEMMA Halves ==
  /\ Half \in Nat \ {0} /\ Full \in Nat /\ Full + 1 = Half * Half
  /\ \A h, l \in 0 .. Half - 1 : h * Half + l \in 0 .. Full
  <1>1. Half \in Nat \ {0}
    BY ViaAssumption
  <1>2. Half * Half \in Nat /\ Half * Half >= 1
    BY <1>1
  <1>3. ASSUME NEW h \in 0 .. Half - 1, NEW l \in 0 .. Half - 1
        PROVE  h * Half + l \in 0 .. Full
    <2>1. h * Half \in Nat /\ h * Half <= (Half - 1) * Half
      BY <1>1
    <2>2. (Half - 1) * Half = Half * Half - Half
      BY <1>1
    <2>q. QED BY <1>1, <1>2, <2>1, <2>2 DEF Full
  <1>q. QED BY <1>1, <1>2, <1>3 DEF Full

LEMMA LatchesFit ==
  ASSUME t1l \in 0 .. Full, NEW val \in 0 .. Half - 1
  PROVE  WithLow(val) \in 0 .. Full /\ WithHigh(val) \in 0 .. Full
  <1>1. t1l % Half \in 0 .. Half - 1
    BY Halves
  <1>2. t1l \div Half \in 0 .. Half - 1
    <2>1. t1l \in Nat /\ t1l < Half * Half
      BY Halves
    <2>q. QED BY <2>1, Halves
  <1>q. QED BY <1>1, <1>2, Halves DEF WithLow, WithHigh

LEMMA CountsFit ==
  ASSUME t1l \in 0 .. Full, t1c \in 0 .. Full
  PROVE  /\ T1Counts \in 0 .. Full
         /\ T1Counts = IF t1c = Full THEN t1l ELSE IF t1c = 0 THEN Full ELSE t1c - 1
  <1>1. Full + 1 \in Nat \ {0} /\ (Full + 1) - 1 = Full
    BY Halves
  <1>2. CASE t1c = Full
    BY <1>2 DEF T1Counts
  <1>3. CASE t1c # Full /\ t1c = 0
    <2>1. (t1c - 1) % (Full + 1) = Full
      BY <1>1, <1>3, Remainders
    <2>q. QED BY <2>1, <1>1, <1>3, Halves DEF T1Counts
  <1>4. CASE t1c # Full /\ t1c # 0
    <2>1. t1c - 1 \in 0 .. (Full + 1) - 1
      BY <1>4, Halves
    <2>2. (t1c - 1) % (Full + 1) = t1c - 1
      BY <2>1, <1>1, Remainders
    <2>q. QED BY <2>1, <2>2, <1>4, Halves DEF T1Counts
  <1>q. QED BY <1>2, <1>3, <1>4

-----------------------------------------------------------------------------
(* The flags and the events.                                                *)
LEMMA FlagsKept ==
  ASSUME FlagsTyped, NEW bits \in SUBSET Flag,
         via_set_ifr(bits) \/ via_clear_ifr(bits)
  PROVE  FlagsTyped'
  BY DEF FlagsTyped, via_set_ifr, via_clear_ifr

LEMMA FlagNames ==
  ASSUME NEW p \in Side
  PROVE  {C1(p)} \in SUBSET Flag /\ {C2(p)} \in SUBSET Flag /\ {C1(p)} \cup {C2(p)} \in SUBSET Flag
  BY DEF Side, C1, C2, Flag

LEMMA EventNames ==
  ASSUME NEW p \in Side
  PROVE  /\ Port(p) \in {"PORTA", "PORTB", "CTRL"}
         /\ \A a, b : TellsChange(a, b, p) \in SUBSET {"PORTA", "PORTB", "CTRL"}
         /\ \A a, b, c : C2Event(p, a, b, c) \in SUBSET {"PORTA", "PORTB", "CTRL"}
  BY DEF Side, Port, TellsChange, C2Event

LEMMA MergeTyped ==
  ASSUME NEW a \in SUBSET Pin, NEW b \in SUBSET Pin, NEW m
  PROVE  Merge(a, b, m) \in SUBSET Pin
  BY DEF Merge

LEMMA PinsTyped ==
  ASSUME ViaTyped, NEW p \in Side
  PROVE  ReadDataPort(p) \in SUBSET Pin
  <1>1. Merge(or[p], pin_in[p], ddr[p]) \in SUBSET Pin
    BY MergeTyped DEF ViaTyped, PortsTyped
  <1>q. QED BY <1>1, ViaAssumption DEF ReadDataPort

-----------------------------------------------------------------------------
(* The operations keep the types.                                           *)
LEMMA WritesTyped ==
  ASSUME ViaTyped, NEW p \in Side, NEW v \in SUBSET Pin, WriteDdr(p, v) \/ WriteData(p, v)
  PROVE  ViaTyped'
  <1>0. PortsTyped /\ PendingTyped /\ FlagsTyped
    BY DEF ViaTyped
  <1>1. CASE WriteDdr(p, v)
    <2>1. UNCHANGED <<LinesTyped, ControlTyped, FlagsTyped, TimerTyped, PendingTyped>>
      BY <1>1 DEF WriteDdr, lines, control, flags, timer, pends,
                  LinesTyped, ControlTyped, FlagsTyped, TimerTyped, PendingTyped
    <2>2. Merge(pin_in[p], ir[p], ddr[p] \ v) \in SUBSET Pin
      BY <1>0, MergeTyped DEF PortsTyped
    <2>3. PortsTyped'
      BY <1>0, <1>1, <2>2 DEF WriteDdr, PortsTyped
    <2>4. EventTyped'
      BY <1>1, EventNames DEF WriteDdr, EventTyped
    <2>q. QED BY <2>1, <2>3, <2>4 DEF ViaTyped
  <1>2. CASE WriteData(p, v)
    <2>1. UNCHANGED <<LinesTyped, ControlTyped, TimerTyped>>
      BY <1>2 DEF WriteData, lines, control, timer, LinesTyped, ControlTyped, TimerTyped
    <2>2. PortsTyped'
      BY <1>0, <1>2 DEF WriteData, PortsTyped
    <2>3. PendingTyped'
      BY <1>0, <1>2 DEF WriteData, PendingTyped, via_is_handshake_output
    <2>4. {C1(p)} \cup (IF via_is_independent_int(p) THEN {C2(p)} ELSE {}) \in SUBSET Flag
      BY FlagNames
    <2>5. FlagsTyped'
      BY <1>0, <1>2, <2>4, FlagsKept DEF WriteData
    <2>6. EventTyped'
      BY <1>2, EventNames DEF WriteData, EventTyped
    <2>q. QED BY <2>1, <2>2, <2>3, <2>5, <2>6 DEF ViaTyped
  <1>q. QED BY <1>1, <1>2

LEMMA ReadsTyped ==
  ASSUME ViaTyped, ReadDataA \/ ReadDataB \/ ReadT1CL
  PROVE  ViaTyped'
  <1>0. LinesTyped /\ PendingTyped /\ FlagsTyped /\ EventTyped
    BY DEF ViaTyped
  <1>1. {"CA1"} \in SUBSET Flag /\ {"CB1"} \in SUBSET Flag /\ {"T1"} \in SUBSET Flag
    BY DEF Flag
  <1>2. CASE ReadDataA
    <2>1. UNCHANGED <<PortsTyped, ControlTyped, TimerTyped>>
      BY <1>2 DEF ReadDataA, ports, control, timer, PortsTyped, ControlTyped, TimerTyped
    <2>2. FlagsTyped'
      BY <1>0, <1>1, <1>2, FlagsKept DEF ReadDataA
    <2>3. LinesTyped' /\ PendingTyped'
      BY <1>0, <1>2 DEF ReadDataA, LinesTyped, PendingTyped, Side
    <2>4. EventTyped'
      BY <1>0, <1>2 DEF ReadDataA, EventTyped
    <2>q. QED BY <2>1, <2>2, <2>3, <2>4 DEF ViaTyped
  <1>3. CASE ReadDataB \/ ReadT1CL
    <2>1. UNCHANGED <<PortsTyped, LinesTyped, ControlTyped, TimerTyped, PendingTyped, EventTyped>>
      BY <1>3 DEF ReadDataB, ReadT1CL, ports, lines, control, timer, pends,
                  PortsTyped, LinesTyped, ControlTyped, TimerTyped, PendingTyped, EventTyped
    <2>2. FlagsTyped'
      BY <1>0, <1>1, <1>3, FlagsKept DEF ReadDataB, ReadT1CL
    <2>q. QED BY <1>0, <2>1, <2>2 DEF ViaTyped
  <1>q. QED BY <1>2, <1>3

LEMMA PinsKeepTypes ==
  ASSUME ViaTyped,
         \/ \E p \in Side, mask, v \in SUBSET Pin : WritePort(p, mask, v) /\ EventTyped'
         \/ \E p \in Side, b \in BOOLEAN : WriteC1(p, b) \/ WriteC2(p, b)
  PROVE  ViaTyped'
  <1>0. PortsTyped /\ LinesTyped /\ FlagsTyped /\ EventTyped
    BY DEF ViaTyped
  <1>1. ASSUME NEW p \in Side, NEW mask \in SUBSET Pin, NEW v \in SUBSET Pin,
               WritePort(p, mask, v), EventTyped'
        PROVE  ViaTyped'
    <2>1. UNCHANGED <<LinesTyped, ControlTyped, FlagsTyped, TimerTyped, PendingTyped>>
      BY <1>1 DEF WritePort, lines, control, flags, timer, pends,
                  LinesTyped, ControlTyped, FlagsTyped, TimerTyped, PendingTyped
    <2>2. Merge(v, pin_in[p], mask) \in SUBSET Pin
      BY <1>0, MergeTyped DEF PortsTyped
    <2>3. PortsTyped'
      BY <1>0, <1>1, <2>2 DEF WritePort, PortsTyped
    <2>q. QED BY <1>1, <2>1, <2>3 DEF ViaTyped
  <1>2. ASSUME NEW p \in Side, NEW b \in BOOLEAN, WriteC1(p, b)
        PROVE  ViaTyped'
    <2>1. UNCHANGED <<ControlTyped, TimerTyped, PendingTyped>>
      BY <1>2 DEF WriteC1, control, timer, pends, ControlTyped, TimerTyped, PendingTyped
    <2>2. CASE C1Edge(p)
      <3>1. FlagsTyped'
        BY <1>0, <2>2, FlagNames, FlagsKept DEF C1Edge
      <3>2. PortsTyped'
        BY <1>0, <1>2, <2>2 DEF WriteC1, C1Edge, PortsTyped
      <3>3. LinesTyped'
        BY <1>0, <1>2, <2>2 DEF WriteC1, C1Edge, LinesTyped
      <3>4. EventTyped'
        BY <1>0, <2>2 DEF C1Edge, C2Event, EventTyped
      <3>q. QED BY <2>1, <3>1, <3>2, <3>3, <3>4 DEF ViaTyped
    <2>3. CASE UNCHANGED <<ir, flags, c2_out, event>>
      <3>1. FlagsTyped' /\ EventTyped'
        BY <1>0, <2>3 DEF flags, FlagsTyped, EventTyped
      <3>2. PortsTyped'
        BY <1>0, <1>2, <2>3 DEF WriteC1, PortsTyped
      <3>3. LinesTyped'
        BY <1>0, <1>2, <2>3 DEF WriteC1, LinesTyped
      <3>q. QED BY <2>1, <3>1, <3>2, <3>3 DEF ViaTyped
    <2>q. QED BY <1>2, <2>2, <2>3 DEF WriteC1
  <1>3. ASSUME NEW p \in Side, NEW b \in BOOLEAN, WriteC2(p, b)
        PROVE  ViaTyped'
    <2>1. UNCHANGED <<PortsTyped, ControlTyped, FlagsTyped, TimerTyped, PendingTyped, EventTyped>>
      BY <1>3 DEF WriteC2, ports, control, flags, timer, pends,
                  PortsTyped, ControlTyped, FlagsTyped, TimerTyped, PendingTyped, EventTyped
    <2>2. LinesTyped'
      BY <1>0, <1>3 DEF WriteC2, LinesTyped
    <2>q. QED BY <1>0, <2>1, <2>2 DEF ViaTyped
  <1>q. QED BY <1>1, <1>2, <1>3

LEMMA ControlsTyped ==
  ASSUME ViaTyped,
         \/ \E l \in [Side -> BOOLEAN], m, b \in BOOLEAN : WriteAcr(l, m, b)
         \/ \E c1 \in [Side -> BOOLEAN], c2 \in [Side -> C2Ctrl] : WritePcr(c1, c2)
         \/ \E f \in SUBSET Flag : WriteIfr(f)
         \/ \E s \in BOOLEAN, f \in SUBSET Flag : WriteIer(s, f)
  PROVE  ViaTyped'
  <1>0. LinesTyped /\ ControlTyped /\ FlagsTyped /\ EventTyped
    BY DEF ViaTyped
  <1>1. ASSUME NEW l \in [Side -> BOOLEAN], NEW m \in BOOLEAN, NEW b \in BOOLEAN, WriteAcr(l, m, b)
        PROVE  ViaTyped'
    <2>1. UNCHANGED <<PortsTyped, LinesTyped, FlagsTyped, TimerTyped, PendingTyped>>
      BY <1>1 DEF WriteAcr, ports, lines, flags, timer, pends,
                  PortsTyped, LinesTyped, FlagsTyped, TimerTyped, PendingTyped
    <2>2. ControlTyped' /\ EventTyped'
      BY <1>0, <1>1 DEF WriteAcr, ControlTyped, EventTyped
    <2>q. QED BY <2>1, <2>2 DEF ViaTyped
  <1>2. ASSUME NEW c1 \in [Side -> BOOLEAN], NEW c2 \in [Side -> C2Ctrl], WritePcr(c1, c2)
        PROVE  ViaTyped'
    <2>1. UNCHANGED <<PortsTyped, FlagsTyped, TimerTyped, PendingTyped>>
      BY <1>2 DEF WritePcr, ports, flags, timer, pends,
                  PortsTyped, FlagsTyped, TimerTyped, PendingTyped
    <2>2. ControlTyped'
      BY <1>0, <1>2 DEF WritePcr, ControlTyped
    <2>3. LinesTyped'
      BY <1>0, <1>2 DEF WritePcr, LinesTyped
    <2>4. EventTyped'
      BY <1>2 DEF WritePcr, C2Event, EventTyped
    <2>q. QED BY <2>1, <2>2, <2>3, <2>4 DEF ViaTyped
  <1>3. ASSUME NEW f \in SUBSET Flag, WriteIfr(f)
        PROVE  ViaTyped'
    <2>1. UNCHANGED <<PortsTyped, LinesTyped, ControlTyped, TimerTyped, PendingTyped, EventTyped>>
      BY <1>3 DEF WriteIfr, ports, lines, control, timer, pends,
                  PortsTyped, LinesTyped, ControlTyped, TimerTyped, PendingTyped, EventTyped
    <2>2. FlagsTyped'
      BY <1>0, <1>3, FlagsKept DEF WriteIfr
    <2>q. QED BY <1>0, <2>1, <2>2 DEF ViaTyped
  <1>4. ASSUME NEW s \in BOOLEAN, NEW f \in SUBSET Flag, WriteIer(s, f)
        PROVE  ViaTyped'
    <2>1. UNCHANGED <<PortsTyped, LinesTyped, FlagsTyped, TimerTyped, PendingTyped, EventTyped>>
      BY <1>4 DEF WriteIer, ports, lines, flags, timer, pends,
                  PortsTyped, LinesTyped, FlagsTyped, TimerTyped, PendingTyped, EventTyped
    <2>2. ControlTyped'
      BY <1>0, <1>4 DEF WriteIer, ControlTyped
    <2>q. QED BY <1>0, <2>1, <2>2 DEF ViaTyped
  <1>q. QED BY <1>1, <1>2, <1>3, <1>4

LEMMA LatchesTyped ==
  ASSUME ViaTyped, NEW val \in 0 .. Half - 1, WriteT1Low(val) \/ WriteT1LH(val) \/ WriteT1CH(val)
  PROVE  ViaTyped'
  <1>0. TimerTyped /\ FlagsTyped /\ EventTyped
    BY DEF ViaTyped
  <1>1. UNCHANGED <<PortsTyped, LinesTyped, ControlTyped, PendingTyped>>
    BY DEF WriteT1Low, WriteT1LH, WriteT1CH, ports, lines, control, pends,
           PortsTyped, LinesTyped, ControlTyped, PendingTyped
  <1>2. WithLow(val) \in 0 .. Full /\ WithHigh(val) \in 0 .. Full
    BY <1>0, LatchesFit DEF TimerTyped
  <1>3. {"T1"} \in SUBSET Flag
    BY DEF Flag
  <1>4. FlagsTyped'
    <2>1. CASE WriteT1Low(val)
      BY <1>0, <2>1 DEF WriteT1Low, flags, FlagsTyped
    <2>2. CASE WriteT1LH(val) \/ WriteT1CH(val)
      BY <1>0, <1>3, <2>2, FlagsKept DEF WriteT1LH, WriteT1CH
    <2>q. QED BY <2>1, <2>2
  <1>5. TimerTyped'
    BY <1>0, <1>2 DEF WriteT1Low, WriteT1LH, WriteT1CH, TimerTyped
  <1>6. EventTyped'
    BY <1>0 DEF WriteT1Low, WriteT1LH, WriteT1CH, EventTyped
  <1>q. QED BY <1>1, <1>4, <1>5, <1>6 DEF ViaTyped

LEMMA EdgesTyped ==
  ASSUME ViaTyped, Posedge \/ Negedge
  PROVE  ViaTyped'
  <1>0. LinesTyped /\ TimerTyped /\ ControlTyped /\ PendingTyped /\ FlagsTyped /\ EventTyped
    BY DEF ViaTyped
  <1>1. UNCHANGED <<PortsTyped, ControlTyped>>
    BY DEF Posedge, Negedge, ports, control, PortsTyped, ControlTyped
  <1>2. CASE Posedge
    <2>1. LinesTyped'
      BY <1>0, <1>2 DEF Posedge, C2Pulses, LinesTyped
    <2>2. PendingTyped'
      BY <1>0, <1>2 DEF Posedge, C2Pulses, PulsesBegun, PendingTyped
    <2>3. {"T1"} \in SUBSET Flag
      BY DEF Flag
    <2>4. FlagsTyped'
      BY <1>0, <1>2, <2>3, FlagsKept DEF Posedge, flags, FlagsTyped
    <2>5. TimerTyped'
      BY <1>0, <1>2 DEF Posedge, TimerTyped, ControlTyped
    <2>6. C2PulseEvents \in SUBSET {"PORTA", "PORTB", "CTRL"}
      BY EventNames DEF C2PulseEvents
    <2>7. EventTyped'
      BY <1>2, <2>6 DEF Posedge, EventTyped
    <2>q. QED BY <1>0, <1>1, <2>1, <2>2, <2>4, <2>5, <2>7 DEF ViaTyped
  <1>3. CASE Negedge
    <2>1. LinesTyped'
      BY <1>0, <1>3 DEF Negedge, ReadPulseEnds, LinesTyped
    <2>2. PendingTyped'
      BY <1>0, <1>3 DEF Negedge, PendingTyped
    <2>3. FlagsTyped'
      BY <1>0, <1>3 DEF Negedge, flags, FlagsTyped
    <2>4. T1Counts \in 0 .. Full
      BY <1>0, CountsFit DEF TimerTyped
    <2>5. TimerTyped'
      BY <1>0, <1>3, <2>4 DEF Negedge, TimerTyped
    <2>6. EventTyped'
      BY <1>3, EventNames DEF Negedge, EventTyped, Side
    <2>q. QED BY <1>0, <1>1, <2>1, <2>2, <2>3, <2>5, <2>6 DEF ViaTyped
  <1>q. QED BY <1>2, <1>3

LEMMA StandingTyped ==
  ASSUME ViaTyped, UNCHANGED via
  PROVE  ViaTyped'
  <1>1. UNCHANGED <<ports, lines, control, flags, timer, pends, event>>
    BY DEF via
  <1>2. UNCHANGED <<PortsTyped, LinesTyped, ControlTyped, FlagsTyped, TimerTyped, PendingTyped, EventTyped>>
    BY <1>1 DEF ports, lines, control, flags, timer, pends, PortsTyped, LinesTyped,
                ControlTyped, FlagsTyped, TimerTyped, PendingTyped, EventTyped
  <1>q. QED BY <1>2 DEF ViaTyped

LEMMA StepsTyped ==
  ASSUME ViaTyped, ViaStep
  PROVE  ViaTyped'
  <1>1. EventTyped
    BY DEF ViaTyped
  <1>2. ASSUME NEW p \in Side, NEW mask \in SUBSET Pin, NEW v \in SUBSET Pin,
               WritePort(p, mask, v), UNCHANGED event
        PROVE  ViaTyped'
    <2>1. EventTyped'
      BY <1>1, <1>2 DEF EventTyped
    <2>q. QED BY <1>2, <2>1, PinsKeepTypes
  <1>q. QED BY <1>2, WritesTyped, ReadsTyped, PinsKeepTypes, ControlsTyped, LatchesTyped, EdgesTyped,
               StandingTyped DEF ViaStep

-----------------------------------------------------------------------------
(* What the programs do is what is done to the VIA.                         *)
LEMMA WiredPins == {"CLK", "MOSI", "SS"} \subseteq Pin /\ {"MISO", "DETECT"} \subseteq Pin /\ PB7 \in Pin
  BY BitbangSpiAssumption, ViaAssumption DEF Inputs

LEMMA PinsSteps ==
  ASSUME Typed, PinsNext
  PROVE  Calm /\ ViaStep /\ UNCHANGED <<heard, side>>
  <1>1. Calm /\ UNCHANGED <<heard, side>> /\ side \in Side
    BY DEF PinsNext, NoMore, Typed
  <1>2. {PB7} \in SUBSET Pin /\ \A v \in Values : v \in SUBSET Pin
    BY WiredPins DEF Values
  <1>3. t1_mode \in BOOLEAN /\ t1_pb7 \in BOOLEAN
    BY DEF Typed, ViaTyped, ControlTyped
  <1>4. ViaStep
    BY <1>1, <1>2, <1>3 DEF PinsNext, ViaStep
  <1>q. QED BY <1>1, <1>4

LEMMA PulsesSteps ==
  ASSUME Typed, PulsesNext
  PROVE  Calm /\ ViaStep /\ UNCHANGED <<heard, side>>
  <1>1. Calm /\ UNCHANGED <<heard, side>> /\ side \in Side
    BY DEF PulsesNext, NoMore, Typed, Access
  <1>2. \A v \in Values : v \in SUBSET Pin
    BY WiredPins DEF Values
  <1>3. /\ \A c \in BOOLEAN : [c1_ctrl EXCEPT ![side] = c] \in [Side -> BOOLEAN]
        /\ \A c \in C2Ctrl : [c2_ctrl EXCEPT ![side] = c] \in [Side -> C2Ctrl]
    BY DEF Typed, ViaTyped, ControlTyped
  <1>4. \A f \in {{}, {"CA1", "CB1"}} : f \in SUBSET Flag
    BY DEF Flag
  <1>5. ViaStep
    BY <1>1, <1>2, <1>3, <1>4 DEF PulsesNext, ViaStep
  <1>q. QED BY <1>1, <1>5

LEMMA TimerSteps ==
  ASSUME Typed, TimerNext
  PROVE  Calm /\ ViaStep /\ UNCHANGED <<heard, side>>
  <1>1. Calm /\ UNCHANGED <<heard, side>> /\ latch \in [Side -> BOOLEAN]
    BY DEF TimerNext, NoMore, Typed, Access, ViaTyped, ControlTyped
  <1>2. {"T1"} \in SUBSET Flag
    BY DEF Flag
  <1>3. ViaStep
    BY <1>1, <1>2 DEF TimerNext, StartsTimer, ViaStep
  <1>q. QED BY <1>1, <1>3

LEMMA ShakeSteps ==
  ASSUME Typed, ShakeNext
  PROVE  Calm /\ ViaStep /\ UNCHANGED <<heard, side>>
  <1>1. Calm /\ UNCHANGED <<heard, side>>
    BY DEF ShakeNext, ShakeSetUp, ShakeLatches, ShakeShows, ShakeRaises, ShakeLowers,
           ShakeSeesTaken, ShakeReads, Shakes
  <1>2. /\ [p \in Side |-> p = "A"] \in [Side -> BOOLEAN]
        /\ [c2_ctrl EXCEPT !["A"] = "handshake"] \in [Side -> C2Ctrl]
        /\ \A l \in BOOLEAN : [latch EXCEPT !["A"] = l] \in [Side -> BOOLEAN]
        /\ t1_mode \in BOOLEAN /\ t1_pb7 \in BOOLEAN /\ "A" \in Side
    BY DEF Typed, ViaTyped, ControlTyped, C2Ctrl, Side
  <1>3. CASE ShakeShows
    <2>1. PICK v : WritePort("A", {PB7, "MISO"}, v) /\ UNCHANGED event
      BY <1>3 DEF ShakeShows
    <2>2. WritePort("A", {PB7, "MISO"}, v \cap Pin)
      <3>1. Merge(v, pin_in["A"], {PB7, "MISO"}) = Merge(v \cap Pin, pin_in["A"], {PB7, "MISO"})
        BY WiredPins DEF Merge
      <3>q. QED BY <2>1, <3>1 DEF WritePort
    <2>3. {PB7, "MISO"} \in SUBSET Pin /\ v \cap Pin \in SUBSET Pin
      BY WiredPins
    <2>q. QED BY <1>1, <1>2, <2>1, <2>2, <2>3 DEF ViaStep
  <1>4. CASE ShakeSetUp \/ ShakeLatches \/ ShakeRaises \/ ShakeLowers \/ ShakeSeesTaken \/ ShakeReads
    BY <1>1, <1>2, <1>4 DEF ShakeSetUp, ShakeLatches, ShakeRaises, ShakeLowers,
                           ShakeSeesTaken, ShakeReads, ViaStep
  <1>q. QED BY <1>3, <1>4 DEF ShakeNext

LEMMA CardSteps ==
  ASSUME Typed, CardNext
  PROVE  Calm /\ ViaStep /\ UNCHANGED <<heard, side>>
  <1>1. Calm /\ UNCHANGED <<heard, side>>
    BY DEF CardNext, CardSetUp, CardLow, CardHigh, CardReads, CardNextByte, CardReadsBlock, Cards
  <1>2. {"CLK", "MOSI", "SS"} \in SUBSET Pin /\ Lines({}) \in SUBSET Pin /\ Lines({"CLK"}) \in SUBSET Pin
    BY WiredPins DEF Lines
  <1>3. "B" \in Side
    BY DEF Side
  <1>4. ViaStep
    BY <1>1, <1>2, <1>3 DEF CardNext, CardSetUp, CardLow, CardHigh, CardReads, CardNextByte,
                            CardReadsBlock, ViaStep
  <1>q. QED BY <1>1, <1>4

LEMMA ProgramSteps ==
  ASSUME Typed, ProgramsNext
  PROVE  \/ EventsDelivered
         \/ (Calm \/ UNCHANGED via) /\ ViaStep /\ UNCHANGED <<heard, side>>
  <1>1. Clock => Calm /\ ViaStep /\ UNCHANGED <<heard, side>>
    BY DEF Clock, Falls, Rises, ViaStep
  <1>2. BytesNext => UNCHANGED via /\ ViaStep /\ UNCHANGED <<heard, side>>
    BY DEF BytesNext, ViaStep, observers
  <1>q. QED BY <1>1, <1>2, PinsSteps, PulsesSteps, TimerSteps, ShakeSteps, CardSteps DEF ProgramsNext

(* A delivery changes the pins at most, by those of the card.               *)
LEMMA DeliveryWrites ==
  ASSUME Typed, EventsDelivered
  PROVE  /\ \/ \E mask, v \in SUBSET Pin : WritePort("B", mask, v)
            \/ UNCHANGED <<ports, lines, control, flags, timer, pends>>
         /\ event' = {} /\ UNCHANGED side
         /\ \A p \in Side : heard'[p] = IF Port(p) \in event THEN ReadDataPort(p) ELSE heard[p]
         /\ heard' \in [Side -> SUBSET Pin]
  <1>1. ASSUME bitbang_portb_write(ReadDataPort("B"))
        PROVE  \E mask, v \in SUBSET Pin : WritePort("B", mask, v)
    <2>1. PICK v : v \in SUBSET Inputs /\ WritePort("B", Inputs, v)
      BY <1>1 DEF bitbang_portb_write, Outputs, Inputs
    <2>q. QED BY <2>1, WiredPins DEF Inputs
  <1>2. \A p \in Side : ReadDataPort(p) \in SUBSET Pin
    BY PinsTyped DEF Typed
  <1>q. QED BY <1>1, <1>2 DEF EventsDelivered, Typed

LEMMA ProgramsTyped ==
  ASSUME Typed, [ProgramsNext]_vars
  PROVE  Typed'
  <1>1. CASE EventsDelivered
    <2>1. EventTyped'
      BY <1>1, DeliveryWrites DEF EventTyped
    <2>2. CASE \E mask, v \in SUBSET Pin : WritePort("B", mask, v)
      BY <1>1, <2>1, <2>2, DeliveryWrites, PinsKeepTypes DEF Typed, Side
    <2>3. CASE UNCHANGED <<ports, lines, control, flags, timer, pends>>
      <3>1. UNCHANGED <<PortsTyped, LinesTyped, ControlTyped, FlagsTyped, TimerTyped, PendingTyped>>
        BY <2>3 DEF ports, lines, control, flags, timer, pends, PortsTyped, LinesTyped,
                    ControlTyped, FlagsTyped, TimerTyped, PendingTyped
      <3>q. QED BY <1>1, <2>1, <3>1, DeliveryWrites DEF Typed, ViaTyped
    <2>q. QED BY <1>1, <2>2, <2>3, DeliveryWrites
  <1>2. CASE ViaStep /\ UNCHANGED <<heard, side>>
    BY <1>2, StepsTyped DEF Typed
  <1>3. CASE UNCHANGED vars
    <2>1. UNCHANGED <<via, heard, side>>
      BY <1>3 DEF vars, observers
    <2>q. QED BY <2>1, StandingTyped DEF Typed
  <1>q. QED BY <1>1, <1>2, <1>3, ProgramSteps

LEMMA ViaInitTyped == ProgramsInit => Typed
  <1> SUFFICES ASSUME ProgramsInit
               PROVE  Typed
    OBVIOUS
  <1>1. PICK pins \in [Side -> SUBSET Pin] : ViaInit(pins)
    <2>1. NoPins \in [Side -> SUBSET Pin]
      BY DEF NoPins
    <2>2. [NoPins EXCEPT !["B"] = Outputs(FALSE, 0)] \in [Side -> SUBSET Pin]
      BY <2>1, WiredPins DEF Outputs
    <2>q. QED BY <2>1, <2>2 DEF ProgramsInit
  <1>2. PortsTyped /\ LinesTyped
    BY <1>1 DEF ViaInit, PortsTyped, LinesTyped
  <1>3. ControlTyped
    <2>1. latch \in [Side -> BOOLEAN] /\ c1_ctrl \in [Side -> BOOLEAN]
      BY <1>1 DEF ViaInit
    <2>2. c2_ctrl \in [Side -> C2Ctrl]
      BY <1>1 DEF ViaInit, C2Ctrl
    <2>3. t1_mode \in BOOLEAN /\ t1_pb7 \in BOOLEAN /\ ier \in SUBSET Flag
      BY <1>1 DEF ViaInit
    <2>q. QED BY <2>1, <2>2, <2>3 DEF ControlTyped
  <1>6. FlagsTyped /\ EventTyped
    BY <1>1 DEF ViaInit, FlagsTyped, EventTyped
  <1>7. PendingTyped
    BY <1>1 DEF ViaInit, PendingTyped
  <1>4. TimerTyped
    <2>1. 0 \in 0 .. Full
      BY Halves
    <2>2. t1l = 0 /\ t1c = 0 /\ t1pb7 \in BOOLEAN /\ armed \in BOOLEAN /\ write_pend \in BOOLEAN
      BY <1>1 DEF ViaInit
    <2>q. QED BY <2>1, <2>2 DEF TimerTyped
  <1>5. side \in Side /\ heard \in [Side -> SUBSET Pin]
    BY DEF ProgramsInit, NoPins, Side
  <1>q. QED BY <1>2, <1>3, <1>4, <1>5, <1>6, <1>7 DEF Typed, ViaTyped

LEMMA ViaAlwaysTyped == ProgramsSpec => []Typed
  BY ViaInitTyped, ProgramsTyped, PTL DEF ProgramsSpec

(* The type invariant holds.                                               *)
THEOREM ViaTyping == ProgramsSpec => []ViaTypeOK
  <1>1. Typed => ViaTypeOK
    BY DEF Typed, ViaTyped, PortsTyped, LinesTyped, ControlTyped, FlagsTyped, TimerTyped,
           PendingTyped, EventTyped, ViaTypeOK
  <1>q. QED BY <1>1, ViaAlwaysTyped, PTL

-----------------------------------------------------------------------------
(* Pulses.  PulsesEnd is inductive as it stands.                            *)
LEMMA PulseEdges ==
  ASSUME ViaTyped, PulsesEnd, Posedge \/ Negedge
  PROVE  PulsesEnd'
  <1>0. LinesTyped /\ ControlTyped /\ PendingTyped
    BY DEF ViaTyped
  <1>1. CASE Posedge
    BY <1>0, <1>1 DEF Posedge, C2Pulses, PulsesBegun, PulsesEnd, control,
                      LinesTyped, ControlTyped, PendingTyped
  <1>2. CASE Negedge
    BY <1>0, <1>2 DEF Negedge, ReadPulseEnds, PulsesEnd, control, Side,
                      LinesTyped, ControlTyped, PendingTyped
  <1>q. QED BY <1>1, <1>2

LEMMA PulseSteps ==
  ASSUME ViaTyped, PulsesEnd, ViaStep
  PROVE  PulsesEnd'
  <1>0. LinesTyped /\ ControlTyped /\ PendingTyped
    BY DEF ViaTyped
  <1>1. ASSUME NEW c1 \in [Side -> BOOLEAN], NEW c2 \in [Side -> C2Ctrl], WritePcr(c1, c2)
        PROVE  PulsesEnd'
    BY <1>0, <1>1 DEF WritePcr, PulsesEnd, IsOutput, LinesTyped, ControlTyped
  <1>2. CASE ReadDataA
    BY <1>0, <1>2 DEF ReadDataA, PulsesEnd, control, via_is_handshake_output,
                      LinesTyped, ControlTyped, PendingTyped, Side
  <1>3. ASSUME NEW p \in Side, NEW b \in BOOLEAN, WriteC1(p, b)
        PROVE  PulsesEnd'
    BY <1>0, <1>3 DEF WriteC1, C1Edge, PulsesEnd, control, pends, LinesTyped, ControlTyped
  <1>4. ASSUME UNCHANGED <<c2_ctrl, c2_out, pulse, read_pulse>>
        PROVE  PulsesEnd'
    BY <1>4 DEF PulsesEnd
  <1>5. \/ \E p \in Side, v \in SUBSET Pin : WriteDdr(p, v) \/ WriteData(p, v)
        \/ \E l \in [Side -> BOOLEAN], m, b \in BOOLEAN : WriteAcr(l, m, b)
        \/ ReadDataB \/ ReadT1CL
        => UNCHANGED <<c2_ctrl, c2_out, pulse, read_pulse>>
    BY DEF WriteDdr, WriteData, WriteAcr, ReadDataB, ReadT1CL, lines, control, pends
  <1>6. \/ \E p \in Side, mask, v \in SUBSET Pin : WritePort(p, mask, v)
        \/ \E p \in Side, b \in BOOLEAN : WriteC2(p, b)
        \/ \E f \in SUBSET Flag : WriteIfr(f)
        \/ \E s \in BOOLEAN, f \in SUBSET Flag : WriteIer(s, f)
        => UNCHANGED <<c2_ctrl, c2_out, pulse, read_pulse>>
    BY DEF WritePort, WriteC2, WriteIfr, WriteIer, lines, control, pends
  <1>7. \/ \E v \in 0 .. Half - 1 : WriteT1Low(v) \/ WriteT1LH(v) \/ WriteT1CH(v)
        \/ UNCHANGED via
        => UNCHANGED <<c2_ctrl, c2_out, pulse, read_pulse>>
    BY DEF WriteT1Low, WriteT1LH, WriteT1CH, via, lines, control, pends
  <1>q. QED BY <1>1, <1>2, <1>3, <1>4, <1>5, <1>6, <1>7, PulseEdges DEF ViaStep

(* A pulse on C2 ends, however it was begun and accesses follow each other: *)
(* via_clock_tick, via_read and via_write.                                 *)
THEOREM EveryPulseEnds == ProgramsSpec => []PulsesEnd
  <1>1. ProgramsInit => PulsesEnd
    <2>1. ASSUME NEW pins, ViaInit(pins)
          PROVE  PulsesEnd
      BY <2>1 DEF ViaInit, PulsesEnd
    <2>q. QED BY <2>1 DEF ProgramsInit
  <1>2. Typed /\ PulsesEnd /\ [ProgramsNext]_vars => PulsesEnd'
    <2> SUFFICES ASSUME Typed, PulsesEnd, [ProgramsNext]_vars
                 PROVE  PulsesEnd'
      OBVIOUS
    <2>1. CASE EventsDelivered
      <3>1. UNCHANGED <<c2_ctrl, c2_out, pulse, read_pulse>>
        BY <2>1, DeliveryWrites DEF WritePort, lines, control, pends
      <3>q. QED BY <3>1 DEF PulsesEnd
    <2>2. CASE ViaStep
      BY <2>2, PulseSteps DEF Typed
    <2>3. CASE UNCHANGED vars
      BY <2>3 DEF vars, via, lines, control, pends, PulsesEnd
    <2>q. QED BY <2>1, <2>2, <2>3, ProgramSteps
  <1>q. QED BY <1>1, <1>2, ViaAlwaysTyped, PTL DEF ProgramsSpec

-----------------------------------------------------------------------------
(* Listeners.  What a port drives is what was heard of it, or they are      *)
(* about to be told.                                                       *)
Heard(p) == heard[p] \cap Driven(p) = ReadDataPort(p) \cap Driven(p)
ToldOf   == \A p \in Side : Port(p) \in event \/ Heard(p)

(* Nothing that is driven on the port changes.                              *)
DrivesOn(p) ==
  /\ UNCHANGED <<or[p], ddr[p]>>
  /\ p = "A" \/ (UNCHANGED t1_pb7 /\ (t1_pb7 => UNCHANGED t1pb7))

LEMMA DrivenStays ==
  ASSUME NEW p \in Side, DrivesOn(p), Heard(p), UNCHANGED heard[p]
  PROVE  Heard(p)'
  <1>1. Driven(p)' = Driven(p)
    BY DEF Driven, DrivesOn
  <1>2. ReadDataPort(p)' \cap Driven(p) = ReadDataPort(p) \cap Driven(p)
    <2>1. CASE p = "A"
      BY <2>1 DEF ReadDataPort, Merge, Driven, DrivesOn
    <2>2. CASE p # "A"
      BY <2>2 DEF ReadDataPort, Merge, Driven, DrivesOn
    <2>q. QED BY <2>1, <2>2
  <1>q. QED BY <1>1, <1>2 DEF Heard

LEMMA PortsDiffer == Port("A") = "PORTA" /\ Port("B") = "PORTB" /\ Side = {"A", "B"}
  BY DEF Port, Side

LEMMA ChangesAreTold ==
  ASSUME ViaTyped, ViaStep, NEW p \in Side
  PROVE  Port(p) \in event' \/ DrivesOn(p)
  <1>0. PortsTyped
    BY DEF ViaTyped
  <1>1. ASSUME NEW q \in Side, NEW v \in SUBSET Pin, WriteDdr(q, v) \/ WriteData(q, v)
        PROVE  Port(p) \in event' \/ DrivesOn(p)
    <2>1. UNCHANGED <<t1_pb7, t1pb7>>
      BY <1>1 DEF WriteDdr, WriteData, control, timer
    <2>2. CASE p = q
      BY <1>0, <1>1, <2>1, <2>2 DEF WriteDdr, WriteData, TellsChange, DrivesOn, PortsTyped
    <2>3. CASE p # q
      BY <1>0, <1>1, <2>1, <2>3 DEF WriteDdr, WriteData, DrivesOn, PortsTyped
    <2>q. QED BY <2>2, <2>3
  <1>2. ASSUME NEW l \in [Side -> BOOLEAN], NEW m \in BOOLEAN, NEW b \in BOOLEAN, WriteAcr(l, m, b)
        PROVE  Port(p) \in event' \/ DrivesOn(p)
    BY <1>2, PortsDiffer DEF WriteAcr, ports, timer, DrivesOn
  <1>3. ASSUME NEW v \in 0 .. Half - 1, WriteT1CH(v)
        PROVE  Port(p) \in event' \/ DrivesOn(p)
    BY <1>3, PortsDiffer DEF WriteT1CH, ports, control, DrivesOn
  <1>4. CASE Posedge
    BY <1>4, PortsDiffer DEF Posedge, ports, control, DrivesOn
  <1>5. ASSUME UNCHANGED <<or, ddr, t1_pb7, t1pb7>>
        PROVE  DrivesOn(p)
    BY <1>5 DEF DrivesOn
  <1>6. \/ ReadDataA \/ ReadDataB \/ ReadT1CL \/ Negedge \/ UNCHANGED via
        \/ \E q \in Side, mask, v \in SUBSET Pin : WritePort(q, mask, v)
        => UNCHANGED <<or, ddr, t1_pb7, t1pb7>>
    BY DEF ReadDataA, ReadDataB, ReadT1CL, Negedge, WritePort, via, ports, control, timer
  <1>7. \/ \E q \in Side, b \in BOOLEAN : WriteC1(q, b) \/ WriteC2(q, b)
        \/ \E c1 \in [Side -> BOOLEAN], c2 \in [Side -> C2Ctrl] : WritePcr(c1, c2)
        => UNCHANGED <<or, ddr, t1_pb7, t1pb7>>
    BY DEF WriteC1, WriteC2, WritePcr, ports, control, timer
  <1>8. \/ \E f \in SUBSET Flag : WriteIfr(f)
        \/ \E v \in 0 .. Half - 1 : WriteT1Low(v) \/ WriteT1LH(v)
        \/ \E s \in BOOLEAN, f \in SUBSET Flag : WriteIer(s, f)
        => UNCHANGED <<or, ddr, t1_pb7, t1pb7>>
    BY DEF WriteIfr, WriteT1Low, WriteT1LH, WriteIer, ports, control, timer
  <1>q. QED BY <1>1, <1>2, <1>3, <1>4, <1>5, <1>6, <1>7, <1>8 DEF ViaStep

(* Who listens knows what the VIA drives: the calls of via_make_callbacks   *)
(* in via_write and the clock's edges.                                     *)
THEOREM ListenersAreTold == ProgramsSpec => []ListenersKnow
  <1>1. ProgramsInit => ToldOf
    <2> SUFFICES ASSUME ProgramsInit, NEW p \in Side
                 PROVE  Heard(p)
      BY DEF ToldOf
    <2>1. PICK pins : ViaInit(pins)
      BY DEF ProgramsInit
    <2>2. ddr[p] = {} /\ t1_pb7 = FALSE
      BY <2>1 DEF ViaInit
    <2>3. Driven(p) = {}
      BY <2>2 DEF Driven
    <2>q. QED BY <2>3 DEF Heard
  <1>2. Typed /\ ToldOf /\ [ProgramsNext]_vars => ToldOf'
    <2> SUFFICES ASSUME Typed, ToldOf, [ProgramsNext]_vars, NEW p \in Side
                 PROVE  (Port(p) \in event \/ Heard(p))'
      BY DEF ToldOf
    <2>1. CASE EventsDelivered
      <3>1. DrivesOn(p)
        BY <2>1, DeliveryWrites DEF WritePort, ports, control, timer, DrivesOn
      <3>2. CASE Port(p) \in event
        <4>1. heard'[p] = ReadDataPort(p)
          BY <2>1, <3>2, DeliveryWrites
        <4>2. Driven(p)' = Driven(p)
          BY <3>1 DEF Driven, DrivesOn
        <4>3. ReadDataPort(p)' \cap Driven(p) = ReadDataPort(p) \cap Driven(p)
          <5>1. CASE p = "A"
            BY <3>1, <5>1 DEF ReadDataPort, Merge, Driven, DrivesOn
          <5>2. CASE p # "A"
            BY <3>1, <5>2 DEF ReadDataPort, Merge, Driven, DrivesOn
          <5>q. QED BY <5>1, <5>2
        <4>q. QED BY <4>1, <4>2, <4>3 DEF Heard
      <3>3. CASE Port(p) \notin event
        BY <2>1, <3>1, <3>3, DeliveryWrites, DrivenStays DEF ToldOf
      <3>q. QED BY <3>2, <3>3
    <2>2. CASE Calm /\ ViaStep /\ UNCHANGED <<heard, side>>
      <3>1. Heard(p)
        BY <2>2 DEF ToldOf, Calm
      <3>q. QED BY <2>2, <3>1, ChangesAreTold, DrivenStays DEF Typed
    <2>3. CASE UNCHANGED <<via, heard>>
      <3>1. DrivesOn(p) /\ UNCHANGED <<event, heard>>
        BY <2>3 DEF via, ports, control, timer, DrivesOn
      <3>q. QED BY <3>1, DrivenStays DEF ToldOf
    <2>q. QED BY <2>1, <2>2, <2>3, ProgramSteps DEF vars, observers
  <1>3. ToldOf => ListenersKnow
    BY DEF ToldOf, Heard, ListenersKnow, Calm
  <1>q. QED BY <1>1, <1>2, <1>3, ViaAlwaysTyped, PTL DEF ProgramsSpec

-----------------------------------------------------------------------------
(* Timer 1.  While it is armed, the count is what is left of the latch that *)
(* it runs for, or the end has just been seen and the latch is loaded next. *)
(* "left" is right before the rising edge, and one more before the falling. *)
CountsToRise ==
  \/ span = Full /\ since = 0 /\ t1c = Full
  \/ span # Full /\ since <= span /\ t1c = span - since
  \/ span # Full /\ since = span + 1 /\ t1c = Full

CountsToFall ==
  \/ since = 0 /\ t1c = Full
  \/ span # Full /\ since \in 1 .. span + 1 /\ t1c = span - since + 1

Counting ==
  /\ edge \in {"access", "fall", "rise"}
  /\ span \in 0 .. Full /\ since \in Nat
  /\ ~read_pulse
  /\ edge = "rise" => event = {} /\ ~write_pend
  /\ write_pend => edge = "fall" /\ since = 0 /\ t1c = span
  /\ armed /\ edge = "rise" => CountsToRise
  /\ armed /\ edge # "rise" /\ ~write_pend => CountsToFall

LEMMA TimerNexts ==
  ASSUME program = "timer", ProgramsNext
  PROVE  EventsDelivered \/ Falls \/ Rises \/ TimerNext
  BY DEF ProgramsNext, Clock, PinsNext, PulsesNext, ShakeNext, ShakeSetUp, ShakeLatches,
         ShakeShows, ShakeRaises, ShakeLowers, ShakeSeesTaken, ShakeReads, Shakes, CardNext,
         CardSetUp, CardLow, CardHigh, CardReads, CardNextByte, CardReadsBlock, Cards, BytesNext

LEMMA ProgramStays ==
  ASSUME [ProgramsNext]_vars
  PROVE  program' = program
  <1>1. EventsDelivered \/ Clock \/ PinsNext \/ PulsesNext \/ TimerNext \/ BytesNext
        => program' = program
    BY DEF EventsDelivered, Clock, Falls, Rises, PinsNext, PulsesNext, TimerNext, NoMore, BytesNext
  <1>2. ShakeNext => program' = program
    BY DEF ShakeNext, ShakeSetUp, ShakeLatches, ShakeShows, ShakeRaises, ShakeLowers,
           ShakeSeesTaken, ShakeReads, Shakes
  <1>3. CardNext => program' = program
    BY DEF CardNext, CardSetUp, CardLow, CardHigh, CardReads, CardNextByte, CardReadsBlock, Cards
  <1>q. QED BY <1>1, <1>2, <1>3 DEF ProgramsNext, vars

LEMMA FallCounts ==
  ASSUME Typed, Counting, Falls
  PROVE  Counting'
  <1>0. /\ t1l \in 0 .. Full /\ t1c \in 0 .. Full /\ Full \in Nat /\ armed \in BOOLEAN
        /\ c2_out \in [Side -> BOOLEAN]
    BY Halves DEF Typed, ViaTyped, TimerTyped, LinesTyped
  <1>1. /\ edge # "rise" /\ edge' = "rise" /\ ~write_pend' /\ UNCHANGED <<armed, since>>
        /\ t1c' = IF write_pend THEN t1c ELSE T1Counts
        /\ span' = IF t1c = Full /\ ~write_pend THEN t1l ELSE span
    BY DEF Falls, Negedge
  <1>2. event' = {} /\ ~read_pulse'
    BY <1>0 DEF Falls, Negedge, ReadPulseEnds, C2Event, Counting, Side
  <1>3. T1Counts = IF t1c = Full THEN t1l ELSE IF t1c = 0 THEN Full ELSE t1c - 1
    BY <1>0, CountsFit
  <1>4. armed => CountsToRise'
    <2>1. CASE write_pend
      BY <1>0, <1>1, <2>1 DEF Counting, CountsToRise
    <2>2. CASE armed /\ ~write_pend
      <3>1. CountsToFall /\ span \in Nat /\ since \in Nat /\ span <= Full
        BY <1>0, <1>1, <2>2 DEF Counting
      <3>4. t1c' = T1Counts /\ span' = IF t1c = Full THEN t1l ELSE span
        BY <1>1, <2>2
      <3>2. CASE since = 0 /\ t1c = Full
        BY <1>0, <1>1, <1>3, <3>2, <3>4 DEF CountsToRise
      <3>3. CASE span # Full /\ since \in 1 .. span + 1 /\ t1c = span - since + 1
        <4>1. t1c # Full /\ span' = span /\ since' = since
          BY <1>0, <1>1, <3>1, <3>3, <3>4
        <4>2. t1c' = IF since = span + 1 THEN Full ELSE span - since
          BY <1>0, <1>3, <3>1, <3>3, <3>4, <4>1
        <4>q. QED BY <3>1, <3>3, <4>1, <4>2 DEF CountsToRise
      <3>q. QED BY <3>1, <3>2, <3>3 DEF CountsToFall
    <2>q. QED BY <2>1, <2>2
  <1>5. span' \in 0 .. Full /\ since' \in Nat
    BY <1>0, <1>1 DEF Counting
  <1>q. QED BY <1>1, <1>2, <1>4, <1>5 DEF Counting

LEMMA RiseCounts ==
  ASSUME Typed, Counting, Rises
  PROVE  /\ Counting'
         /\ armed /\ span # Full => (t1pb7' # t1pb7 <=> since = span + 1)
  <1>0. t1c \in 0 .. Full /\ Full \in Nat /\ armed \in BOOLEAN /\ t1pb7 \in BOOLEAN
    BY Halves DEF Typed, ViaTyped, TimerTyped
  <1>1. /\ edge = "rise" /\ edge' = "access" /\ UNCHANGED <<span, t1c, write_pend, read_pulse>>
        /\ since' = IF t1pb7' # t1pb7 THEN 0 ELSE IF since <= Full THEN since + 1 ELSE since
    BY DEF Rises, Posedge
  <1>2. /\ Expires => t1pb7' # t1pb7
        /\ ~Expires => UNCHANGED <<t1pb7, armed>>
    BY <1>0 DEF Rises, Posedge
  <1>3. span \in 0 .. Full /\ since \in Nat /\ ~write_pend /\ ~read_pulse
        /\ (armed => CountsToRise)
    BY <1>1 DEF Counting
  <1>4. CASE Expires
    <2>1. t1c = Full /\ armed /\ since' = 0 /\ t1pb7' # t1pb7
      BY <1>1, <1>2, <1>4 DEF Expires
    <2>2. span # Full => since = span + 1
      BY <1>0, <1>3, <2>1 DEF CountsToRise
    <2>3. CountsToFall'
      BY <1>1, <2>1 DEF CountsToFall
    <2>q. QED BY <1>1, <1>3, <2>1, <2>2, <2>3 DEF Counting
  <1>5. CASE ~Expires
    <2>1. UNCHANGED <<t1pb7, armed>> /\ since' = IF since <= Full THEN since + 1 ELSE since
      BY <1>1, <1>2, <1>5
    <2>2. armed => span # Full /\ since <= span /\ t1c = span - since
      BY <1>3, <1>5 DEF Expires, CountsToRise
    <2>3. armed => CountsToFall'
      <3>1. armed => since' = since + 1 /\ since' \in 1 .. span + 1
        BY <1>0, <1>3, <2>1, <2>2
      <3>2. armed => t1c' = span' - since' + 1 /\ span' # Full /\ since' \in 1 .. span' + 1
        BY <1>1, <1>3, <2>2, <3>1
      <3>q. QED BY <3>2 DEF CountsToFall
    <2>4. armed => since # span + 1
      BY <1>3, <2>2
    <2>5. since' \in Nat
      BY <1>3, <2>1
    <2>q. QED BY <1>1, <1>3, <2>1, <2>3, <2>4, <2>5 DEF Counting
  <1>q. QED BY <1>4, <1>5

LEMMA AccessCounts ==
  ASSUME Typed, Counting, TimerNext
  PROVE  Counting'
  <1>0. t1l \in 0 .. Full
    BY DEF Typed, ViaTyped, TimerTyped
  <1>1. edge = "access" /\ edge' = "fall" /\ ~write_pend
    BY DEF TimerNext, Access, Counting
  <1>2. ASSUME NEW val \in 0 .. Half - 1, StartsTimer(val)
        PROVE  Counting'
    <2>1. /\ t1c' = span' /\ span' = WithHigh(val) /\ since' = 0 /\ write_pend'
          /\ UNCHANGED read_pulse
      BY <1>2 DEF StartsTimer, WriteT1CH, pends
    <2>2. WithHigh(val) \in 0 .. Full
      BY <1>0, LatchesFit
    <2>q. QED BY <1>1, <2>1, <2>2 DEF Counting
  <1>3. CASE UNCHANGED <<span, since, t1c, armed, write_pend, read_pulse>>
    BY <1>1, <1>3 DEF Counting, CountsToFall
  <1>4. \/ \E val \in 0 .. Half - 1 : WriteT1Low(val) \/ WriteT1LH(val)
        \/ \E mode, pb7 \in BOOLEAN : WriteAcr(latch, mode, pb7)
        \/ \E set \in BOOLEAN : WriteIer(set, {"T1"})
        \/ WriteIfr({"T1"}) \/ ReadT1CL
        => UNCHANGED <<t1c, armed, write_pend, read_pulse>>
    BY DEF WriteT1Low, WriteT1LH, WriteAcr, WriteIer, WriteIfr, ReadT1CL, timer, pends
  <1>q. QED BY <1>2, <1>3, <1>4 DEF TimerNext

LEMMA AlwaysCounting == ProgramsSpec => [](program = "timer" => Counting)
  <1> DEFINE I == program = "timer" => Counting
  <1>1. ProgramsInit => I
    <2>1. ASSUME ProgramsInit PROVE Counting
      <3>1. PICK pins : ViaInit(pins)
        BY <2>1 DEF ProgramsInit
      <3>2. ~read_pulse /\ ~write_pend /\ ~armed
        BY <3>1 DEF ViaInit
      <3>3. edge = "access" /\ span = 0 /\ since = 0
        BY <2>1 DEF ProgramsInit
      <3>q. QED BY <3>2, <3>3, Halves DEF Counting
    <2>q. QED BY <2>1
  <1>2. Typed /\ I /\ [ProgramsNext]_vars => I'
    <2> SUFFICES ASSUME Typed, Counting, program = "timer", [ProgramsNext]_vars
                 PROVE  Counting'
      BY ProgramStays
    <2>1. CASE EventsDelivered
      <3>1. event' = {} /\ UNCHANGED <<edge, span, since, t1c, armed, write_pend, read_pulse>>
        BY <2>1 DEF EventsDelivered, timer, pends
      <3>q. QED BY <3>1 DEF Counting, CountsToFall, CountsToRise
    <2>2. CASE UNCHANGED vars
      <3>1. UNCHANGED <<event, edge, span, since, t1c, armed, write_pend, read_pulse>>
        BY <2>2 DEF vars, via, observers, timer, pends
      <3>q. QED BY <3>1 DEF Counting, CountsToFall, CountsToRise
    <2>q. QED BY <2>1, <2>2, TimerNexts, FallCounts, RiseCounts, AccessCounts
  <1> HIDE DEF I
  <1>3. ProgramsSpec => []I
    BY <1>1, <1>2, ViaAlwaysTyped, PTL DEF ProgramsSpec
  <1>q. QED BY <1>3 DEF I

(* Timer 1 runs out N + 2 edges after a start or an end, and never else:    *)
(* via_clock_tick with the counter of its two edges, via_write of T1CH.     *)
THEOREM TimerIsOnTime == ProgramsSpec => TimerOnTime
  <1> DEFINE I == program = "timer" => Counting
             Step == program = "timer" /\ edge = "rise" /\ armed /\ span # Full
                     => (t1pb7' # t1pb7 <=> since = span + 1)
  <1>1. Typed /\ I /\ [ProgramsNext]_vars => [Step]_vars
    <2> SUFFICES ASSUME Typed, Counting, ProgramsNext, program = "timer", edge = "rise", armed,
                        span # Full
                 PROVE  t1pb7' # t1pb7 <=> since = span + 1
      OBVIOUS
    <2>1. ~EventsDelivered /\ ~Falls /\ ~TimerNext
      BY DEF EventsDelivered, Calm, Falls, TimerNext, Access, Counting
    <2>q. QED BY <2>1, TimerNexts, RiseCounts
  <1> HIDE DEF Step
  <1>2. ProgramsSpec => [][Step]_vars
    BY <1>1, ViaAlwaysTyped, AlwaysCounting, PTL DEF ProgramsSpec
  <1>q. QED BY <1>2 DEF Step, TimerOnTime

-----------------------------------------------------------------------------
(* The handshake.  The peripheral, the flag CA1 and the line CA2 agree on   *)
(* whether the byte that is shown has been read.                            *)
Wires == {PB7, "MISO"}

Agreed ==
  /\ ddr["A"] = {} /\ pin_in["A"] \subseteq Wires /\ shown \in 0 .. 3
  /\ fresh \in BOOLEAN /\ (fresh <=> "CA1" \in ifr)
  /\ peer \in {"start", "shows", "raises", "lowers", "waits"}
  /\ peer # "start" => c1_ctrl["A"] = TRUE /\ c2_ctrl["A"] = "handshake"
  /\ c1_in["A"] = (peer = "lowers")
  /\ peer \in {"start", "shows", "raises"} => fresh = FALSE
  /\ peer \in {"lowers", "waits"} => c2_out["A"] = fresh
  /\ peer = "raises" => pin_in["A"] = Bytes[shown] /\ (latch["A"] = FALSE => ir["A"] = Bytes[shown])
  /\ fresh = TRUE => ir["A"] = Bytes[shown]

(* What Agreed is about.                                                    *)
shaken == <<ddr, pin_in, shown, fresh, ifr, peer, c1_ctrl, c2_ctrl, c1_in, c2_out, latch, ir>>

LEMMA BytesOnWires == \A n \in 1 .. 3 : Bytes[n] \subseteq Wires
  BY DEF Bytes, Wires

LEMMA ShakeNexts ==
  ASSUME program = "shake", ProgramsNext
  PROVE  EventsDelivered \/ ShakeNext
  BY DEF ProgramsNext, Clock, PinsNext, PulsesNext, TimerNext, CardNext, CardSetUp, CardLow,
         CardHigh, CardReads, CardNextByte, CardReadsBlock, Cards, BytesNext

LEMMA SetUpAgrees ==
  ASSUME Typed, Agreed, ShakeSetUp \/ ShakeLatches
  PROVE  Agreed'
  <1>0. ControlTyped
    BY DEF Typed, ViaTyped
  <1>1. CASE ShakeSetUp
    <2>1. /\ peer = "start" /\ peer' = "shows"
          /\ UNCHANGED <<ddr, pin_in, shown, fresh, ifr, c1_in>>
      BY <1>1 DEF ShakeSetUp, Shakes, WritePcr, ports, flags
    <2>2. c1_ctrl'["A"] = TRUE /\ c2_ctrl'["A"] = "handshake"
      BY <1>0, <1>1 DEF ShakeSetUp, WritePcr, ControlTyped, Side
    <2>q. QED BY <2>1, <2>2 DEF Agreed
  <1>2. CASE ShakeLatches
    <2>1. /\ peer = "start"
          /\ UNCHANGED <<ddr, pin_in, shown, fresh, ifr, peer, c1_ctrl, c2_ctrl, c1_in, c2_out, ir>>
      BY <1>2 DEF ShakeLatches, Shakes, WriteAcr, ports, lines, flags
    <2>q. QED BY <2>1 DEF Agreed
  <1>q. QED BY <1>1, <1>2

LEMMA ShowAgrees ==
  ASSUME Typed, Agreed, ShakeShows
  PROVE  Agreed'
  <1>0. PortsTyped /\ latch["A"] \in BOOLEAN
    BY DEF Typed, ViaTyped, ControlTyped, Side
  <1>1. /\ peer = "shows" /\ peer' = "raises" /\ shown' = (shown % 3) + 1
        /\ UNCHANGED <<ddr, fresh, ifr, c1_ctrl, c2_ctrl, c1_in, c2_out, latch>>
    BY DEF ShakeShows, WritePort, lines, control, flags
  <1>2. shown' \in 1 .. 3 /\ shown' \in 0 .. 3
    BY <1>1 DEF Agreed
  <1>3. Merge(Bytes[shown'], pin_in["A"], Wires) = Bytes[shown']
    BY <1>2, BytesOnWires DEF Merge, Agreed
  <1>4. pin_in'["A"] = Bytes[shown'] /\ (latch["A"] = FALSE => ir'["A"] = Bytes[shown'])
    BY <1>0, <1>3 DEF ShakeShows, WritePort, PortsTyped, Side, Wires
  <1>5. fresh = FALSE /\ fresh' = FALSE
    BY <1>1 DEF Agreed
  <1>6. pin_in'["A"] \subseteq Wires
    BY <1>2, <1>4, BytesOnWires
  <1>q. QED BY <1>1, <1>2, <1>4, <1>5, <1>6 DEF Agreed

LEMMA RaiseAgrees ==
  ASSUME Typed, Agreed, ShakeRaises
  PROVE  Agreed'
  <1>0. /\ PortsTyped /\ LinesTyped /\ latch["A"] \in BOOLEAN
        /\ C1("A") = "CA1"
    BY DEF Typed, ViaTyped, ControlTyped, Side, C1
  <1>1. /\ peer = "raises" /\ peer' = "lowers" /\ fresh' = TRUE
        /\ UNCHANGED <<ddr, pin_in, shown, c1_ctrl, c2_ctrl, latch>>
    BY DEF ShakeRaises, WriteC1, control
  <1>2. c1_ctrl["A"] = TRUE /\ c2_ctrl["A"] = "handshake"
    BY <1>1 DEF Agreed
  <1>3. C1Edge("A") /\ c1_in'["A"] = TRUE
    BY <1>0, <1>2 DEF ShakeRaises, WriteC1, LinesTyped, Side
  <1>4. ifr' = ifr \cup {"CA1"} /\ c2_out'["A"] = TRUE
    BY <1>0, <1>2, <1>3 DEF C1Edge, via_set_ifr, LinesTyped, Side
  <1>5. ir'["A"] = Bytes[shown]
    BY <1>0, <1>1, <1>3 DEF C1Edge, PortsTyped, Side, Agreed
  <1>q. QED BY <1>1, <1>2, <1>3, <1>4, <1>5 DEF Agreed

LEMMA LowerAgrees ==
  ASSUME Typed, Agreed, ShakeLowers
  PROVE  Agreed'
  <1>1. /\ peer = "lowers" /\ peer' = "waits"
        /\ UNCHANGED <<ddr, pin_in, shown, fresh, c1_ctrl, c2_ctrl, latch>>
    BY DEF ShakeLowers, WriteC1, control
  <1>2. c1_ctrl["A"] = TRUE
    BY <1>1 DEF Agreed
  <1>3. UNCHANGED <<ir, ifr, c2_out>> /\ c1_in'["A"] = FALSE
    BY <1>2 DEF ShakeLowers, WriteC1, flags, Typed, ViaTyped, LinesTyped, Side
  <1>q. QED BY <1>1, <1>3 DEF Agreed

LEMMA TakenIsSeen ==
  ASSUME Agreed, ShakeSeesTaken
  PROVE  Agreed'
  <1>1. peer = "waits" /\ peer' = "shows" /\ ~via_read_ctrl("CA2")
    BY DEF ShakeSeesTaken
  <1>2. UNCHANGED <<ddr, pin_in, shown, fresh, ifr, c1_ctrl, c2_ctrl, c1_in, c2_out, latch, ir>>
    BY DEF ShakeSeesTaken, via, ports, lines, control, flags
  <1>3. via_read_ctrl("CA2") = c2_out["A"]
    <2>1. (CHOOSE q \in Side : "CA2" \in {C1(q), C2(q)}) = "A"
      BY DEF Side, C1, C2
    <2>2. c2_ctrl["A"] = "handshake"
      BY <1>1 DEF Agreed
    <2>q. QED BY <2>1, <2>2 DEF via_read_ctrl, IsOutput, C1
  <1>4. fresh = FALSE
    BY <1>1, <1>3 DEF Agreed
  <1>q. QED BY <1>1, <1>2, <1>4 DEF Agreed

LEMMA ReadAgrees ==
  ASSUME Typed, Agreed, ShakeReads
  PROVE  Agreed' /\ fresh = TRUE /\ PortReadsAs("A") = Bytes[shown]
  <1>1. /\ "CA1" \in ifr /\ ifr' = ifr \ {"CA1"} /\ fresh' = FALSE
        /\ UNCHANGED <<ddr, pin_in, shown, peer, c1_ctrl, c2_ctrl, c1_in, latch, ir>>
    BY DEF ShakeReads, ReadDataA, via_clear_ifr, ports, control
  <1>2. fresh = TRUE /\ ir["A"] = Bytes[shown] /\ peer \in {"lowers", "waits"}
    BY <1>1 DEF Agreed
  <1>3. c2_out'["A"] = FALSE
    BY <1>2 DEF ShakeReads, ReadDataA, via_is_handshake_output, Agreed, Typed, ViaTyped,
               LinesTyped, Side
  <1>4. Agreed'
    BY <1>1, <1>2, <1>3 DEF Agreed
  <1>5. PortReadsAs("A") = Bytes[shown]
    BY <1>2 DEF PortReadsAs, Merge, Agreed
  <1>q. QED BY <1>2, <1>4, <1>5

LEMMA StandingAgrees ==
  ASSUME Agreed, UNCHANGED shaken
  PROVE  Agreed'
  BY DEF Agreed, shaken

LEMMA AlwaysAgreed == ProgramsSpec => [](program = "shake" => Agreed)
  <1> DEFINE I == program = "shake" => Agreed
  <1>1. ProgramsInit => I
    <2> SUFFICES ASSUME ProgramsInit, program = "shake"
                 PROVE  Agreed
      OBVIOUS
    <2>1. ViaInit(NoPins)
      BY DEF ProgramsInit
    <2>2. pin_in["A"] = {} /\ ddr["A"] = {} /\ c1_in["A"] = FALSE /\ ifr = {}
      BY <2>1 DEF ViaInit, NoPins, Side
    <2>3. peer = "start" /\ fresh = FALSE /\ shown = 0
      BY DEF ProgramsInit
    <2>4. fresh \in BOOLEAN /\ (fresh <=> "CA1" \in ifr) /\ shown \in 0 .. 3
      <3>1. "CA1" \notin ifr
        BY <2>2
      <3>2. ~fresh /\ fresh \in BOOLEAN
        BY <2>3
      <3>3. shown \in 0 .. 3
        BY <2>3
      <3>q. QED BY <3>1, <3>2, <3>3
    <2>5. c1_in["A"] = (peer = "lowers")
      BY <2>2, <2>3
    <2>q. QED BY <2>2, <2>3, <2>4, <2>5 DEF Agreed
  <1>2. Typed /\ I /\ [ProgramsNext]_vars => I'
    <2> SUFFICES ASSUME Typed, Agreed, program = "shake", [ProgramsNext]_vars
                 PROVE  Agreed'
      BY ProgramStays
    <2>1. CASE EventsDelivered
      <3>1. UNCHANGED <<ports, lines, control, flags, fresh, shown, peer>>
        BY <2>1 DEF EventsDelivered
      <3>2. UNCHANGED shaken
        BY <3>1 DEF ports, lines, control, flags, shaken
      <3>q. QED BY <3>2, StandingAgrees
    <2>2. CASE UNCHANGED vars
      <3>1. UNCHANGED shaken
        BY <2>2 DEF vars, via, observers, ports, lines, control, flags, shaken
      <3>q. QED BY <3>1, StandingAgrees
    <2>3. CASE ShakeNext
      BY <2>3, SetUpAgrees, ShowAgrees, RaiseAgrees, LowerAgrees, TakenIsSeen, ReadAgrees
      DEF ShakeNext
    <2>q. QED BY <2>1, <2>2, <2>3, ShakeNexts
  <1> HIDE DEF I
  <1>3. ProgramsSpec => []I
    BY <1>1, <1>2, ViaAlwaysTyped, PTL DEF ProgramsSpec
  <1>q. QED BY <1>3 DEF I

(* No byte is lost or read twice: via_read of DATAA, via_write_ctrl, and    *)
(* the latch.                                                              *)
THEOREM HandshakeIsKept == ProgramsSpec => HandshakeDelivers
  <1> DEFINE I == program = "shake" => Agreed
             Step == /\ ShakeRaises => ~fresh
                     /\ ShakeReads => fresh /\ PortReadsAs("A") = Bytes[shown]
  <1>1. Typed /\ I /\ [ProgramsNext]_vars => [Step]_vars
    <2> SUFFICES ASSUME Typed, I
                 PROVE  Step
      OBVIOUS
    <2>1. ASSUME ShakeRaises PROVE ~fresh
      BY <2>1 DEF ShakeRaises, Shakes, Agreed
    <2>2. ASSUME ShakeReads PROVE fresh /\ PortReadsAs("A") = Bytes[shown]
      <3>1. Agreed
        BY <2>2 DEF ShakeReads, Shakes
      <3>q. QED BY <2>2, <3>1, ReadAgrees
    <2>q. QED BY <2>1, <2>2
  <1> HIDE DEF Step
  <1>2. ProgramsSpec => [][Step]_vars
    BY <1>1, ViaAlwaysTyped, AlwaysAgreed, PTL DEF ProgramsSpec
  <1>q. QED BY <1>2 DEF Step, HandshakeDelivers

-----------------------------------------------------------------------------
(* The SD card, for whatever bytes a master sends and fetches.  The type    *)
(* as the steps need it: a card that is not ready has not had its sixth     *)
(* ACMD41, and bytes are numbers.                                           *)
CardTyped ==
  /\ SdCardTypeOK
  /\ cmd_buf \in Seq(Nat) /\ rsp_buf \in Seq(Nat)
  /\ card_state # "READY" => acmd41_cnt < 6
  /\ spi_out \in Nat

LEMMA SectorsFit ==
  /\ SectorSize \in Nat /\ SectorSize > 0
  /\ \A b \in DOMAIN Image : Len(Image[b]) = SectorSize
  BY SdCardAssumption

LEMMA CardFetches ==
  ASSUME CardTyped, sdcard_spi_get
  PROVE  SdCardTypeOK' /\ cmd_buf' \in Seq(Nat) /\ rsp_buf' \in Seq(Nat)
         /\ (card_state' # "READY" => acmd41_cnt' < 6)
  <1>1. CASE UNCHANGED card
    BY <1>1 DEF card, CardTyped, SdCardTypeOK
  <1>2. CASE Fetch /\ UNCHANGED <<card_state, cmd_buf, acmd41_cnt, sector_buf>>
    <2>1. /\ cmd_state' \in {"IDLE", "CMD", "R1", "R7", "R1_DATA", "DATA_START_TOKEN", "DATA", "CRC1", "CRC2"}
          /\ block_cnt' \in 0 .. SectorSize /\ (cmd_state' = "DATA" => block_cnt' < SectorSize)
      <3>1. CASE cmd_state = "DATA"
        <4>1. cmd_state' = (IF BlockEnds THEN "CRC1" ELSE "DATA") /\ block_cnt' = block_cnt + 1
          BY <1>2, <3>1 DEF Fetch, Answer
        <4>2. block_cnt \in Nat /\ block_cnt < SectorSize
          BY <3>1, SectorsFit DEF CardTyped, SdCardTypeOK
        <4>q. QED BY <4>1, <4>2, SectorsFit DEF BlockEnds
      <3>2. CASE cmd_state = "DATA_START_TOKEN"
        <4>1. cmd_state' = "DATA" /\ block_cnt' = 0
          BY <1>2, <3>2 DEF Fetch, Answer
        <4>q. QED BY <4>1, SectorsFit
      <3>3. CASE cmd_state \notin {"DATA", "DATA_START_TOKEN"}
        <4>1. /\ cmd_state' \in {cmd_state, "IDLE", "R7", "DATA_START_TOKEN", "CRC2"}
              /\ block_cnt' = block_cnt
          BY <1>2, <3>3 DEF Fetch, Answer
        <4>q. QED BY <3>3, <4>1 DEF CardTyped, SdCardTypeOK
      <3>q. QED BY <3>1, <3>2, <3>3
    <2>2. rsp_buf' \in Seq(Nat) /\ Len(rsp_buf') <= 4
      <3>1. rsp_buf' = rsp_buf \/ (rsp_buf # <<>> /\ rsp_buf' = Tail(rsp_buf))
        <4>1. CASE cmd_state = "R7"
          BY <1>2, <4>1 DEF Fetch, Answer
        <4>2. CASE cmd_state # "R7"
          BY <1>2, <4>2 DEF Fetch, Answer
        <4>q. QED BY <4>1, <4>2
      <3>2. rsp_buf \in Seq(Nat) /\ Len(rsp_buf) <= 4
        BY DEF CardTyped, SdCardTypeOK
      <3>3. ASSUME rsp_buf # <<>>
            PROVE  Tail(rsp_buf) \in Seq(Nat) /\ Len(Tail(rsp_buf)) = Len(rsp_buf) - 1
        BY <3>2, <3>3
      <3>4. Len(rsp_buf) \in Nat
        BY <3>2
      <3>q. QED BY <3>1, <3>2, <3>3, <3>4
    <2>q. QED BY <1>2, <2>1, <2>2 DEF CardTyped, SdCardTypeOK
  <1>q. QED BY <1>1, <1>2 DEF sdcard_spi_get

LEMMA CardObeys ==
  ASSUME CardTyped, NEW cmd \in Seq(Nat), Len(cmd) = 6, Command(cmd)
  PROVE  /\ card_state' \in {"SD_MODE", "INIT", "READY"}
         /\ cmd_state' \in {"CMD", "R1", "R7", "R1_DATA"}
         /\ rsp_buf' \in Seq(Nat) /\ Len(rsp_buf') <= 4
         /\ Len(sector_buf') = SectorSize
         /\ acmd41_cnt' \in 0 .. 6 /\ (card_state' # "READY" => acmd41_cnt' < 6)
  <1>1. /\ rsp_buf \in Seq(Nat) /\ Len(rsp_buf) <= 4 /\ Len(sector_buf) = SectorSize
        /\ card_state \in {"SD_MODE", "INIT", "READY"} /\ acmd41_cnt \in 0 .. 6
        /\ (card_state # "READY" => acmd41_cnt < 6)
    BY DEF CardTyped, SdCardTypeOK
  <1>2. SubSeq(cmd, 2, 5) \in Seq(Nat) /\ Len(SubSeq(cmd, 2, 5)) = 4
    <2>0. ASSUME NEW i \in 2 .. 5 PROVE cmd[i] \in Nat
      <3>1. cmd \in Seq(Nat) /\ i \in 1 .. Len(cmd)
        OBVIOUS
      <3>q. QED BY <3>1, ElementOfSeq
    <2>1. /\ SubSeq(cmd, 2, 5) \in Seq(Nat)
          /\ Len(SubSeq(cmd, 2, 5)) = IF 2 <= 5 THEN 5 - 2 + 1 ELSE 0
      BY <2>0, SubSeqProperties
    <2>q. QED BY <2>1
  <1>3. CASE Acmd(cmd)
    <2>1. UNCHANGED <<rsp_buf, sector_buf>>
      BY <1>3 DEF Acmd
    <2>2. cmd_state' \in {"CMD", "R1"}
      BY <1>3 DEF Acmd, Answer
    <2>3. \/ UNCHANGED <<card_state, acmd41_cnt>>
          \/ /\ card_state = "INIT" /\ acmd41_cnt' = acmd41_cnt + 1
             /\ card_state' = IF acmd41_cnt' = 6 THEN "READY" ELSE card_state
      BY <1>3 DEF Acmd
    <2>4. /\ card_state' \in {"SD_MODE", "INIT", "READY"} /\ acmd41_cnt' \in 0 .. 6
          /\ (card_state' # "READY" => acmd41_cnt' < 6)
      BY <1>1, <2>3
    <2>q. QED BY <1>1, <2>1, <2>2, <2>4
  <1>4. CASE CmdSdMode(cmd) /\ UNCHANGED acmd41_cnt
    BY <1>1, <1>4 DEF CmdSdMode, Answer
  <1>5. CASE CmdInit(cmd) /\ UNCHANGED acmd41_cnt
    <2>1. /\ cmd_state' \in {"CMD", "R1", "R7"} /\ rsp_buf' \in {rsp_buf, SubSeq(cmd, 2, 5)}
          /\ UNCHANGED <<card_state, sector_buf, acmd41_cnt>>
      <3>1. \/ cmd_state' = "R7" /\ rsp_buf' = SubSeq(cmd, 2, 5)
            \/ cmd_state' = "R1" /\ rsp_buf' = rsp_buf
            \/ cmd_state' = "CMD" /\ rsp_buf' = rsp_buf
        BY <1>5, Zenon DEF CmdInit, Answer
      <3>2. UNCHANGED <<card_state, sector_buf, acmd41_cnt>>
        BY <1>5 DEF CmdInit
      <3>q. QED BY <3>1, <3>2
    <2>2. rsp_buf' \in Seq(Nat) /\ Len(rsp_buf') <= 4
      <3>1. CASE rsp_buf' = rsp_buf
        BY <1>1, <3>1
      <3>2. CASE rsp_buf' = SubSeq(cmd, 2, 5)
        <4> DEFINE s == SubSeq(cmd, 2, 5)
        <4>1. s \in Seq(Nat) /\ Len(s) = 4 /\ rsp_buf' = s
          BY <1>2, <3>2
        <4> HIDE DEF s
        <4>2. Len(rsp_buf') = Len(s) /\ 4 <= 4
          BY <4>1
        <4>3. Len(rsp_buf') <= 4
          BY <4>1, <4>2
        <4>4. rsp_buf' \in Seq(Nat)
          BY <4>1
        <4>q. QED BY <4>3, <4>4
      <3>q. QED BY <2>1, <3>1, <3>2
    <2>q. QED BY <1>1, <2>1, <2>2
  <1>6. CASE CmdReady(cmd) /\ UNCHANGED acmd41_cnt
    <2>1. \A b : Len(Sector(b)) = SectorSize
      BY <1>1, SectorsFit DEF Sector
    <2>2. Len(sector_buf') = SectorSize
      BY <1>1, <1>6, <2>1, SectorsFit DEF CmdReady, Answer
    <2>q. QED BY <1>1, <1>6, <2>2 DEF CmdReady, Answer
  <1>q. QED BY <1>3, <1>4, <1>5, <1>6 DEF Command

LEMMA CardTakes ==
  ASSUME CardTyped, NEW byte \in Nat, sdcard_spi_write(byte)
  PROVE  SdCardTypeOK' /\ cmd_buf' \in Seq(Nat) /\ rsp_buf' \in Seq(Nat)
         /\ (card_state' # "READY" => acmd41_cnt' < 6)
  <1>1. CASE UNCHANGED card
    BY <1>1 DEF card, CardTyped, SdCardTypeOK
  <1>2. CASE Takes(byte) /\ ~(UNCHANGED card)
    <2> DEFINE cmd == Append(cmd_buf, byte)
    <2>1. cmd_buf \in Seq(Nat) /\ Len(cmd_buf) < 6
      BY DEF CardTyped, SdCardTypeOK
    <2>2. cmd \in Seq(Nat) /\ Len(cmd) = Len(cmd_buf) + 1 /\ Len(cmd) \in Nat
      BY <2>1
    <2>3. block_cnt' = block_cnt
      BY <1>2 DEF sdcard_spi_write
    <2>4. CASE /\ Len(cmd) < 6 /\ cmd_buf' = cmd /\ cmd_state' = "CMD"
               /\ UNCHANGED <<card_state, rsp_buf, acmd41_cnt, sector_buf>>
      BY <2>2, <2>3, <2>4 DEF CardTyped, SdCardTypeOK
    <2>5. CASE ~(Len(cmd) < 6) /\ cmd_buf' = <<>> /\ Command(cmd)
      <3>1. Len(cmd) = 6
        BY <2>1, <2>2, <2>5
      <3> HIDE DEF cmd
      <3>2. cmd_buf' \in Seq(Nat) /\ Len(cmd_buf') < 6
        BY <2>5
      <3>3. /\ card_state' \in {"SD_MODE", "INIT", "READY"}
            /\ cmd_state' \in {"CMD", "R1", "R7", "R1_DATA"}
            /\ rsp_buf' \in Seq(Nat) /\ Len(rsp_buf') <= 4
            /\ Len(sector_buf') = SectorSize
            /\ acmd41_cnt' \in 0 .. 6 /\ (card_state' # "READY" => acmd41_cnt' < 6)
        BY <2>2, <2>5, <3>1, CardObeys
      <3>4. block_cnt' \in 0 .. SectorSize
        BY <2>3 DEF CardTyped, SdCardTypeOK
      <3>q. QED BY <3>2, <3>3, <3>4 DEF SdCardTypeOK
    <2>6. \/ /\ Len(cmd) < 6 /\ cmd_buf' = cmd /\ cmd_state' = "CMD"
             /\ UNCHANGED <<card_state, rsp_buf, acmd41_cnt, sector_buf>>
          \/ ~(Len(cmd) < 6) /\ cmd_buf' = <<>> /\ Command(cmd)
      BY <1>2 DEF sdcard_spi_write
    <2>q. QED BY <2>4, <2>5, <2>6
  <1>q. QED BY <1>1, <1>2 DEF sdcard_spi_write

LEMMA ShiftsNumbers ==
  ASSUME spi_out \in Nat, NEW data
  PROVE  Shifted(data) \in Nat
  BY DEF Shifted

LEMMA CardKeepsTypes ==
  ASSUME CardTyped, [ProgramsNext]_vars
  PROVE  CardTyped'
  <1>1. CASE UNCHANGED <<card, spi>>
    <2>1. spi_out' = spi_out
      BY <1>1 DEF spi
    <2>q. QED BY <1>1, <2>1 DEF card, CardTyped, SdCardTypeOK
  <1>2. ASSUME NEW data, bitbang_portb_write(data)
        PROVE  CardTyped'
    <2>1. \/ UNCHANGED <<spi_out, card>>
          \/ /\ spi_out' = 0 \/ spi_out' = Shifted(data)
             /\ (UNCHANGED card) \/ sdcard_spi_get \/ sdcard_spi_write(Shifted(data))
      BY <1>2 DEF bitbang_portb_write, RisingEdge
    <2>2. spi_out' \in Nat /\ Shifted(data) \in Nat
      BY <2>1, ShiftsNumbers DEF CardTyped
    <2>3. (UNCHANGED card) \/ sdcard_spi_get \/ sdcard_spi_write(Shifted(data))
      BY <2>1
    <2>4. CASE UNCHANGED card
      BY <2>2, <2>4 DEF card, CardTyped, SdCardTypeOK
    <2>5. CASE sdcard_spi_get \/ sdcard_spi_write(Shifted(data))
      BY <2>2, <2>5, CardFetches, CardTakes DEF CardTyped
    <2>q. QED BY <2>3, <2>4, <2>5
  <1>3. CASE EventsDelivered
    BY <1>1, <1>2, <1>3 DEF EventsDelivered
  <1>4. CASE BytesNext
    <2>1. spi_out' \in Nat
      BY <1>4 DEF BytesNext, CardTyped
    <2>2. \A byte \in Firsts \cup {0, 1} : byte \in Nat
      BY DEF Firsts, CMD0, CMD8, CMD17, CMD55, ACMD41
    <2>3. sdcard_spi_get \/ \E byte \in Nat : sdcard_spi_write(byte)
      BY <1>4, <2>2 DEF BytesNext
    <2>q. QED BY <2>1, <2>3, CardFetches, CardTakes DEF CardTyped
  <1>5. CASE Clock \/ PinsNext \/ PulsesNext \/ TimerNext
    <2>1. UNCHANGED <<card, spi>>
      BY <1>5 DEF Clock, Falls, Rises, PinsNext, PulsesNext, TimerNext, NoMore
    <2>q. QED BY <1>1, <2>1
  <1>6. CASE ShakeNext \/ CardNext
    <2>1. UNCHANGED <<card, spi>>
      BY <1>6 DEF ShakeNext, ShakeSetUp, ShakeLatches, ShakeShows, ShakeRaises, ShakeLowers,
                  ShakeSeesTaken, ShakeReads, Shakes, CardNext, CardSetUp, CardLow, CardHigh,
                  CardReads, CardNextByte, CardReadsBlock, Cards
    <2>q. QED BY <1>1, <2>1
  <1>7. CASE UNCHANGED vars
    BY <1>1, <1>7 DEF vars
  <1>q. QED BY <1>3, <1>4, <1>5, <1>6, <1>7 DEF ProgramsNext

(* Whatever a program sends over the pins, or another master: no command is *)
(* longer than cmd_buf, no answer longer than rsp_buf, and no byte is       *)
(* fetched from behind the sector; the count of ACMD41 stops when the card *)
(* is ready.                                                               *)
THEOREM CardTyping == ProgramsSpec => []SdCardTypeOK
  <1>1. ProgramsInit => CardTyped
    <2> SUFFICES ASSUME ProgramsInit PROVE CardTyped
      OBVIOUS
    <2>1. sdcard_init /\ spi_out = 0
      BY DEF ProgramsInit, bitbang_spi_init
    <2>2. Len(sector_buf) = SectorSize
      <3>1. \A n \in Nat : Len([i \in 1 .. n |-> 0]) = n
        OBVIOUS
      <3>q. QED BY <2>1, <3>1, SectorsFit DEF sdcard_init
    <2>3. <<>> \in Seq(Nat) /\ Len(<<>>) = 0
      OBVIOUS
    <2>q. QED BY <2>1, <2>2, <2>3, SectorsFit DEF sdcard_init, CardTyped, SdCardTypeOK
  <1>2. CardTyped => SdCardTypeOK
    BY DEF CardTyped
  <1>q. QED BY <1>1, <1>2, CardKeepsTypes, PTL DEF ProgramsSpec
================================================================================
