------------------------------- MODULE At28c256 --------------------------------
(***************************************************************************)
(* The AT28C256 EEPROM, io/at28c256/src/at28c256.c: page writes that end   *)
(* by timeouts, software data protection (SDP) that is opened by a          *)
(* sequence of key writes, and reads that tell a program whether a write    *)
(* goes on.                                                                *)
(*                                                                         *)
(* Time comes in ticks of any length in Nanos, unrelated to the accesses.   *)
(* A program writes what it wants, or writes one byte and polls it.  The    *)
(* bus's peek is that of a debugger, and comes at any moment.               *)
(***************************************************************************)
EXTENDS Integers, Sequences

CONSTANTS
  BusAddr,          \* the addresses that are accessed, on the bus
  Base,             \* the base address that the device is registered with
  DataByte,         \* what a program writes that is not a key
  T_BLC, T_WC,      \* byte load and write cycle times, in units of time
  Nanos,            \* the lengths of ticks
  LoadSizes         \* the sizes of the images that are loaded

IMAGE_SIZE == 32768
PAGE_SIZE  == 64
IMAGE_FILL == 255

Octet == 0 .. 255
Word  == 0 .. 65535

ASSUME At28c256Assumption ==
  /\ BusAddr \subseteq Word /\ Base \in Word
  /\ DataByte \subseteq Octet
  /\ T_BLC \in Nat \ {0} /\ T_WC \in Nat \ {0} /\ Nanos \subseteq Nat \ {0}
  /\ LoadSizes \subseteq Word

VARIABLES
  write_state, sdp_state,
  enabled,              \* FLAG_SDP_ENABLED
  writes_enabled,       \* FLAG_SDP_WRITES_ENABLED
  image,
  page_addr,            \* the number of the page
  pending,              \* page_buffer, on the bytes that are set in page_mask
  last_write, last_write_addr,
  elapsed,              \* state_elapsed
  prog,                 \* external: where the program is
  target,               \* external: the byte that it has written and polls
  keys, locked, age     \* observers: see Observe

device   == <<write_state, sdp_state, enabled, writes_enabled, image, page_addr,
              pending, last_write, last_write_addr, elapsed>>
observed == <<keys, locked, age>>
eepromVars == <<device, prog, target, observed>>

-----------------------------------------------------------------------------
(* at28c256_write_cb and at28c256_read_cb: the address in the device.       *)
Local(addr) == (addr - Base) % 65536

Addr == {Local(a) : a \in BusAddr} \cap (0 .. IMAGE_SIZE - 1)

Page(a) == a \div PAGE_SIZE
ByteOf(a) == a % PAGE_SIZE

STROBE_BIT == 64
POLL_BIT   == 128

Bit(v, bit)  == (v \div bit) % 2
Flip(v, bit) == IF Bit(v, bit) = 1 THEN v - bit ELSE v + bit

(* sdp_seq_table.  Each state of a sequence awaits one write; at the third  *)
(* the value says which sequence it is, and the address is not looked at.   *)
SdpState == {"SDP_IDLE", "SDP0", "SDP1", "SDP_DIS_80", "SDP_DIS_AA", "SDP_DIS_55"}

Awaited == [s \in SdpState \ {"SDP1"} |->
  CASE s = "SDP_IDLE"   -> <<21845, 170>>     \* 5555, AA
    [] s = "SDP0"       -> <<10922, 85>>      \* 2AAA, 55
    [] s = "SDP_DIS_80" -> <<21845, 170>>
    [] s = "SDP_DIS_AA" -> <<10922, 85>>
    [] s = "SDP_DIS_55" -> <<21845, 32>>]     \* 5555, 20

ENABLE  == 160     \* A0
DISABLE == 128     \* 80

\* (a mutant: a key is right if its address is, or its value)
ValidByHalf(a, v) ==
  IF sdp_state = "SDP1" THEN v \in {ENABLE, DISABLE}
  ELSE a = Awaited[sdp_state][1] \/ v = Awaited[sdp_state][2]

Valid(a, v) ==
  IF sdp_state = "SDP1" THEN v \in {ENABLE, DISABLE} ELSE <<a, v>> = Awaited[sdp_state]

Successor ==
  [s \in {"SDP0", "SDP_DIS_80", "SDP_DIS_AA"} |->
     CASE s = "SDP0"       -> "SDP1"
       [] s = "SDP_DIS_80" -> "SDP_DIS_AA"
       [] s = "SDP_DIS_AA" -> "SDP_DIS_55"]

-----------------------------------------------------------------------------
(* What the properties need to remember, and the device does not: the key   *)
(* writes that have been made since it was idle, until one is wrong; if it  *)
(* was protected then; and the time since the last byte was taken.          *)
EnableSequence  == <<<<21845, 170>>, <<10922, 85>>, <<0, ENABLE>>>>
DisableSequence == <<<<21845, 170>>, <<10922, 85>>, <<0, DISABLE>>,
                     <<21845, 170>>, <<10922, 85>>, <<21845, 32>>>>

Spoilt == <<<<0, 0>>>>

Whole(ks) == ks \in {EnableSequence, DisableSequence}

KeysWith(a, v) ==
  LET longer == Append(keys, <<IF Len(keys) = 2 THEN 0 ELSE a, v>>)
      Begins(ks) == Len(longer) <= Len(ks) /\ longer = SubSeq(ks, 1, Len(longer))
  IN IF Whole(keys) THEN keys
     ELSE IF Begins(EnableSequence) \/ Begins(DisableSequence) THEN longer
     ELSE Spoilt

ObserveWrite(a, v) ==
  IF write_state = "IDLE"
  THEN /\ locked' = enabled /\ age' = 0
       /\ keys' = IF <<a, v>> = EnableSequence[1] THEN <<<<a, v>>>> ELSE Spoilt
  ELSE /\ UNCHANGED locked
       /\ IF write_state = "WRITE_CYCLE" THEN UNCHANGED <<keys, age>>
          ELSE /\ keys' = KeysWith(a, v)
               /\ age' = IF write_state = "BYTE_LOAD" /\ Page(a) # page_addr
                         THEN age ELSE 0

(* The age is not counted past the end of the longest write.                *)
Ages(nanos) ==
  /\ age' = IF age + nanos < T_BLC + T_WC THEN age + nanos ELSE T_BLC + T_WC
  /\ keys' = IF write_state' = "IDLE" THEN <<>> ELSE keys
  /\ UNCHANGED locked

-----------------------------------------------------------------------------
(* handle_page_write, on a page that holds the bytes of "taken" already.    *)
With(taken, byte, v) ==
  [b \in {byte} \cup DOMAIN taken |-> IF b = byte THEN v ELSE taken[b]]

PageWrite(a, v, taken, sdp) ==
  /\ elapsed' = 0
  /\ pending' = IF sdp \in {"SDP_IDLE", "SDP0"} THEN With(taken, ByteOf(a), v) ELSE taken

NothingTaken == <<>>

Remember(a, v) == last_write_addr' = a /\ last_write' = v

(* at28c256_write, by the state that the write finds.                       *)
WriteIdle(a, v) ==
  /\ write_state = "IDLE"
  /\ IF <<a, v>> = Awaited["SDP_IDLE"]
     THEN sdp_state' = "SDP0" /\ write_state' = "SDP"
     ELSE write_state' = "BYTE_LOAD" /\ UNCHANGED sdp_state
  /\ page_addr' = Page(a)
  /\ PageWrite(a, v, NothingTaken, sdp_state')
  /\ Remember(a, v)
  /\ UNCHANGED <<enabled, writes_enabled, image>>

SequenceEnds(on) ==
  /\ sdp_state' = "SDP_IDLE" /\ write_state' = "SDP_WRITE_EN"
  /\ pending' = NothingTaken
  /\ enabled' = on /\ writes_enabled' = (on \/ writes_enabled)

WriteSdpValid(a, v) ==
  /\ write_state = "SDP" /\ Valid(a, v)
  /\ elapsed' = 0
  /\ \/ /\ sdp_state = "SDP1" /\ v = ENABLE
        /\ SequenceEnds(TRUE)
     \/ /\ sdp_state = "SDP1" /\ v # ENABLE
        /\ sdp_state' = "SDP_DIS_80"
        /\ UNCHANGED <<write_state, pending, enabled, writes_enabled>>
     \/ /\ sdp_state = "SDP_DIS_55"
        /\ SequenceEnds(FALSE)
     \/ /\ sdp_state \in DOMAIN Successor
        /\ sdp_state' = Successor[sdp_state]
        /\ UNCHANGED <<write_state, pending, enabled, writes_enabled>>
  /\ Remember(a, v)
  /\ UNCHANGED <<image, page_addr>>

(* A wrong key drops the whole sequence, itself included, and with it what  *)
(* would have been written.                                                *)
WriteSdpInvalid(a, v) ==
  /\ write_state = "SDP" /\ ~Valid(a, v)
  /\ sdp_state' = "SDP_IDLE" /\ write_state' = "IDLE" /\ elapsed' = 0
  /\ UNCHANGED <<enabled, writes_enabled, image, page_addr, pending,
                 last_write, last_write_addr>>

WriteSdpEnabled(a, v) ==
  /\ write_state = "SDP_WRITE_EN"
  /\ write_state' = "BYTE_LOAD" /\ page_addr' = Page(a)
  /\ PageWrite(a, v, NothingTaken, sdp_state)
  /\ Remember(a, v)
  /\ UNCHANGED <<sdp_state, enabled, writes_enabled, image>>

WriteLoad(a, v) ==
  /\ write_state = "BYTE_LOAD"
  /\ \/ Page(a) # page_addr /\ UNCHANGED <<elapsed, pending, last_write, last_write_addr>>
     \/ Page(a) = page_addr /\ PageWrite(a, v, pending, sdp_state) /\ Remember(a, v)
  /\ UNCHANGED <<write_state, sdp_state, enabled, writes_enabled, image, page_addr>>

WriteBusy(a, v) ==
  /\ write_state = "WRITE_CYCLE"
  /\ Remember(a, v)
  /\ UNCHANGED <<write_state, sdp_state, enabled, writes_enabled, image, page_addr,
                 pending, elapsed>>

Write(a, v) ==
  /\ \/ WriteIdle(a, v)
     \/ WriteSdpValid(a, v) \/ WriteSdpInvalid(a, v)
     \/ WriteSdpEnabled(a, v)
     \/ WriteLoad(a, v)
     \/ WriteBusy(a, v)
  /\ ObserveWrite(a, v)

-----------------------------------------------------------------------------
(* at28c256_read.  While the device is busy the address of the last write   *)
(* reads as the complement of bit 7, and bit 6 of the byte that is kept     *)
(* toggles at every read.                                                  *)
\* (a mutant: also when the write has ended)
StrobesAlways(a) == a = last_write_addr

Strobes(a) == write_state # "IDLE" /\ a = last_write_addr

\* (a mutant: bit 7 is not complemented)
ReadsTrue(a) == IF Strobes(a) THEN Flip(last_write, STROBE_BIT) ELSE image[a]

ReadsAs(a) ==
  IF Strobes(a) THEN Flip(Flip(last_write, STROBE_BIT), POLL_BIT) ELSE image[a]

Read(a) ==
  /\ last_write' = IF Strobes(a) THEN Flip(last_write, STROBE_BIT) ELSE last_write
  /\ UNCHANGED <<write_state, sdp_state, enabled, writes_enabled, image, page_addr,
                 pending, last_write_addr, elapsed, observed>>

-----------------------------------------------------------------------------
(* at28c256_tick: the time goes to the load, what is left over to the write *)
(* cycle, and what is left then to nothing.                                *)
Blocked == enabled /\ ~writes_enabled

Idle ==
  /\ write_state' = "IDLE" /\ elapsed' = 0 /\ writes_enabled' = FALSE
  /\ image' = IF Blocked THEN image
              ELSE [a \in Addr |-> IF Page(a) = page_addr /\ ByteOf(a) \in DOMAIN pending
                                   THEN pending[ByteOf(a)] ELSE image[a]]

InWriteCycle(spent) ==
  IF spent < T_WC
  THEN write_state' = "WRITE_CYCLE" /\ elapsed' = spent /\ UNCHANGED <<writes_enabled, image>>
  ELSE Idle

\* (a mutant: the rest of the tick that ends the load is lost)
LoadThenWait(spent) ==
  IF spent < T_BLC
  THEN elapsed' = spent /\ UNCHANGED <<write_state, sdp_state, writes_enabled, image>>
  ELSE InWriteCycle(0) /\ sdp_state' = "SDP_IDLE"

Loading(spent) ==
  IF spent < T_BLC
  THEN elapsed' = spent /\ UNCHANGED <<write_state, sdp_state, writes_enabled, image>>
  ELSE /\ InWriteCycle(spent - T_BLC)
       /\ sdp_state' = IF write_state = "SDP" THEN "SDP_IDLE" ELSE sdp_state

Tick(nanos) ==
  /\ \/ write_state = "IDLE" /\ UNCHANGED <<device, observed>>
     \/ /\ write_state \in {"SDP", "SDP_WRITE_EN", "BYTE_LOAD"}
        /\ Loading(elapsed + nanos) /\ Ages(nanos)
     \/ /\ write_state = "WRITE_CYCLE"
        /\ InWriteCycle(elapsed + nanos) /\ Ages(nanos)
        /\ UNCHANGED sdp_state
  /\ UNCHANGED <<enabled, page_addr, pending, last_write, last_write_addr, prog, target>>

(* at28c256_set_sdp_enable, refused while a write goes on.                  *)
SetSdpEnable(on) ==
  /\ write_state = "IDLE" /\ enabled' = on
  /\ UNCHANGED <<write_state, sdp_state, writes_enabled, image, page_addr, pending,
                 last_write, last_write_addr, elapsed, prog, target, observed>>

-----------------------------------------------------------------------------
(* at28c256_init, and at28c256_load_image before the program runs: all of   *)
(* the image, or a part of it with the rest filled.  (The file holds 0.)    *)
LoadFits(size, offset) == size + offset <= IMAGE_SIZE

LoadImage(size, offset) ==
  /\ prog = "setup" /\ LoadFits(size, offset)
  /\ image' = [a \in Addr |-> IF a \in offset .. offset + size - 1 THEN 0
                              ELSE IF size # IMAGE_SIZE THEN IMAGE_FILL ELSE image[a]]
  /\ UNCHANGED <<write_state, sdp_state, enabled, writes_enabled, page_addr, pending,
                 last_write, last_write_addr, elapsed, prog, target, observed>>

At28c256Init ==
  /\ write_state = "IDLE" /\ sdp_state = "SDP_IDLE"
  /\ enabled \in BOOLEAN /\ writes_enabled = FALSE
  /\ image = [a \in Addr |-> 0]
  /\ page_addr = 0 /\ pending = NothingTaken
  /\ last_write = 0 /\ last_write_addr = 0 /\ elapsed = 0
  /\ prog = "setup" /\ target = <<0, 0>>
  /\ keys = <<>> /\ locked = enabled /\ age = 0

(* The program: it runs, writes as it likes, or writes one byte to a device *)
(* that is idle and not protected, and reads it until bit 7 is right.       *)
Start == prog = "setup" /\ prog' = "runs" /\ UNCHANGED <<device, target, observed>>

KeyWrites == {Awaited[s] : s \in DOMAIN Awaited} \cup {<<21845, ENABLE>>, <<21845, DISABLE>>}

Writes ==
  {w \in KeyWrites \cup (Addr \X DataByte) : w[1] \in Addr}

FreeWrite ==
  /\ prog = "runs"
  /\ \E w \in Writes : Write(w[1], w[2])
  /\ UNCHANGED <<prog, target>>

FreeRead == prog = "runs" /\ (\E a \in Addr : Read(a)) /\ UNCHANGED <<prog, target>>

WriteToPoll ==
  /\ prog = "runs" /\ write_state = "IDLE" /\ ~enabled
  /\ \E w \in Writes : Write(w[1], w[2]) /\ target' = w
  /\ prog' \in {"polls", "strobes"}

Poll ==
  /\ prog = "polls"
  /\ Read(target[1])
  /\ prog' = IF Bit(ReadsAs(target[1]), POLL_BIT) = Bit(target[2], POLL_BIT)
             THEN "polled" ELSE "polls"
  /\ UNCHANGED target

(* The other way: until bit 6 is the same twice.  The strobe is in "prog".  *)
Strobe ==
  /\ prog \in {"strobes", "saw0", "saw1"}
  /\ Read(target[1])
  /\ LET saw == IF Bit(ReadsAs(target[1]), STROBE_BIT) = 0 THEN "saw0" ELSE "saw1"
     IN prog' = IF prog = saw THEN "strobed" ELSE saw
  /\ UNCHANGED target

Resume ==
  /\ prog \in {"polled", "strobed"}
  /\ prog' = "runs" /\ target' = <<0, 0>>
  /\ UNCHANGED <<device, observed>>

(* The debugger.                                                            *)
Peek == (\E a \in Addr : Read(a)) /\ UNCHANGED <<prog, target>>

TimePasses == \E nanos \in Nanos : Tick(nanos)

At28c256Next ==
  \/ \E size \in LoadSizes, offset \in Addr \cup {0} : LoadImage(size, offset)
  \/ Start
  \/ FreeWrite \/ FreeRead \/ WriteToPoll \/ Poll \/ Strobe \/ Resume
  \/ Peek
  \/ TimePasses
  \/ \E on \in BOOLEAN : SetSdpEnable(on)

(* The clock ticks on, and a program that polls goes on.                    *)
At28c256Spec ==
  /\ At28c256Init /\ [][At28c256Next]_eepromVars
  /\ WF_eepromVars(TimePasses /\ write_state # "IDLE") /\ WF_eepromVars(Poll)

-----------------------------------------------------------------------------
At28c256TypeOK ==
  /\ write_state \in {"IDLE", "SDP", "SDP_WRITE_EN", "BYTE_LOAD", "WRITE_CYCLE"}
  /\ sdp_state \in SdpState
  /\ enabled \in BOOLEAN /\ writes_enabled \in BOOLEAN /\ locked \in BOOLEAN
  /\ image \in [Addr -> Int]
  /\ page_addr \in Nat /\ DOMAIN pending \subseteq 0 .. PAGE_SIZE - 1
  /\ last_write \in Nat /\ last_write_addr \in Nat
  /\ elapsed \in Nat /\ age \in Nat
  /\ prog \in {"setup", "runs", "polls", "strobes", "saw0", "saw1", "polled", "strobed"}

(* A write ends T_BLC + T_WC after the last byte that was taken, and the    *)
(* load T_BLC after it, to the nanosecond: it does not matter how the time  *)
(* is cut into ticks, which at28c256_tick may cross an end with.            *)
TimingIsExact ==
  [][ /\ write_state' \in {"SDP", "SDP_WRITE_EN", "BYTE_LOAD"} => age' < T_BLC
      /\ write_state' = "WRITE_CYCLE" => age' \in T_BLC .. T_BLC + T_WC - 1
      /\ write_state # "IDLE" /\ write_state' = "IDLE" /\ age' > age
         => age' >= T_BLC + T_WC ]_eepromVars

(* What is protected when the device is idle stays as it is until a whole   *)
(* sequence has been written, without a wrong key or a pause in it.         *)
ProtectionHolds ==
  [][image' # image /\ prog # "setup" => ~locked \/ Whole(keys)]_eepromVars

(* A program that polls bit 7 of the byte it has written goes on when the   *)
(* byte is there, and not before, whatever a debugger reads meanwhile.      *)
PollTellsTheTruth == prog = "polled" => image[target[1]] = target[2]

(* And it goes on in the end.                                               *)
PollingEnds == prog = "polls" ~> prog = "polled"

(* A program that compares bit 6 of two reads goes on when the write has    *)
(* ended.                                                                  *)
StrobeTellsTheTruth == prog = "strobed" => write_state = "IDLE"
================================================================================
