------------------------------ MODULE AciaProofs -------------------------------
(***************************************************************************)
(* Proofs about the ACIA, for any transport, any baud rates and any formats *)
(* of words.                                                               *)
(***************************************************************************)
EXTENDS Acia, SequenceTheorems, TLAPS

(* The driver has enabled what it relies on, and only it accesses the       *)
(* device.                                                                 *)
DriverRules == cpu # "free" => voter /\ dtr /\ ~ird

AciaInv ==
  AciaTypeOK /\ ReadsWhatIsThere /\ IrqIsTheVote /\ DriverRules /\ DriverIsTold

(* A word takes time.                                                       *)
LEMMA WordTakesTime ==
  ASSUME ctl \in CtrlVal
  PROVE  TicksPerWord \in Nat \ {0}
<1> DEFINE bit == SbrTable[ctl.sbr]
<1>1. bit \in Nat \ {0} /\ ctl.wl \in 0 .. 3
  BY AciaAssumption
<1> HIDE DEF bit
<1>2. StopTicks(ctl, bit) \in Nat
  BY <1>1 DEF StopTicks
<1>3. (DataBits(ctl.wl) + 1) * bit \in Nat \ {0}
  <2>1. DataBits(ctl.wl) + 1 \in 6 .. 9
    BY <1>1 DEF DataBits
  <2> DEFINE k == DataBits(ctl.wl) + 1
  <2> HIDE DEF k
  <2>2. k \in {6, 7, 8, 9}
    BY <2>1 DEF k
  <2>3. k * bit \in Nat \ {0}
    BY <1>1, <2>2
  <2> QED BY <2>3 DEF k
<1>4. TicksPerWord = (DataBits(ctl.wl) + 1) * bit + StopTicks(ctl, bit)
  BY DEF TicksPerWord, bit
<1> QED BY <1>2, <1>3, <1>4

(* The transport holds bytes, whatever is received, sent, or cut off.       *)
LEMMA TransportTypes ==
  ASSUME AciaTypeOK,
         \/ TransportRead
         \/ \E b \in Byte : Transport!Send(b)
         \/ \E n \in 1 .. Size : Transport!Arrive(n)
         \/ Transport!HangUp
         \/ UNCHANGED transport
  PROVE  line' \in Seq(Byte) /\ queue' \in Seq(Byte) /\ last' \in Byte
<1>1. line \in Seq(Byte) /\ queue \in Seq(Byte) /\ last \in Byte
  BY DEF AciaTypeOK
<1>2. CASE Transport!Receive
  BY <1>1, <1>2, HeadTailProperties DEF Transport!Receive
<1>3. CASE UNCHANGED transport
  BY <1>1, <1>3 DEF transport
<1>4. CASE \E b \in Byte : Transport!Send(b)
  BY <1>1, <1>4, AppendProperties DEF Transport!Send
<1>5. CASE \E n \in 1 .. Size : Transport!Arrive(n)
  <2>1. PICK n \in 1 .. Size : Transport!Arrive(n)
    BY <1>5
  <2>2. n \in Nat /\ n <= Len(line) /\ Len(line) \in Nat
    BY <1>1, <2>1, AciaAssumption, LenProperties DEF Transport!Arrive
  <2>3. SubSeq(line, 1, n) \in Seq(Byte)
    BY <1>1, <2>2
  <2>4. SubSeq(line, n + 1, Len(line)) \in Seq(Byte)
    BY <1>1, <2>2
  <2>5. queue \o SubSeq(line, 1, n) \in Seq(Byte)
    BY <1>1, <2>3, ConcatProperties
  <2> QED BY <1>1, <2>1, <2>4, <2>5 DEF Transport!Arrive
<1>6. CASE Transport!HangUp
  BY <1>1, <1>6, EmptySeq DEF Transport!HangUp
<1> QED BY <1>2, <1>3, <1>4, <1>5, <1>6 DEF TransportRead

(* Only acia_tick takes bytes out of the transport.                         *)
LEMMA QueueOnlyGrows ==
  ASSUME AciaTypeOK, queue # <<>>,
         \/ \E b \in Byte : Transport!Send(b)
         \/ \E n \in 1 .. Size : Transport!Arrive(n)
         \/ Transport!HangUp
  PROVE  queue' # <<>>
<1>1. line \in Seq(Byte) /\ queue \in Seq(Byte)
  BY DEF AciaTypeOK
<1>2. CASE (\E b \in Byte : Transport!Send(b)) \/ Transport!HangUp
  BY <1>2 DEF Transport!Send, Transport!HangUp
<1>3. CASE \E n \in 1 .. Size : Transport!Arrive(n)
  <2>1. PICK n \in 1 .. Size : Transport!Arrive(n)
    BY <1>3
  <2>2. n \in Nat /\ n <= Len(line) /\ Len(line) \in Nat
    BY <1>1, <2>1, AciaAssumption, LenProperties DEF Transport!Arrive
  <2>3. SubSeq(line, 1, n) \in Seq(Byte)
    BY <1>1, <2>2
  <2>4. queue' = queue \o SubSeq(line, 1, n)
    BY <2>1 DEF Transport!Arrive
  <2> QED BY <1>1, <2>3, <2>4, ConcatEqualIffEmpty
<1> QED BY <1>2, <1>3

(* A device that has just been made.                                        *)
LEMMA AciaInvInit == AciaInit => AciaInv
<1> SUFFICES ASSUME AciaInit PROVE AciaInv
  OBVIOUS
<1>1. line = <<>> /\ queue = <<>> /\ <<>> \in Seq(Byte)
  BY EmptySeq DEF AciaInit, Transport!LineInit
<1>2. voter \in BOOLEAN
  BY DEF AciaInit
<1>3. AciaTypeOK
  BY <1>1, <1>2, AciaAssumption DEF AciaInit, AciaTypeOK
<1>4. ReadsWhatIsThere
  BY DEF AciaInit, ReadsWhatIsThere
<1>5. IrqIsTheVote
  <2>1. vote = FALSE /\ irq = FALSE
    BY DEF AciaInit
  <2> QED BY <2>1, Zenon DEF IrqIsTheVote
<1>6. DriverRules /\ DriverIsTold
  BY DEF AciaInit, DriverRules, DriverIsTold
<1> QED BY <1>3, <1>4, <1>5, <1>6 DEF AciaInv

(* A tick: a word begins only if there is a byte, and its end raises IRQ    *)
(* if it is to.                                                            *)
LEMMA InvTick ==
  ASSUME AciaInv, Tick
  PROVE  AciaInv'
<1>1. AciaTypeOK /\ ctl \in CtrlVal /\ rxTicks \in Nat /\ txTicks \in Nat
  BY DEF AciaInv, AciaTypeOK
<1>2. UNCHANGED <<ctl, dtr, ird, voter, cpu, writeVal>>
  BY DEF Tick, SenderTick
<1>3. txTicks' \in Nat
  BY <1>1 DEF Tick, SenderTick, Running
<1>4. CASE /\ ~Running(rxTicks)
           /\ rxTicks' = IF StartsReception THEN TicksPerWord ELSE rxTicks
           /\ UNCHANGED <<rdrf, over, irq, vote, readVal, transport>>
  <2>1. rxTicks' \in Nat /\ (rxTicks' > 0 => queue' # <<>>)
    BY <1>1, <1>4, WordTakesTime DEF Running, StartsReception, transport
  <2>2. AciaTypeOK'
    BY <1>1, <1>2, <1>3, <1>4, <2>1 DEF AciaTypeOK, transport
  <2> QED
    BY <1>2, <1>4, <2>1, <2>2
    DEF AciaInv, ReadsWhatIsThere, IrqIsTheVote, DriverRules, DriverIsTold
<1>5. CASE Running(rxTicks) /\ rxTicks' = rxTicks - 1
  <2>1. rxTicks' \in Nat /\ queue # <<>>
    BY <1>1, <1>5 DEF Running, AciaInv, ReadsWhatIsThere
  <2>2. CASE rxTicks' # 0
    <3>1. UNCHANGED <<rdrf, over, irq, vote, readVal, transport>>
      BY <1>5, <2>2 DEF Tick, ReceiverTick
    <3>2. AciaTypeOK'
      BY <1>1, <1>2, <1>3, <2>1, <3>1 DEF AciaTypeOK, transport
    <3> QED
      BY <1>2, <2>1, <3>1, <3>2
      DEF AciaInv, ReadsWhatIsThere, IrqIsTheVote, DriverRules, DriverIsTold, transport
  <2>3. CASE rxTicks' = 0
    <3>1. WordReceived
      BY <1>5, <2>3 DEF Tick, ReceiverTick, Running
    <3>2. line' \in Seq(Byte) /\ queue' \in Seq(Byte) /\ last' \in Byte
      BY <1>1, <3>1, TransportTypes DEF WordReceived
    <3>3. Head(queue) \in Byte
      BY <1>1, <2>1, HeadTailProperties DEF AciaTypeOK
    <3>4. readVal' \in Byte
      BY <1>1, <2>1, <3>1, <3>3 DEF WordReceived, AciaTypeOK
    <3>5. {rdrf', over', irq', vote'} \subseteq BOOLEAN
      BY <1>1, <3>1, Zenon DEF WordReceived, AciaTypeOK, Raises
    <3>6. AciaTypeOK'
      BY <1>1, <1>2, <1>3, <2>1, <3>2, <3>4, <3>5 DEF AciaTypeOK
    <3>7. IrqIsTheVote' /\ DriverIsTold' /\ DriverRules'
      BY <1>2, <3>1
      DEF WordReceived, AciaInv, AciaTypeOK, IrqIsTheVote, DriverRules, DriverIsTold, Raises
    <3> QED BY <2>3, <3>6, <3>7 DEF AciaInv, ReadsWhatIsThere
  <2> QED BY <2>2, <2>3
<1> QED BY <1>4, <1>5 DEF Tick, ReceiverTick

(* The program accesses a register, and is at the driver or not.            *)
LEMMA InvAccess ==
  ASSUME AciaInv,
         FreeAccess \/ DriverStarts \/ DriverStatus \/ DriverData \/ DriverInterrupted
         \/ DriverSends
  PROVE  AciaInv'
<1> USE DEF receiver, sender, transport
<1>1. AciaTypeOK /\ ctl \in CtrlVal
  BY DEF AciaInv, AciaTypeOK
<1>2. TicksPerWord \in Nat
  BY <1>1, WordTakesTime
<1>3. ASSUME NEW b \in Byte, WriteTx(b), UNCHANGED cpu
      PROVE  AciaInv'
  <2>1. AciaTypeOK'
    BY <1>1, <1>2, <1>3 DEF WriteTx, AciaTypeOK
  <2> QED
    BY <1>3, <2>1
    DEF WriteTx, AciaInv, ReadsWhatIsThere, IrqIsTheVote, DriverRules, DriverIsTold
<1>4. CASE FreeAccess
  <2>1. CASE SwReset
    <3>1. AciaTypeOK'
      BY <1>1, <1>4, <2>1 DEF FreeAccess, SwReset, AciaTypeOK
    <3> QED
      BY <1>4, <2>1, <3>1
      DEF FreeAccess, SwReset, AciaInv, ReadsWhatIsThere, IrqIsTheVote, DriverRules, DriverIsTold
  <2>2. CASE \E d, i \in BOOLEAN : WriteCmd(d, i)
    <3>1. AciaTypeOK'
      BY <1>1, <1>4, <2>2 DEF FreeAccess, WriteCmd, AciaTypeOK
    <3> QED
      BY <1>4, <2>2, <3>1
      DEF FreeAccess, WriteCmd, AciaInv, ReadsWhatIsThere, IrqIsTheVote, DriverRules, DriverIsTold
  <2>3. CASE \E c \in CtrlVal : WriteCtrl(c)
    <3>1. AciaTypeOK'
      BY <1>1, <1>4, <2>3 DEF FreeAccess, WriteCtrl, AciaTypeOK
    <3> QED
      BY <1>4, <2>3, <3>1
      DEF FreeAccess, WriteCtrl, AciaInv, ReadsWhatIsThere, IrqIsTheVote, DriverRules, DriverIsTold
  <2>4. CASE ReadData
    <3>1. AciaTypeOK'
      BY <1>1, <1>4, <2>4 DEF FreeAccess, ReadData, ClearsRdrf, AciaTypeOK
    <3> QED
      BY <1>4, <2>4, <3>1
      DEF FreeAccess, ReadData, AciaInv, ReadsWhatIsThere, IrqIsTheVote, DriverRules, DriverIsTold
  <2>5. CASE ReadStatus
    <3>1. AciaTypeOK'
      BY <1>1, <1>4, <2>5 DEF FreeAccess, ReadStatus, DropsVote, AciaTypeOK
    <3> QED
      BY <1>4, <2>5, <3>1
      DEF FreeAccess, ReadStatus, DropsVote, AciaInv, ReadsWhatIsThere, IrqIsTheVote,
          DriverRules, DriverIsTold
  <2> QED
    BY <1>3, <1>4, <2>1, <2>2, <2>3, <2>4, <2>5
    DEF FreeAccess, acia_bus_write_cb, acia_bus_read_cb
<1>5. CASE DriverStarts
  <2>1. AciaTypeOK'
    BY <1>1, <1>5 DEF DriverStarts, WriteCmd, AciaTypeOK
  <2> QED
    BY <1>5, <2>1
    DEF DriverStarts, WriteCmd, AciaInv, ReadsWhatIsThere, IrqIsTheVote, DriverRules, DriverIsTold
<1>6. CASE DriverStatus
  <2>1. AciaTypeOK'
    BY <1>1, <1>6 DEF DriverStatus, ReadStatus, DropsVote, AciaTypeOK
  <2> QED
    BY <1>6, <2>1
    DEF DriverStatus, ReadStatus, DropsVote, AciaInv, ReadsWhatIsThere, IrqIsTheVote,
        DriverRules, DriverIsTold
<1>7. CASE DriverData
  <2>1. AciaTypeOK'
    BY <1>1, <1>7 DEF DriverData, ReadData, ClearsRdrf, AciaTypeOK
  <2> QED
    BY <1>7, <2>1
    DEF DriverData, ReadData, ClearsRdrf, AciaInv, ReadsWhatIsThere, IrqIsTheVote,
        DriverRules, DriverIsTold
<1>8. CASE DriverInterrupted
  <2>1. AciaTypeOK'
    BY <1>1, <1>8 DEF DriverInterrupted, AciaTypeOK
  <2> QED
    BY <1>8, <2>1
    DEF DriverInterrupted, AciaInv, ReadsWhatIsThere, IrqIsTheVote, DriverRules, DriverIsTold
<1>9. CASE DriverSends
  BY <1>3, <1>9 DEF DriverSends
<1> QED BY <1>4, <1>5, <1>6, <1>7, <1>8, <1>9

(* Bytes are sent, arrive, or are cut off: those that have arrived stay.    *)
LEMMA InvOtherEnd ==
  ASSUME AciaInv, OtherEnd
  PROVE  AciaInv'
<1>1. AciaTypeOK
  BY DEF AciaInv
<1>2. \/ \E b \in Byte : Transport!Send(b)
      \/ \E n \in 1 .. Size : Transport!Arrive(n)
      \/ Transport!HangUp
  BY DEF OtherEnd
<1>3. line' \in Seq(Byte) /\ queue' \in Seq(Byte) /\ last' \in Byte
  BY <1>1, <1>2, TransportTypes
<1>4. UNCHANGED <<ctl, dtr, ird, voter, receiver, sender, cpu>>
  BY DEF OtherEnd
<1>5. AciaTypeOK'
  BY <1>1, <1>3, <1>4 DEF AciaTypeOK, receiver, sender
<1>6. rxTicks' > 0 => queue' # <<>>
  BY <1>1, <1>2, <1>4, QueueOnlyGrows DEF AciaInv, ReadsWhatIsThere, receiver
<1> QED
  BY <1>4, <1>5, <1>6
  DEF AciaInv, ReadsWhatIsThere, IrqIsTheVote, DriverRules, DriverIsTold, receiver

(* It holds in every behaviour.                                             *)
LEMMA AciaInvariant == AciaSpec => []AciaInv
<1>1. AciaInit => AciaInv
  BY AciaInvInit
<1>2. AciaInv /\ [AciaNext]_aciaVars => AciaInv'
  <2>1. AciaInv /\ UNCHANGED aciaVars => AciaInv'
    BY DEF AciaInv, AciaTypeOK, ReadsWhatIsThere, IrqIsTheVote, DriverRules, DriverIsTold,
           aciaVars, receiver, sender, transport
  <2> QED BY <2>1, InvTick, InvAccess, InvOtherEnd DEF AciaNext
<1> QED BY <1>1, <1>2, PTL DEF AciaSpec

-----------------------------------------------------------------------------
(* Each variable of the ACIA keeps its type; no countdown goes below zero.  *)
THEOREM AciaTypeCorrect == AciaSpec => []AciaTypeOK
<1>1. AciaInv => AciaTypeOK
  BY DEF AciaInv
<1> QED BY <1>1, AciaInvariant, PTL

(* Whatever the other end of the line does, and whatever commands and       *)
(* resets come in between: a word that has begun ends with a byte.         *)
THEOREM WordsEndWithAByte == AciaSpec => []ReadsWhatIsThere
<1>1. AciaInv => ReadsWhatIsThere
  BY DEF AciaInv
<1> QED BY <1>1, AciaInvariant, PTL

(* The status bit and the vote never part.                                  *)
THEOREM StatusShowsTheVote == AciaSpec => []IrqIsTheVote
<1>1. AciaInv => IrqIsTheVote
  BY DEF AciaInv
<1> QED BY <1>1, AciaInvariant, PTL

(* No interrupt is lost between the reads of a driver.                      *)
THEOREM NoInterruptIsLost == AciaSpec => []DriverIsTold
<1>1. AciaInv => DriverIsTold
  BY DEF AciaInv
<1> QED BY <1>1, AciaInvariant, PTL
================================================================================
