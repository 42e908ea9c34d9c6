--------------------------------- MODULE Acia ----------------------------------
(***************************************************************************)
(* The ACIA, io/acia/src/acia.c, between a transport and a program.         *)
(*                                                                         *)
(* The transport is the serial line that AciaUnixSock implements; the IRQ   *)
(* pin is the vote of the ACIA.  acia_tick comes from the bit clock, which  *)
(* is not that of the cpu: ticks and accesses interleave freely.           *)
(*                                                                         *)
(* The program accesses the registers in any order at first.  It may then  *)
(* start a driver that is led by interrupts: it enables them, and at each  *)
(* one reads the status and, if a byte is ready, the data (which is how    *)
(* tests/io/acia_tester.c uses the device).                                *)
(***************************************************************************)
EXTENDS Integers, Sequences

CONSTANTS
  Byte,
  Ff,           \* what a read of an empty transport returns
  Size,         \* how many bytes the transport holds
  MaxLine,      \* bound of the model: bytes on the line
  CtrlVal,      \* values of the control register, by their fields
  HwReset,      \* ACIA_CTRL_HW_RESET_VAL
  SbrTable      \* ACIA_SBR_TABLE

ASSUME AciaAssumption ==
  /\ {0, Ff} \subseteq Byte /\ Size \in Nat \ {0} /\ MaxLine \in Nat
  /\ HwReset \in CtrlVal
  /\ \A c \in CtrlVal : c.wl \in 0 .. 3 /\ c.sbn \in BOOLEAN /\ SbrTable[c.sbr] \in Nat \ {0}

VARIABLES
  ctl,                    \* ctl_reg
  dtr, ird,               \* ACIA_CMD_DTR_MASK and ACIA_CMD_IRD_MASK in cmd_reg
  rdrf, over, irq,        \* ACIA_STATUS_RDRF, _OVER and _IRQ in stat_reg
  voter, vote,            \* whether it has a voter, and its vote on IRQ
  rxTicks, txTicks, readVal, writeVal,
  line, queue, last,      \* the transport: see SerialLine
  cpu                     \* external: where the program is

transport == <<line, queue, last>>
receiver  == <<rdrf, over, irq, vote, rxTicks, readVal>>
sender    == <<txTicks, writeVal>>
aciaVars  == <<ctl, dtr, ird, voter, receiver, sender, transport, cpu>>

Transport == INSTANCE SerialLine

-----------------------------------------------------------------------------
(* The length of a word in ticks: a start bit, the data bits, and one, one  *)
(* and a half, or two stop bits.                                           *)
DataBits(wl) == 8 - wl

StopTicks(c, bit) ==
  IF ~c.sbn THEN bit ELSE IF c.wl = 3 THEN (3 * bit) \div 2 ELSE 2 * bit

TicksPerWord ==
  LET bit == SbrTable[ctl.sbr]
  IN (DataBits(ctl.wl) + 1) * bit + StopTicks(ctl, bit)

(* Whether a countdown is running.                                          *)
Running(ticks) == ticks > 0

-----------------------------------------------------------------------------
(* acia_tick.  The receiver, when the time of a word has passed: the byte   *)
(* is kept, or dropped if the one before has not been read.                *)
\* (a mutant: the sense of the bit, which disables interrupts, is inverted)
RaisesIfSet == voter /\ ird

Raises == voter /\ ~ird

TransportRead ==
  \/ Transport!Receive
  \/ queue = <<>> /\ UNCHANGED transport

WordReceived ==
  /\ TransportRead
  /\ \/ /\ ~rdrf
        /\ rdrf' = TRUE
        /\ readVal' = IF queue = <<>> THEN Ff ELSE Head(queue)
        /\ irq' = (irq \/ Raises) /\ vote' = (vote \/ Raises)
        /\ UNCHANGED over
     \/ /\ rdrf
        /\ over' = TRUE
        /\ UNCHANGED <<rdrf, readVal, irq, vote>>

\* (a mutant: whether there is a byte is not asked)
StartsIfReady == dtr

StartsReception == queue # <<>> /\ dtr

ReceiverTick ==
  \/ /\ Running(rxTicks)
     /\ rxTicks' = rxTicks - 1
     /\ IF rxTicks' = 0 THEN WordReceived
                        ELSE UNCHANGED <<rdrf, over, irq, vote, readVal, transport>>
  \/ /\ ~Running(rxTicks)
     /\ rxTicks' = IF StartsReception THEN TicksPerWord ELSE rxTicks
     /\ UNCHANGED <<rdrf, over, irq, vote, readVal, transport>>

(* A byte goes to the transport at the end of its word; of the transport    *)
(* this is the direction that SerialLine leaves out.                       *)
SenderTick ==
  /\ txTicks' = IF Running(txTicks) THEN txTicks - 1 ELSE txTicks
  /\ UNCHANGED writeVal

Tick ==
  /\ ReceiverTick /\ SenderTick
  /\ UNCHANGED <<ctl, dtr, ird, voter, cpu>>

-----------------------------------------------------------------------------
(* acia_write.  A byte that is written while another one is being sent, or  *)
(* without DTR, is ignored.                                                *)
WriteTx(b) ==
  /\ dtr /\ ~Running(txTicks)
  /\ writeVal' = b /\ txTicks' = TicksPerWord
  /\ UNCHANGED <<ctl, dtr, ird, voter, receiver, transport>>

SwReset ==
  /\ over' = FALSE /\ dtr' = FALSE /\ ird' = FALSE
  /\ UNCHANGED <<ctl, rdrf, irq, vote, rxTicks, readVal, voter, sender, transport>>

WriteCmd(d, i) ==
  /\ dtr' = d /\ ird' = i
  /\ txTicks' = IF d THEN txTicks ELSE 0
  /\ UNCHANGED <<ctl, voter, receiver, writeVal, transport>>

WriteCtrl(c) ==
  /\ ctl' = c
  /\ UNCHANGED <<dtr, ird, voter, receiver, sender, transport>>

(* acia_read: the data and the status.                                      *)
\* (a mutant: the data read keeps RDRF)
KeepsRdrf  == over' = FALSE /\ rdrf' = rdrf

DropsVote  == irq' = FALSE /\ vote' = FALSE
ClearsRdrf == over' = FALSE /\ rdrf' = FALSE

ReadData ==
  /\ \/ rdrf /\ ClearsRdrf
     \/ ~rdrf /\ UNCHANGED <<rdrf, over>>
  /\ UNCHANGED <<ctl, dtr, ird, voter, irq, vote, rxTicks, readVal, sender, transport>>

ReadStatus ==
  /\ DropsVote
  /\ UNCHANGED <<ctl, dtr, ird, voter, rdrf, over, rxTicks, readVal, sender, transport>>

-----------------------------------------------------------------------------
(* The handlers of the bus, which do not let the last of the four registers *)
(* through, the control register.                                          *)
acia_bus_write_cb ==
  \/ \E b \in Byte : WriteTx(b)
  \/ SwReset
  \/ \E d, i \in BOOLEAN : WriteCmd(d, i)

acia_bus_read_cb == ReadData \/ ReadStatus

(* The program: any access, and acia_write of the control register.         *)
FreeAccess ==
  /\ cpu = "free" /\ UNCHANGED cpu
  /\ \/ acia_bus_write_cb
     \/ acia_bus_read_cb
     \/ \E c \in CtrlVal : WriteCtrl(c)

(* The driver.                                                              *)
DriverStarts == cpu = "free" /\ voter /\ WriteCmd(TRUE, FALSE) /\ cpu' = "status"

DriverStatus == cpu = "status" /\ ReadStatus /\ cpu' = IF rdrf THEN "data" ELSE "idle"

DriverData == cpu = "data" /\ ReadData /\ cpu' = "idle"

DriverInterrupted ==
  /\ cpu = "idle" /\ vote
  /\ cpu' = "status"
  /\ UNCHANGED <<ctl, dtr, ird, voter, receiver, sender, transport>>

DriverSends == cpu = "idle" /\ UNCHANGED cpu /\ \E b \in Byte : WriteTx(b)

(* The other end of the line.                                               *)
OtherEnd ==
  /\ \/ Len(line) < MaxLine /\ \E b \in Byte : Transport!Send(b)
     \/ \E n \in 1 .. Size : Transport!Arrive(n)
     \/ line # <<>> /\ Transport!HangUp
  /\ UNCHANGED <<ctl, dtr, ird, voter, receiver, sender, cpu>>

(* acia_init, and acia_register with or without an interrupt.               *)
AciaInit ==
  /\ ctl = HwReset /\ dtr = FALSE /\ ird = FALSE
  /\ rdrf = FALSE /\ over = FALSE /\ irq = FALSE
  /\ voter \in BOOLEAN /\ vote = FALSE
  /\ rxTicks = 0 /\ txTicks = 0 /\ readVal = 0 /\ writeVal = 0
  /\ Transport!LineInit /\ last = 0
  /\ cpu = "free"

AciaNext ==
  \/ Tick
  \/ FreeAccess
  \/ DriverStarts \/ DriverStatus \/ DriverData \/ DriverInterrupted \/ DriverSends
  \/ OtherEnd

(* The bit clock ticks on, and the driver goes on.                          *)
AciaSpec ==
  /\ AciaInit /\ [][AciaNext]_aciaVars
  /\ WF_aciaVars(Tick)
  /\ WF_aciaVars(DriverStatus \/ DriverData \/ DriverInterrupted)

-----------------------------------------------------------------------------
AciaTypeOK ==
  /\ ctl \in CtrlVal
  /\ {dtr, ird, rdrf, over, irq, voter, vote} \subseteq BOOLEAN
  /\ rxTicks \in Nat /\ txTicks \in Nat
  /\ readVal \in Byte /\ writeVal \in Byte
  /\ line \in Seq(Byte) /\ queue \in Seq(Byte) /\ last \in Byte
  /\ cpu \in {"free", "status", "data", "idle"}

(* A word whose reception has begun is there when its time has passed,      *)
(* whatever has become of the other end: acia_tick asks available at the   *)
(* beginning, and reads the transport at the end of a word without asking. *)
ReadsWhatIsThere == rxTicks > 0 => queue # <<>>

(* The bit in the status register and the vote on the bus are one, however  *)
(* resets, commands and reads are mixed with what arrives.                 *)
IrqIsTheVote == vote = irq /\ (vote => voter)

(* A driver that waits for an interrupt never does so in vain: if a byte is *)
(* ready the vote is held, wherever between its two reads bytes have come  *)
(* in, and in whatever state it has found the device.                      *)
DriverIsTold == cpu = "idle" /\ rdrf => vote

(* And it is led to every byte that has arrived in the end.                 *)
DriverIsServed == cpu = "idle" /\ queue # <<>> ~> cpu = "data"
================================================================================
