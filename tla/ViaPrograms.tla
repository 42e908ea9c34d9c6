------------------------------ MODULE ViaPrograms ------------------------------
(***************************************************************************)
(* The VIA in use: the programs that a cpu may run on it, and what is       *)
(* connected to it.  A behaviour is one of                                 *)
(*   pins     data direction, data, latching and pins of a port,            *)
(*   pulses   the C2 lines in all modes, by the clock,                      *)
(*   timer    timer 1 with its latch, modes and PB7, by the clock,          *)
(*   shake    a peripheral that hands bytes to port A with the handshake,   *)
(*   card     a program that reads blocks of the SD card,                   *)
(*   bytes    another master at the card, without the VIA.                  *)
(* In one cycle of the clock come the access of the cpu, the falling edge   *)
(* and the rising edge (clock_main_tick).  Pins change at any time.         *)
(***************************************************************************)
EXTENDS BitbangSpi

CONSTANTS
  Program,      \* the programs that are run
  Blocks        \* the blocks that the card's program reads

VARIABLES
  program, side,      \* which program, and the port that it uses
  edge,               \* what comes next in the cycle
  heard,              \* what the listeners have last seen of each port
  span, since,        \* the latch that timer 1 runs for, and the rising edges since
  peer, fresh, shown, \* shake: the peripheral, and if the byte it shows is unread
  drv                 \* card: the program

observers == <<heard, span, since, peer, fresh, shown>>
vars == <<via, card, spi, program, side, edge, observers, drv>>

Calm == event = {}

-----------------------------------------------------------------------------
(* The listeners, before anything else: the SPI in "card", else one that    *)
(* looks at the port it has been told of.                                  *)
EventsDelivered ==
  /\ ~Calm /\ event' = {}
  /\ IF program = "card" /\ "PORTB" \in event
     THEN bitbang_portb_write(ReadDataPort("B"))
     ELSE UNCHANGED <<card, spi, ports, lines, control, flags, timer, pends>>
  /\ heard' = [p \in Side |-> IF Port(p) \in event THEN ReadDataPort(p) ELSE heard[p]]
  /\ UNCHANGED <<program, side, edge, span, since, peer, fresh, shown, drv>>

Falls ==
  /\ Calm /\ edge \in {"access", "fall"} /\ edge' = "rise"
  /\ Negedge
  /\ span' = IF t1c = Full /\ ~write_pend THEN t1l ELSE span
  /\ UNCHANGED <<card, spi, program, side, heard, since, peer, fresh, shown, drv>>

Rises ==
  /\ Calm /\ edge = "rise" /\ edge' = "access"
  /\ Posedge
  /\ since' = IF t1pb7' # t1pb7 THEN 0 ELSE IF since <= Full THEN since + 1 ELSE since
  /\ UNCHANGED <<card, spi, program, side, heard, span, peer, fresh, shown, drv>>

Clock == program \in {"pulses", "timer"} /\ (Falls \/ Rises)

Access == Calm /\ edge = "access" /\ edge' = "fall"

NoMore == UNCHANGED <<card, spi, program, side, heard, peer, fresh, shown, drv>>

-----------------------------------------------------------------------------
(* pins.                                                                    *)
Values == SUBSET {PB7}

PinsNext ==
  /\ program = "pins" /\ Calm /\ NoMore /\ UNCHANGED <<edge, span, since>>
  /\ \/ \E v \in Values : WriteDdr(side, v) \/ WriteData(side, v)
     \/ \E l \in [Side -> BOOLEAN] : WriteAcr(l, t1_mode, t1_pb7)
     \/ IF side = "A" THEN ReadDataA ELSE ReadDataB
     \/ \E v \in Values : WritePort(side, {PB7}, v) /\ UNCHANGED event
     \/ \E b \in BOOLEAN : WriteC1(side, b)

(* pulses.                                                                  *)
PulsesNext ==
  /\ program = "pulses" /\ NoMore /\ UNCHANGED <<span, since>>
  /\ \/ /\ Access
        /\ \/ \E v \in Values : WriteData(side, v)
           \/ IF side = "A" THEN ReadDataA ELSE ReadDataB
           \/ \E c1 \in BOOLEAN, c2 \in C2Ctrl :
                WritePcr([c1_ctrl EXCEPT ![side] = c1], [c2_ctrl EXCEPT ![side] = c2])
           \/ \E f \in {{}, {"CA1", "CB1"}} : WriteIfr(f)
     \/ /\ Calm /\ UNCHANGED edge
        /\ \E b \in BOOLEAN : WriteC1(side, b) \/ WriteC2(side, b)

(* timer.                                                                   *)
StartsTimer(val) == WriteT1CH(val) /\ span' = WithHigh(val) /\ since' = 0

TimerNext ==
  /\ program = "timer" /\ Access /\ NoMore
  /\ \/ \E val \in 0 .. Half - 1 : StartsTimer(val)
     \/ /\ UNCHANGED <<span, since>>
        /\ \/ \E val \in 0 .. Half - 1 : WriteT1Low(val) \/ WriteT1LH(val)
           \/ \E mode, pb7 \in BOOLEAN : WriteAcr(latch, mode, pb7)
           \/ \E set \in BOOLEAN : WriteIer(set, {"T1"})
           \/ WriteIfr({"T1"})
           \/ ReadT1CL

(* shake.  The peripheral shows a byte and raises CA1; it shows the next    *)
(* one once CA2 says that the byte has been taken.  The program reads port  *)
(* A when CA1 is set in IFR.                                               *)
Bytes == <<{}, {PB7}, {"MISO"}>>

Shakes ==
  /\ program = "shake" /\ Calm
  /\ UNCHANGED <<card, spi, program, side, edge, heard, span, since, drv>>

ShakeSetUp ==
  /\ Shakes /\ peer = "start" /\ peer' = "shows"
  /\ WritePcr([p \in Side |-> p = "A"], [c2_ctrl EXCEPT !["A"] = "handshake"])
  /\ UNCHANGED <<fresh, shown>>

ShakeLatches ==
  /\ Shakes
  /\ peer = "start"
  /\ \E l \in BOOLEAN : WriteAcr([latch EXCEPT !["A"] = l], t1_mode, t1_pb7)
  /\ UNCHANGED <<fresh, shown, peer>>

ShakeShows ==
  /\ Shakes /\ peer = "shows" /\ ~c1_in["A"] /\ peer' = "raises"
  /\ shown' = (shown % 3) + 1
  /\ WritePort("A", {PB7, "MISO"}, Bytes[shown']) /\ UNCHANGED <<event, fresh>>

ShakeRaises ==
  /\ Shakes /\ peer = "raises" /\ peer' = "lowers"
  /\ WriteC1("A", TRUE) /\ fresh' = TRUE /\ UNCHANGED shown

ShakeLowers ==
  /\ Shakes /\ peer = "lowers" /\ peer' = "waits"
  /\ WriteC1("A", FALSE) /\ UNCHANGED <<fresh, shown>>

ShakeSeesTaken ==
  /\ Shakes /\ peer = "waits" /\ ~via_read_ctrl("CA2") /\ peer' = "shows"
  /\ UNCHANGED <<via, fresh, shown>>

ShakeReads ==
  /\ Shakes /\ "CA1" \in ifr
  /\ ReadDataA /\ fresh' = FALSE
  /\ UNCHANGED <<shown, peer>>

ShakeNext ==
  ShakeSetUp \/ ShakeLatches \/ ShakeShows \/ ShakeRaises \/ ShakeLowers
  \/ ShakeSeesTaken \/ ShakeReads
-----------------------------------------------------------------------------
(* card.  The program sends a byte bit by bit, most significant first: it   *)
(* sets MOSI with the clock low, raises the clock, and reads MISO.          *)
BitOf(byte, n) == (byte \div 2 ^ (7 - n)) % 2

Cards ==
  /\ program = "card" /\ Calm
  /\ UNCHANGED <<card, spi, program, side, edge, heard, span, since, peer, fresh, shown>>

CardSetUp ==
  /\ Cards /\ drv.half = "setup"
  /\ WriteDdr("B", {"CLK", "MOSI", "SS"})
  /\ drv' = [drv EXCEPT !.half = "low"]

Lines(high) ==
  (IF drv.selected THEN {} ELSE {"SS"})
  \cup (IF BitOf(drv.tx, drv.n) = 1 THEN {"MOSI"} ELSE {}) \cup high

CardLow ==
  /\ Cards /\ drv.half = "low"
  /\ WriteData("B", Lines({}))
  /\ drv' = [drv EXCEPT !.half = "high"]

CardHigh ==
  /\ Cards /\ drv.half = "high"
  /\ WriteData("B", Lines({"CLK"}))
  /\ drv' = [drv EXCEPT !.half = "read"]

CardReads ==
  /\ Cards /\ drv.half = "read"
  /\ ReadDataB
  /\ drv' = [drv EXCEPT !.rx = (2 * @ + IF "MISO" \in PortReadsAs("B") THEN 1 ELSE 0) % 256,
                        !.n = @ + 1,
                        !.half = IF drv.n = 7 THEN "byte" ELSE "low"]

(* When a byte has been sent and one has come back, what is next: the rest  *)
(* of a command, the answer, what comes with it, and the next command.      *)
Command6(first, b) == <<first, b \div 16777216, (b \div 65536) % 256, (b \div 256) % 256, b % 256, 1>>

Sends(byte, what)     == [drv EXCEPT !.tx = byte, !.n = 0, !.half = "low", !.at = what]
SendsCommand(cmd)     == [Sends(cmd[1], "command") EXCEPT !.rest = Tail(cmd), !.cmd = cmd[1],
                                                         !.selected = TRUE]
ReadsBlock(b)         == [SendsCommand(Command6(CMD17, b)) EXCEPT !.block = b, !.got = <<>>]

Initialises ==
  CASE drv.cmd = CMD0  -> SendsCommand(Command6(CMD8, 426))
    [] drv.cmd = CMD8  -> SendsCommand(Command6(CMD55, 0))
    [] drv.cmd = CMD55 -> SendsCommand(Command6(ACMD41, 1073741824))
    [] OTHER           -> SendsCommand(Command6(CMD55, 0))

AfterByte ==
  \/ drv.at = "pause" /\ drv' = SendsCommand(Command6(CMD0, 0))
  \/ /\ drv.at = "command"
     /\ drv' = IF drv.rest = <<>> THEN Sends(255, "answer")
               ELSE [Sends(Head(drv.rest), "command") EXCEPT !.rest = Tail(drv.rest)]
  \/ /\ drv.at = "answer" /\ drv.rx >= 128
     /\ drv' = Sends(255, "answer")
  \/ /\ drv.at = "answer" /\ drv.rx < 128
     /\ drv' = CASE drv.cmd = CMD17 /\ drv.rx = 0 -> Sends(255, "token")
                 [] drv.cmd = CMD17 /\ drv.rx # 0 -> [drv EXCEPT !.half = "failed"]
                 [] drv.cmd = CMD8 -> [Sends(255, "more") EXCEPT !.rest = <<0, 0, 0>>]
                 [] drv.cmd = ACMD41 /\ drv.rx = 0 -> [drv EXCEPT !.half = "ready"]
                 [] OTHER -> Initialises
  \/ /\ drv.at = "more"
     /\ drv' = IF drv.rest = <<>> THEN Initialises
               ELSE [Sends(255, "more") EXCEPT !.rest = Tail(drv.rest)]
  \/ /\ drv.at = "token"
     /\ drv' = IF drv.rx = 254 THEN Sends(255, "data") ELSE Sends(255, "token")
  \/ /\ drv.at = "data"
     /\ LET got == Append(drv.got, drv.rx)
        IN drv' = IF Len(got) < SectorSize + 2 THEN [Sends(255, "data") EXCEPT !.got = got]
                  ELSE [drv EXCEPT !.got = got, !.half = "done"]

CardNextByte ==
  /\ Cards /\ drv.half = "byte" /\ AfterByte /\ UNCHANGED via

CardReadsBlock ==
  /\ Cards /\ drv.half \in {"ready", "done", "failed"}
  /\ \E b \in Blocks : drv' = ReadsBlock(b)
  /\ UNCHANGED via

CardNext == CardSetUp \/ CardLow \/ CardHigh \/ CardReads \/ CardNextByte \/ CardReadsBlock

(* bytes.  Another master exchanges bytes with the card: those of commands, *)
(* one that the card does not know among them, with any arguments, and      *)
(* bytes without a start bit.                                              *)
Firsts == {CMD0, CMD8, CMD17, CMD55, ACMD41, 77, 255}

BytesNext ==
  /\ program = "bytes"
  /\ \/ spi_cnt = 0 /\ spi_cnt' = 7 /\ sdcard_spi_get
     \/ /\ spi_cnt = 7 /\ spi_cnt' = 0
        /\ \E byte \in IF cmd_buf = <<>> THEN Firsts ELSE {0, 1} : sdcard_spi_write(byte)
  /\ UNCHANGED <<via, spi_out, spi_clk_state, sdcard_sel, sdcard_in,
                 program, side, edge, observers, drv>>

-----------------------------------------------------------------------------
NoPins == [p \in Side |-> {}]

ProgramsInit ==
  /\ program \in Program /\ side \in IF program \in {"pins", "pulses"} THEN Side ELSE {"B"}
  /\ edge = "access"
  /\ sdcard_init /\ (program \notin {"card", "bytes"} => ~init)
  /\ bitbang_spi_init
  /\ ViaInit(IF program = "card" THEN [NoPins EXCEPT !["B"] = Outputs(FALSE, 0)] ELSE NoPins)
  /\ heard = NoPins
  /\ span = 0 /\ since = 0
  /\ peer = "start" /\ fresh = FALSE /\ shown = 0
  /\ drv = [half |-> "setup", at |-> "pause", tx |-> 255, n |-> 0, rx |-> 0,
            selected |-> FALSE, cmd |-> 0, rest |-> <<>>, block |-> 0, got |-> <<>>]

ProgramsNext ==
  \/ EventsDelivered
  \/ Clock
  \/ PinsNext \/ PulsesNext \/ TimerNext \/ ShakeNext \/ CardNext \/ BytesNext

(* The program of the card goes on, and so do the callbacks.                *)
ProgramsSpec ==
  /\ ProgramsInit /\ [][ProgramsNext]_vars
  /\ WF_vars(EventsDelivered) /\ WF_vars(CardNext)

-----------------------------------------------------------------------------
(* Who listens knows what the VIA drives: the output pins of a port as it   *)
(* was last told of it are as they are, PB7 of timer 1 among them.          *)
Driven(p) == ddr[p] \cup IF p = "B" /\ t1_pb7 THEN {PB7} ELSE {}

ListenersKnow ==
  Calm => \A p \in Side : heard[p] \cap Driven(p) = ReadDataPort(p) \cap Driven(p)

(* Timer 1 runs out N + 1.5 cycles after it has been started, and then      *)
(* every N + 2 cycles, which are N + 2 rising edges in either case, and not *)
(* in between, whatever is written to its latch, mode and flag meanwhile.   *)
(* (A latch of 0xffff is taken for the end, and runs out at once.)          *)
TimerOnTime ==
  [][ program = "timer" /\ edge = "rise" /\ armed /\ span # Full
      => (t1pb7' # t1pb7 <=> since = span + 1) ]_vars

(* A byte that the peripheral shows is read once, and is still shown then:  *)
(* it is not replaced before it is read, and not read twice.                *)
HandshakeDelivers ==
  [][ /\ ShakeRaises => ~fresh
      /\ ShakeReads => fresh /\ PortReadsAs("A") = Bytes[shown] ]_vars

(* A program that initialises the card and asks for a block gets it, bit by *)
(* bit over the port, unless the image cannot be read.                     *)
BlockArrives ==
  program = "card" /\ init
  ~> \/ drv.half = "failed"
     \/ drv.half = "done" /\ SubSeq(drv.got, 1, SectorSize) = Image[drv.block]
================================================================================
