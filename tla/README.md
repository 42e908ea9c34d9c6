# A TLA+ model of CB6502-emu

CB6502-emu emulates a 65C02 computer: a cpu core, a clock scheduler and a bus
with devices on it, driven by a debugger. This directory holds TLA+ modules
that model the emulator and its devices, TLC configurations that check them on
small instances, and TLAPS proofs of the theorems that hold for every size.
Paths are relative to the root of the repository; line numbers are those of the
commit the models were written from.

    tlc -config MCClock.cfg MCClock          # and so on: see "Runs"
    tlapm ClockProofs.tla

## 1. The system

The emulator is single-threaded, except for a reader thread behind the serial
port and for signal handlers. Everything happens inside of `emu_tick`, which
the front end calls, through the debugger, for each PHI2 cycle.

    main -> cb6502_init, dbgcli_run, cb6502_destroy
    front end -> debugger -> emu_tick -> clock_main_tick -+-> cpu_tick -> bus_read, bus_write
                    |                                     |                  |
                    +--- ctrl-C: debug_break              +-> tick callbacks |-> device handlers
                                                              of devices     |-> tracers
                                        devices -> emu_bus_sig_vote -> irq, nmi, rdy of the cpu
                          VIA port B <-> bit-banged SPI <-> SD card;  ACIA <-> reader thread <-> socket

| component | state | operations | interacts with | status |
|---|---|---|---|---|
| clock scheduler, `core/src/clock.c` | list of derived clocks sorted by remaining ns, phase and ticks of each, callbacks per clock | `clock_init`, `clock_add`, `clock_remove`, `clock_register_tick`, `clock_unregister_tick`, `clock_main_tick`, `clock_cleanup` | called by `emu_tick`; calls the cpu and the devices | modelled, proved |
| bus signal votes, `core/src/bus.c:435-534` | masks of allocated voters and of the votes for IRQ, NMI, RDY, BE; NMI edge flag | register, unregister, `emu_bus_sig_vote` | called by VIA and ACIA, read by the cpu | modelled, proved |
| bus dispatch, `core/src/bus.c` | list of connections with decoders and handlers, list of tracers, last operation | register, unregister, read, sync read, write, peek, replay, add/remove tracer | called by cpu, debugger, front ends; calls devices and tracers | modelled, proved |
| cpu, `core/src/cpu.c` | registers, op state, effective address, flags of the cycle | `cpu_tick`, `cpu_init` | bus, votes | control modelled, proved; arithmetic modelled and proved apart |
| debugger core, `core/src/debugger.c` | breakpoints, labels, debug info, `sw_break` | load labels, set and clear breakpoints, run, next, finish, step, break | front ends; emulator; signal handler | modelled but for what only reads; proved |
| emulator context, `core/src/emulator.c` | the sum of the above | `emu_init`, `emu_cleanup`, `emu_tick` | | its life modelled |
| disassembler, `core/src/disassemble.c` | none | decodes an instruction | debugger | lengths modelled, layout not |
| VIA 6522, `io/via/src/via.c` | ports, latches, timer 1, C1/C2 lines, IFR/IER, listeners | register reads and writes, both clock edges, port and control line calls | bus, clock, votes, SPI | modelled, proved |
| ACIA 6551, `io/acia/src/acia.c` | status, command, control, receive and transmit registers, countdown of a word | register reads and writes, tick | bus, clock, votes, transport | modelled, proved |
| ACIA socket transport, `io/acia/src/acia_unix_sock.c` | ring buffer, client socket, thread, mutex | init, cleanup, available, read, write; reader thread | ACIA; the kernel | modelled, proved |
| EEPROM, `io/at28c256/src/at28c256.c` | image, page buffer, data protection state, write timer | read, write, tick, load image, set protection | bus, clock | modelled, proved |
| memory, `io/memory/src/memory.c` | bytes | read, write, load | bus | modelled but for the dumps |
| SD card and SPI, `io/sdcard/src/sdcard.c`, `plat/cb6502/bitbang_spi.c` | command and answer state, shift registers | write, get, port write | VIA | modelled |
| platform, `plat/cb6502/cb6502.c`, `cbdbg.c` | the devices | init, destroy, main | all | modelled |
| linked lists, `core/util` | links | add, remove, iterate, free | clock, bus, VIA, signals | modelled |
| os signals, `port/os/linux` | registered handlers | register, unregister, the handler | front ends | modelled |
| command line, `frontend/dbgcli` | last command, its parameters, the line buffer | the loop of `dbgcli_run` | debugger core, os signals | modelled |
| ACIA console transport, `io/acia/src/acia_console.c` | | prints | ACIA | not modelled: output only |
| `frontend/ncurses`, `core/logging`, `core/src/sys.c`, `dbginfo/`, `port/os/windows` | | | | not modelled: section 6 |

### What is hard here

* *Order in virtual time.* Clocks of any periods share one list of relative
  times, which is charged, re-sorted and walked again within one half tick. The
  VIA looks at its flags on one edge and clears them on the other.
* *State machines spread over calls.* Each of the cpu's 212 defined opcodes
  takes several ticks, between which RDY, IRQ and NMI may change; 16 addressing
  modes and 65 handlers meet in one state variable, with shortcuts that take no
  cycle. The EEPROM's keys and the card's commands come byte by byte, the
  latter bit by bit.
* *State that outlives its purpose.* The page flag of the cpu, `sw_break`,
  breakpoint slots that are used again, parameters that point into a buffer
  which is read into again, objects that are freed while they are registered.
* *Shared lines.* Several devices pull IRQ and NMI; the edge is that of the line.
* *Interruption of the debugger*, by ctrl-C at any instruction, and by interrupts
  of the program while it counts calls and returns; and of programs, by the
  debugger's peeks.
* *Failure half way.* The machine is built in a dozen steps, any of which may fail,
  and taken down from there.
* *One real thread*, in the socket transport of the ACIA whose two sides share
  more than they lock.

What makes each component correct:

* clock: every clock is an exact square wave of its period; the main clock makes
  one edge per half tick; edges come in order of time; the loop ends.
* votes: a voter belongs to one device; a line is asserted exactly while a device
  asks for it or has left a vote behind; one NMI edge per assertion, if none was left.
* bus: the connections are one flat memory in which the first registered has
  priority; RDY repeats what the cpu did last; tracers hear the bus and only it.
* cpu: cycles and bus operations of every instruction; the stack is a stack;
  returns lead back; ticks end; every NMI is served; sums and differences of
  numbers of any length.
* socket transport: bytes arrive once, in order, and none is overwritten unread;
  no wakeup is lost; nothing is sent to a closed socket; a cleanup returns.
* debugger: run and finish stop at breakpoints, next and finish execute what they
  promise, ctrl-C stops everything, breakpoints keep their names.
* VIA: pulses end, listeners know the pins, the timer is on time, a handshake
  neither loses nor doubles a byte; with the SPI and the card behind it, a block
  that is asked for arrives.
* EEPROM: writes end when their time has come, protection holds until it is
  lifted by a whole sequence, and who polls is told the truth.
* platform and command line: nothing freed is touched, nothing is left behind, a
  repeated command means the same, the program ends.

The hazards are listed in PROJECT.json, each at its line.

## 2. Modules

| module | models | state and actions |
|---|---|---|
| `IdealClocks` | the promise of the clock | square waves in one absolute time; `Pass`, edges, adding and removing |
| `Clock` | `clock.c` | `ClockAdd`, `ClockRemove`; a half tick is `HalfTickBegin`, one `TickHead` or `TickMainOnly` per pass of the loop of `clock_main_half_tick`, `HalfTickEnd`; `HalfTickAlone` is its early return for an empty list |
| `WiredOr` | the promise of the votes | where each device is plugged in, who pulls which line, where a line has been left pulled, the NMI edge |
| `BusSignals` | `bus.c:435-534` | one action per function; `TakeNmi` is the cpu's consumption of the edge (`cpu.c:1979`). Devices unregister at any time, also while they vote, as `acia_cleanup` and `via_cleanup` do; `asked` and `left` are history |
| `AddressSpace` | the promise of the bus | owner, writability and contents of each address, value on the bus |
| `Memory` | `memory.c` | operators on a chip of RAM or ROM |
| `Bus` | `bus.c:40-433` over chips of `Memory` | one action per function |
| `CpuTables` | `addrtable` and `optable` | the 256 opcodes |
| `Cpu` | `cpu.c` | see below |
| `Alu` | the arithmetic of `cpu.c` | operators: adc, sbc, the comparisons, shifts and rotations on bytes, in both modes, with their flags |
| `Debugger` | `debugger.c` | one action per pass of a command's loop, per function on breakpoints and labels, and for `debug_break` |
| `SerialLine` | the promise of the socket transport | bytes on the line, bytes that have arrived, the last one read |
| `AciaUnixSock` | `acia_unix_sock.c` | see below |
| `Acia` | `acia.c` between a transport and a program | see below |
| `Via` | `via.c` | one operator per register write and read with an effect, per call from the pins, and per clock edge |
| `SdCard`, `BitbangSpi` | `sdcard.c`, `bitbang_spi.c` | the card byte by byte, and the SPI behind port B of `Via` |
| `ViaPrograms` | the VIA in use | the programs and peripherals; composes the three above |
| `At28c256` | `at28c256.c` | one action per state that a write finds, reads, ticks, loading, and the programs that poll |
| `Heap` | `core/util`, allocation | operators on a memory: objects, pointers, lists, and what was touched after it was freed |
| `Platform` | `cb6502.c`, and the init, register and cleanup functions of everything | one action per step of construction and destruction |
| `Dbgcli` | `cbdbg.c`, `dbgcli.c`, `os_signal.c` | `Platform` from main's start to its end, the prompt, ctrl-C, and further runs |
| `MC...` | instances | the constants of the modules of that name; `MCVia` is of `ViaPrograms`, `MCDbgcli` of `Dbgcli` |
| `ClockProofs`, `BusProofs` (with those of `BusSignals`), `AciaUnixSockProofs`, `AciaProofs`, `CpuProofs` (with those of `Alu`), `DebuggerProofs`, `DeviceProofs` (of `At28c256`, `Via`, `ViaPrograms` and `SdCard`), `DbgcliProofs` (of `Heap`, `Platform` and `Dbgcli`) | theorems | section 4 |

**Clock.** The history variables `now`, `born`, `edges`, `mainEdges`, `halves`
are the absolute time that the code does not have. A callback is seen through
the edge that it is called for. Callbacks do not add or remove clocks
(none in the repository does).

**BusSignals.** A mask is the set of the voters whose bit it holds. Devices call
`emu_bus_sig_vote` with the voter they hold only, as `acia.c` and `via.c` do.

**Bus.** A custom decoder is the set of the pairs of address and direction that it
says yes to. Handlers do not register or unregister anything (no device does).
What a read has as a side effect in a device belongs to the device.

**Cpu.** `cpu_tick` loops over turns until the cycle is consumed; each turn is one
step (`AddressTurn`, `OpTurn`, `VectorTurn`, `FetchOpcode`, `TakeNmi`,
`TakeIrq`), between `BeginTick` and `EndTick`. Each addressing mode and opcode
handler is the operator of its name, and each of its `op_state`s a disjunct of
it. Kept are pc, sp, the flags I, D and B, the contents of the stack, the page
flag and the vector source; what instructions compute is in `Alu`. Whether an
indexed operand crosses a page and whether a branch is taken is drawn when the
opcode is fetched. Bytes have `ByteSize` = 8 values, so that the stack wraps
around within a few pushes. `run`, `pushed`, `expect`, `cycles` and `accesses`
are history.

**Alu.** Bytes are numbers and flags are booleans; each operator returns the record of
the register and the flags that the handler leaves. It has no state and is
not in a run: what is said of it is proved for all operands.

**Debugger.** The machine is seen at the grain of `debug_step_i`: one instruction,
or the entry of an interrupt. Of the stack only return addresses are kept.
ctrl-C may come between any two steps, also between the call of a command and
its reset of `sw_break`. A label is in the bucket that the model gives it. A file
that overflows a bucket makes `add_label` write through a pointer that was never
set (`debugger.c:94-96`): the program may crash, which is that nothing follows, or go
on with a cpu at any address and a handle that is any of `WildHandles`, of which the
run has one and the proofs allow any; what else the write may hit is not modelled, as
nothing is claimed after it that depends on it. `missed` counts the frames that
`debug_finish` has not counted. Memory dumps and register queries are left out, as no control depends on them.

**AciaUnixSock.** Two processes: the reader thread, whose `thread` is the place in
`read_thread` and `process_client` that it has reached, and the emulator, which
is idle or in one of the calls of the interface. Each access that is not under
the lock is a step of its own; a critical section is one step, since nothing in
it blocks. The one exception is the section of `acia_unix_cleanup`, which is cut
after `shutdown` is set, as the thread reads that without the lock. What the
emulator does between `num_bytes == 0` and `read_idx` is one step: only the
thread could interfere, and it makes `num_bytes` larger and writes other cells.
Waking up is the step from "waiting" to "space", where the count is looked at
again; it may also happen for no reason. The clients, their connection and the
eventfd are the kernel's (external). `sentTo` is history.

**Acia.** `Tick` is `acia_tick`, receiver and sender; each register access is an
action. The transport is an instance of `SerialLine`, which `AciaUnixSock`
implements, so what is shown here holds on top of the socket. The bit clock is not
the clock of the cpu: a tick may come between any two accesses. The program is
external: any accesses in any order, until it may start a driver that enables
interrupts and, at each, reads the status and then the data. The vote is the
ACIA's own; how votes meet on the line is `BusSignals`. Of the transport only the
receiving direction is kept.

**Via.** Pins and flags are sets: those that are high, those that are set. A callback
becomes an event that is delivered before anything else happens. The cpu, the
two edges of the clock and what is connected to the pins are the three sides
that `ViaPrograms` puts together, in the order of `clock_main_tick`: the access of
a cycle, the falling edge, the rising edge. A latch of timer 1 has `Half` *
`Half` values. `ViaPrograms` runs one of six programs, each of which uses a part
of the VIA as `tests/io/via_tester.c` and the platform do; in `card` the listener is
the SPI and the SD card, in `bytes` the card is driven without the VIA, with
commands that it does not know.

**At28c256.** Time is counted in units that the two timeouts are multiples of, and
a tick is any of `Nanos` long. The image is kept at the addresses that the bus
uses; `pending` is the page buffer under its mask. A program writes and reads what
it likes, or writes a byte and polls it; the debugger peeks at any moment.
`keys`, `locked` and `age` are history.

**Heap, Platform and Dbgcli.** A memory is a record of what is allocated, which
handles are not NULL, and which entry is linked into which list; using, freeing or
unlinking what is not there is remembered as a fault. An intrusive list touches
its neighbours, and its head when it is empty, which is why a list must outlive its
entries or be freed with them. Functions that can fail are sets of
the memories that they may leave. A step is one function of `cb6502_init` or
`cb6502_destroy`; the reader thread, ctrl-C, and the end of the process where nothing
catches it come between any two. A line that is typed is its words and where they
begin in the buffer, since that is what parameters keep.

## 3. Runs

Passing runs:

| run | configuration | states | what it shows |
|---|---|---|---|
| `clock` | `MCClock.cfg`: 2 derived clocks with periods from 1 ns to 12 ns and frequencies, also invalid ones; main clock of 2 to 5 ns; 6 half ticks | 490 thousand | exact times, one main edge per half tick, `Clock` implements `IdealClocks`, the loop ends |
| `signals` | `MCSignals.cfg`: 3 devices, 2 voters | 95 thousand | a mask holds what devices ask for and what those that went have left; the votes implement `WiredOr`, also when devices go while they vote |
| `bus` | `MCBus.cfg`: 2 connections, 2 valid and 2 invalid decoders, chips of RAM and ROM of different sizes and bases, 1 tracer, 2 addresses, 2 values | 35 thousand | `Bus` implements `AddressSpace`; replay repeats; the tracer hears the bus |
| `cpu_timing` | `MCCpuTiming.cfg`: every opcode after NOP, SED or LDA a,X; crossing or not; RDY and one NMI at any cycle | 470 thousand | cycles of `tests/core/cpu_bin_tests.yml`, one bus operation per cycle, the next instruction is where the disassembler says, ticks end, the NMI is served |
| `cpu_stack` | `MCCpuStack.cfg`: JSR, then three of BRK, PHP, JSR, PLP, RTI, PHA, CLI, RTS, PLA, then RTI or RTS; up to two interrupts at any cycle | 8.3 million | the stack is a stack, returns lead back |
| `debugger` | `MCDebugger.cfg`: a loop that calls a subroutine which may call itself, an interrupt handler, 2 breakpoint slots, a labels file that fits and one that overflows a bucket, a symbol | 1.2 million | run and finish honour breakpoints, next completes its call, finish stops within its subroutine or at its end, ctrl-C stops, names stay |
| `sock` | `MCSock.cfg`: a ring of 3 bytes, 2 byte values, up to 2 bytes in the socket, clients one after the other | 156 thousand | `AciaUnixSock` implements `SerialLine`; no lost wakeup; a cleanup returns |
| `acia` | `MCAcia.cfg`: bits of one tick, words of 5 and 8 bits, one byte on the line and one in the transport, with and without an interrupt | 432 thousand | a word that begins ends with a byte; no interrupt is lost between the reads of the driver; every byte leads it to the data |
| `via` | `MCVia.cfg`: all programs; timer latches of 0 to 8; 2 blocks of 2 bytes on the card | 263 thousand | pulses end, listeners know the pins, timer 1 is on time, the handshake delivers, a block arrives |
| `eeprom` | `MCEeprom.cfg`: the 2 key addresses, a neighbour of one on its page, an address of another device; load 2, write cycle 3, ticks of 1 and 4 units | 478 thousand | exact timing, protection, polling is told the truth and ends |
| `session` | `MCDbgcli.cfg`: 2 runs of the program, 20 things that may fail, 2 lines of 7 kinds in each run, ctrl-C or a kill at any moment | 10 thousand | nothing freed is touched, nothing is left behind, repetition means the same, main comes to an end |

The run that is expected to fail, a difference between the code and what the
repository says of it (a finding):

| run | the code | what is said of it |
|---|---|---|
| `eeprom_peek` (`MCEepromPeek.cfg`) | the peek of the EEPROM is its read, and flips the strobe bit that a program may be comparing (`at28c256.c:198`): the program goes on while the write is not done | `core/inc/bus.h:119`: a debugger "does *not* want to actually perform a read that may cause such" an action |

### Smaller differences

The models show these too; no run is kept for them.

* Bus and clock: decoders are told `write` = true for reads and false for writes
  (`bus.c:117`, 294). `emu_bus_unregister_sig_voter` leaves the votes of the voter
  in the masks (`bus.c:478`), and `acia_cleanup` and `via_cleanup` do not drop
  them. With a main clock of 1 ns and a derived clock, half of the main edges are
  not made; the clock at the head of the list ticks before a main clock that is
  due at the same instant. `memory_load_data` takes the offset off the length of
  the data (`memory.c:240`), which wraps around if there are fewer bytes than that.
* Cpu: the page flag is never cleared, so that a later indexed store, INC or DEC which
  crosses no page takes a cycle less, 4 for `STA a,X` (`cpu.c:1392`); `CyclesAsTested`
  says when, to the cycle (`MisreadsPageFlag`). PLP and RTI keep B. `rmb`, `smb`,
  `bbr` and `bbs` find bit 0 always, and use `&&` for `&`. Decimal `adc` loses 6 when a
  digit reaches 16, as in 8 + 8 (`DecimalLosesSix`); decimal `sbc` corrects A and
  ignores its operand.
* Debugger: `debug_next` returns the opposite of what `debugger.h` says, looks for
  breakpoints at the instruction it has just executed, and waits for the
  address after the call at any depth (`debugger.c:369`), so that in a subroutine that
  calls itself it may end in the middle of the call, which `NextCompletesCall` says;
  `debug_finish` does not reset `sw_break`, and takes the RTI of an interrupt for the
  return of its subroutine (`FinishStaysWithin` says how many frames early it stops); ctrl-C
  between the call of `debug_run` or `debug_next` and its reset of `sw_break` is lost
  (`debugger.c:408`, 366); a labels file with five labels for one bucket makes
  `add_label` write through an uninitialised pointer (`debugger.c:94`); for a name of
  the debug info `debug_set_breakpoint_label` succeeds without writing
  `*breakpoint_handle` (`debugger.h:103`). A label of exactly 64 characters is not
  terminated.
* Disassembler: `disassemble_buffer_strings` and `disassemble_buffer_info` leave their
  loops at the first opcode and return 0; at the top of memory the string of the
  prompt is not written (`disassemble.c:214-226`); 1A and 3A are called NOP, DB STP.
* ACIA: the bus callbacks let registers below `ACIA_REG_MAX` through, which is the
  control register itself (`acia.c:14`, 139), so that it can be set by `acia_write`
  only, as the tests do; a software reset clears DTR but, unlike a command that
  does so, lets a transmission go on (`acia.c:329-345`).
* VIA: a latch of 0xffff is taken for the end; a PCR that is written while a pulse
  ends; port B latches by `pa_latch`; IER is kept and not asked; C2 turning from an
  input into an output tells nobody; `via.c:611` gives a connection back twice.
* SD card: in `SD_MODE` every command is answered; the first byte of R7 is never sent;
  `defaut:` (`sdcard.c:114`) is a label and not the default of its switch.
* EEPROM: a write during the write cycle moves the address that is polled; a
  protection sequence that is not completed in time writes AA to 5555.
* Peeks: those of the ACIA (`acia.c:175`) and the VIA (`via.c:262`) are reads too.
* Platform and command line: the results of registering devices are ignored by
  `cb6502_init`, and that of `dbgcli_run` by main; the file of the card and the
  debugger are never freed; `emu_init` clears its memory before it looks whether
  it has got any (`emulator.c:28-30`), and a thread that could not be started is
  joined (`pthread_create` does not return less than 0, `acia_unix_sock.c:292`): the
  two are left out of what may fail in run `session`. ctrl-C at the prompt ends the
  debugger; `os_unregister_signal` uses 0 for the signal (`os_signal.c:143`), so that
  its old action does not come back; a line of exactly 255 characters runs its
  command twice (`dbgcli.c:328`).

### Bounds, and why they are enough

* `MaxHalves` = 6: three cycles of the main clock. With `TicksAreTimeToEdge` the
  state of a clock depends on its edges modulo 2, and the configurations cover
  periods shorter than, equal to, and longer than a half tick, odd and even. The
  proofs have no such bound.
* `NsPerSec` = 12 scales 10^9: frequencies that divide it, that do not (rounding
  up and down), and that exceed it.
* `MaxVoters` = 2 with three devices: voters run out. The proofs have no bound.
* `AddrBits` = 1: each address is decoded on its own, and two connections on two
  addresses already shadow, overlap partly, and miss.
* `MaxInts`: interrupts taken, 1 and 2; two interrupts nest. `Program`: the
  instructions that leave state for a later one are the page flag, D and I, each
  of which precedes every opcode.
* `Size` = 3, `MaxInflight` = 2: the ring fills, wraps around in the middle of a
  read, and a read is cut at its end; a client can fill it only in two reads. Two
  byte values tell an order from another one. The proofs have no such bound.
* `acia`: `acia_tick` counts words down tick by tick, so that their length does not
  matter to what may happen between its beginning and its end but for being more
  than the driver's two accesses, which 7 to 10 ticks are. One byte that is read, one
  on its way and one on the line already overrun the receiver. The proofs have no
  such bounds.
* `MaxDepth` = 2 calls that the program makes within each other, by its branch: it calls a
  subroutine that calls itself, so that the address after a call is reached in the call
  as well as by its return. The proofs have no such bound.
* `Half` = 3: latches of 0 to 8, so that the timer runs out, is started again, and has
  its latch written in one byte and not the other, while it counts; the value that
  is taken for the end, 8, is among them. `SectorSize` = 2: the card counts bytes, and
  has a first and a last one. A block's number takes more than one byte of a command.
* `T_BLC` = 2, `T_WC` = 3, ticks of 1 and 4: a tick ends neither, the load, the write
  cycle, or, beginning in the load, both. Of addresses only the page, the keys and the
  last one written are told apart.
* `MaxRuns` = 2: what a run leaves behind is seen by the next one, whatever had left it.
  `MaxLines` = 2: a command, and its repetition by an empty line or after another one.
* `BucketSize` = 2: one labels file fills a bucket, with the same name twice, and one
  overflows it. `WildHandles` has one member, with breakpoints and labels that are
  none and `sw_break` set. The proofs have no such bounds.

### Fairness

All of the code but the socket transport is sequential: a loop that has begun goes
on, and in `Dbgcli` so does main. `Clock` assumes weak fairness of the passes of the loop, `Cpu` of `CpuStep`
(the front end keeps calling `emu_tick`), `Debugger` of the steps of a command,
unless a bucket of labels has overflowed, when the program may crash at any moment.
Nothing is assumed of devices, interrupts, the user or the program; `NmiIsServed`
is stated for runs in which RDY is let go in the end, as a device may hold it for
ever.

`AciaUnixSock` assumes that the thread is scheduled (`WF(Thread)`: the code blocks
only in poll, on the lock and on the condition, at which no step of it is
enabled) and that a cleanup that has begun goes on. It does not assume that
clients do anything, that the emulator ever reads, or that a spurious wakeup
comes. Memory is taken to be sequentially consistent: the unlocked accesses to
`num_bytes`, `buffer` and `shutdown` are data races in C, and what a compiler may
do with them beyond that is not modelled.

`Acia` assumes that the bit clock ticks on (the emulator is ticked for ever) and that
the driver goes on from an interrupt to its reads. `DriverIsServed` does not assume
that it sends anything, nor that bytes come.

`ViaPrograms` assumes that the program of the card goes on and callbacks are
delivered; `At28c256` that ticks go on while a write is under way, and a program that
polls; neither assumes that anything is begun. `Dbgcli` assumes that main goes on
from any step but the prompt, that a command comes to its end (what that takes is
`Debugger`'s), and that a thread which has been told ends; it does not assume that
lines are typed.

All runs check for deadlock, except `sock`, where everything ends after a
cleanup, and `session`, where the last run of the program ends; that nothing is stuck
before is `CleanupReturns` and `ComesToAnEnd`.

## 4. Proofs

TLAPS checks eight modules.

**Clock**, for any set of clocks and any accepted configurations, with the named
assumption `ClockAssumption` (configurations are records of the right type,
`NsPerSec` is positive):

* `TypeCorrect`, `ListAlwaysSorted`, `NoDrift`: the inductive invariant is the type,
  the sorted list without duplicates, and the exact relation of relative ticks to
  absolute time. Sortedness is needed for the type (charging the head's time to
  the others must not become negative), and the type for the sort.
* `OneMainEdgePerHalfTick`: if every main configuration that is accepted has a
  period of at least 2 ns. Without that it is false (see above).
* `SchedulerIsExact`: `Spec` implements `IdealClocks`, by step simulation: a pass of
  the loop is an edge of one derived clock, of the main clock, or of both.

**BusSignals**, for any number of devices and of voters, with `SignalAssumption`
(the invalid voter is none of the voters):

* `SignalsTypeCorrect`, `VotersStayExclusive`: each device has a voter of its own,
  and the allocated ones are those that devices have.
* `LinesAreAccountedFor`: each mask is the voters of the devices that ask for the
  line, and what was left in it by those that went without dropping their votes
  (`bus.c:478` clears the bit of `allocated` only). So a line is stuck exactly when
  something was left there, and until the next device with that voter votes on it.
  Needs that voters are exclusive: otherwise the vote of one could drop another's.
* `VotesAreWiredOr`: the votes implement `WiredOr`, in which a device that goes while
  it pulls leaves the line pulled at its place. Who pulls is read from the masks;
  that those are the ones who ask is the invariant above (`PullersAsk`). None of
  these assumes that devices drop their votes before they go.

**AciaUnixSock**, for a ring of any size, any bytes and any number of clients, with
`SockAssumption` (the size is positive, 0 is a byte):

* `SockTypeCorrect`, `CountStaysSafe`, `NoLostWakeup`, `SendsToOpenSockets`. The
  inductive invariant `SockInv` relates the two indices and the count: `writeIdx`
  is `readIdx` moved on by what is unread and what is read but not counted yet,
  where a byte that is taken but still counted is not unread. It also needs that
  the count of free cells, taken under the lock, is at most what is free later:
  that is what keeps the thread's unlocked write inside of the ring.
* `SocketIsASerialLine`: `SockSpec` implements `SerialLine`. The line that a state
  stands for is what has been read but not counted, followed by what waits in the
  socket (`LineOf`); the queue is what is counted and not taken (`QueueOf`). A read
  does not show, since the cells it writes are none of the queue's (`ReadUnseen`,
  by `SockInv`); counting is the arrival (`CountArrives`, by `SliceSplits`: two
  neighbouring stretches of the ring are one, across its end too); taking is the
  reception.

**Acia**, for any transport size, bytes, baud rates and formats of words, with
`AciaAssumption` (a bit takes at least a tick):

* `AciaTypeCorrect`, `WordsEndWithAByte`, `StatusShowsTheVote`, `NoInterruptIsLost`.
  The inductive invariant adds to them that a driver, once started, has a voter
  and keeps DTR set and interrupts enabled (`DriverRules`). What arrives in the
  transport leaves it by `acia_tick` only (`QueueOnlyGrows`), and a word takes at
  least one tick (`WordTakesTime`).

**Bus**, for any width of the address bus and any connections, decoders, handlers,
chips, bytes and tracers, with `MemoryAssumption`, `BusAssumption` and
`BlankAssumption`: there is something to register, chips end within the address
space (those of the platform do), and there are 2 ^ `AddrBits` > 0 addresses, which
is assumed since the provers know no exponentiation.

* `BusTypeCorrect`, `ReplayAlwaysRepeats`, `TracersAlwaysHear`. The inductive
  invariant `BusInv` adds that no connection and no tracer is in its list twice
  (else something of it would be left when it goes), that the operation which is
  remembered is the one that was asked for, and that a remembered write has a value.
* `BusIsFlatMemory`: `Spec` implements `AddressSpace`. Who answers is the first
  position of the list that does (`AnswerIsFirst`; there is a first one by
  `FirstPosition`). A registration appends and takes only what was nobody's
  (`RegisterOwns`); removal moves positions up, and everybody who is left keeps what
  was his (`UnregisterLeaves`); a write reaches all chips that decode its address and
  is seen at one address of each (`BusWriteIsLocal`), which needs that an address
  below the base of a chip is not mapped into it by the subtraction modulo 2 ^ `AddrBits`.

**Alu**, for all operands; there is nothing to assume:

* `AdcAdds`, `SbcSubtracts`, `LongAddition`: binary mode is arithmetic, with the
  carry, the borrow and V where they should be, also from byte to byte.
* `CmpIsSbcWithoutBorrow`, `RorUndoesRol`.
* `DecimalAdds`: in decimal mode sums are right if no digit with what is carried
  into it comes to 16 or more; `DecimalLosesSix`: they are not otherwise.

**Cpu**, for any width of bytes from 8 values on, any program of sets of opcodes, any
targets, vectors and number of interrupts, with `CpuAssumption` (these are what they
are called). What is drawn when an opcode is fetched (pages crossed, branches taken,
data pulled) and what the devices do to IRQ, NMI and RDY is arbitrary.

* `StackIsAStack`: `StackIsLifo` is inductive, given the types. What is pushed beyond the
  size of page 1 overwrites the oldest, so the invariant is about the newest
  `ByteSize` bytes only.
* `EveryInstructionTimed`, `EveryCycleAnAccess`, `DisassemblyFollowsTheCpu`: one invariant,
  `Proceeds`, says at each turn of `cpu_tick` how far the instruction has come: which
  state of which addressing mode or handler (`Reached`), and what must have been
  consumed (`Counted`), read (`Accessed`) and stepped over (`Placed`) by then, given its
  page flag (`Paged`). The flag outlives its instruction, and the one cycle that this
  costs a later one is part of what is proved (`MisreadsPageFlag`). The 256
  rows of the opcode table are decoded one by one (`Rows`).
* `ReturnsArrive`: what lies on the stack is a list of frames (`Framed`), each of a JSR, an
  interrupt or a push, and while a frame is being built or taken down its bytes are
  there or gone as far as `op_state` says (`Framing`, `Returning`). A program that
  pushes and returns to what it pushed has no frame to return to, and nothing is
  claimed of it.
* The proof of the first found that two arms of `TestedCycles` overlapped, for shifts of
  the accumulator: TLC takes the first arm, the definition said nothing. They
  are disjoint now.

**Debugger**, for any program, labels file, debug info and buckets, with
`DebuggerAssumption` (instructions end within the program). Only `NamesAreTrue` is
limited to files that fit into the table; the others hold for any `WildHandles` too.

* `NamesAreTrue`: `NamesKept` adds that a slot's name and address come from one line of
  the file or one symbol, and that a free slot has no name.
* `HonouringBreakpoints`, `NextCompletes`, `FinishLeaves`: while `next` works, the
  caller's stack is below all that is on the stack, and what returns to the caller
  returns to the JSR or past it (`WithinCall`); the frames above the caller are as many
  as `finish` has counted and missed together (`FinishCounts`), where an interrupt in
  the place of a JSR is none that is missed, one in the place of a return is two.
  The proof of `NextCompletes` failed
  for programs in which a subroutine calls itself through the same JSR: there
  `next` ends within the call. The property now says so, and the program of the run
  recurses.

**At28c256**, for any timeouts, lengths of ticks, addresses and data, with
`At28c256Assumption` (timeouts and ticks are positive, addresses have 16 bits).

* `TimesAreExact`: `AgeIsElapsed` relates the device's counter, which starts over at the
  write cycle, to the time since the last byte.
* `ProtectionIsKept`: `KeysTellProtection`: where the device is in a key sequence is what
  the writes seen so far say, and an unfinished sequence is not a whole one.
* `PollIsTrue`: `PolledByte`: the byte that is polled is in the page buffer, its page is the
  one that is kept, and bit 7 of what is remembered is its own.

**Via**, for any pins and a timer of any width, with `ViaAssumption` and
`BitbangSpiAssumption` (PB7 and the pins of the SPI are pins; the timer counts). What
is done to the VIA from all sides is one relation, `ViaStep`, to which the programs
are reduced (`ProgramSteps`); callbacks change the pins of port B at most
(`DeliveryWrites`).

* `EveryPulseEnds`: `PulsesEnd` is inductive, given the types.
* `ListenersAreTold`: `ToldOf`: what a port drives was heard, or its callback is due. Each
  operation either calls back or leaves all that is driven as it is
  (`ChangesAreTold`).
* `TimerIsOnTime`: `Counting` says what is left to count before the rising edge and before
  the falling one, with the cycle in which T1CH was written, and with the latch
  that is taken for the end, apart.
* `HandshakeIsKept`: `Agreed`: the peripheral, the flag CA1 and the line CA2 agree on
  whether the byte that is shown has been read.

**Heap, Platform and Dbgcli**, for any lines, with or without labels, any number of runs
and any choice of what fails, with `DbgcliAssumption` (a line has at most 254 characters,
and its words are apart). Two of the functions that could fail are taken to succeed, as
the code takes them to: `NothingDangles`, `NothingIsLeft` and `Typing` have the hypotheses
`"emu" \notin Fallible` and `"thread" \notin Fallible`. Without them the first is false (section
3, "Smaller differences"), and the other two rest on the same invariant.

* `NothingDangles`, `NothingIsLeft`: a memory is seen as three sets, of what is live,
  pointed to and linked (`Is`); each function of the clock, the bus and the devices has a
  lemma that says which sets it leaves, on every way out of it. That the unordered view is
  enough is one lemma about lists: unlinking touches neighbours, which are live in a
  sound memory, or the head, which must outlive its entries (`Sound`). `Fit`, the
  inductive part, says for each step of main what can be live there (`Owned`), what must
  be (`Provided`), what comes as a whole (`AciaWhole`), and that what is allocated for a
  list is in it (`Enrolled`), but for the signal entry between being allocated and being
  linked. The join of an ACIA that was made without a tick is a position of its own,
  before the rest of the machine. The EEPROM is freed while its callbacks are still
  registered: they are owned longer than it (`rom_tick` and `rom_conn` to `emu_cleanup`),
  and between the two nothing ticks.
* `RepeatsAreTheSame`: in `Repeatable` each word in the buffer has a place of its own, and
  no parameter begins before the third character, as words are apart and the first one is
  the command's name: the newline and the 0 of an empty line do not reach it. The theorem
  needs nothing about failures.
* TLC has checked the inductive invariants (`Standing`, `Repeatable`, `Counted`) in the
  states of run `session`.

**SdCard**, for any blocks of any size, with `SdCardAssumption` (a sector is not empty, and
blocks are as long as one):

* `CardTyping`: whatever comes over the pins, or from another master, the card stays within
  `cmd_buf`, `rsp_buf` and `sector_buf`. `CardTyped` adds that a card which is not ready has not
  had its sixth ACMD41, as that makes it ready and nothing takes it back.

With it every type invariant that a module states is a theorem.

Only model-checked: all liveness, which is out of the prover's reach (it needs ENABLED);
that a block which is asked for arrives (`BlockArrives`) is one.

## 5. Plan

Done: clock, votes, bus and memory, cpu, arithmetic, debugger, ACIA with its socket,
VIA with the SPI and the card, EEPROM, the platform with its front end; proofs of every
safety property that a run checks.

Left: clock, bus and cpu composed at the grain of a tick, with the values of the registers,
for which the bitwise instructions are missing.

## 6. Not modelled, and why

* The values of the bitwise instructions (`and`, `ora`, `eor`, `bit`, `trb`, `tsb`): their
  control is in `Cpu`; their results are the operators of C.
* `core/src/sys.c` and `plat/cb6502/cbconsole.c`: not in the build.
* `frontend/ncurses`: not in the build, and written against the interface of `sys.c`.
* `dbginfo`: vendored from cc65. `Debugger` takes from it what an address and a name
  are looked up to.
* `core/logging`, the ACIA's console transport, mnemonics and the layout of what is
  printed: output only.
* `port/os/windows`: another implementation of what `Dbgcli` has of the Linux port.
* Callbacks that change the list that is being walked: no caller does so.
* What a compiler may make of the data races of `acia_unix_sock.c`, beyond the
  interleavings of its loads and stores.
* `emu_init` without memory, and `pthread_create` that fails: section 3, "Smaller
  differences".
