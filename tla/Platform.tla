------------------------------- MODULE Platform -------------------------------
(***************************************************************************)
(* The life of the CB6502 machine: cb6502_init builds the emulator and its *)
(* devices one after the other, any of them may fail, and cb6502_destroy   *)
(* takes apart what there is (plat/cb6502/cb6502.c, core/src/emulator.c    *)
(* and the init, register and cleanup functions of clock, bus and devices).*)
(*                                                                         *)
(* A step is one function of the device that it sets up or takes down.     *)
(* Between any two of them the read thread of the socket runs.             *)
(***************************************************************************)
EXTENDS Heap

VARIABLES
  mem,      \* the memory, see Heap
  stage,    \* how far main is
  told      \* the read thread has been told to end: shutdown and the eventfd

platVars == <<mem, stage, told>>

SocketName == "acia.sock"   \* the name in the file system

Goto(s) == stage' = s

-----------------------------------------------------------------------------
(* core/src/clock.c: clock_alloc_clk, clock_add, the callbacks and the end. *)
clock_add(m, c) ==
  {IF c \in n.live THEN list_add_tail(n, "clks", c) ELSE n : n \in Tried(m, c)}

clock_register_tick(m, clk, entry) ==
  {IF entry \in n.ptr THEN list_add_tail(n, clk, entry) ELSE n : n \in Tried(m, entry)}

clock_unregister_tick(m, entry) ==
  IF entry \in m.ptr THEN free(list_remove(m, entry), entry) ELSE m

clock_free_clk(m, c) == free(list_free(m, c), c)
clock_remove(m, c)   == clock_free_clk(list_remove(m, c), c)

clock_cleanup(m) ==
  LET clks    == ToSet(m.lists["clks"]) \cup {"mainclk"}
      entries == UNION {ToSet(m.lists[c]) : c \in clks}
  IN IF "mainclk" \notin m.ptr THEN m
     ELSE [Uses(m, clks \cup entries) EXCEPT
             !.live = @ \ (clks \cup entries),
             !.lists = [l \in DOMAIN @ |-> IF l \in clks \cup {"clks"} THEN <<>> ELSE @[l]]]

(* core/src/bus.c.                                                          *)
emu_bus_register(m, conn) ==
  {IF conn \in n.ptr THEN list_add_tail(n, "conns", conn) ELSE n : n \in Tried(m, conn)}

emu_bus_unregister(m, conn) ==
  IF conn \in m.ptr THEN free(list_remove(m, conn), conn) ELSE m

bus_cleanup(m) == list_free(m, "conns")

(* core/src/emulator.c.  What is not there yet is recognised by its NULL.   *)
\* (a mutant: what is still registered on the bus is left)
CleansClocksOnly(m) == free(clock_cleanup(m), "emu")

emu_cleanup(m) == free(clock_cleanup(bus_cleanup(m)), "emu")

-----------------------------------------------------------------------------
(* io/acia/src/acia_unix_sock.c: what has been opened when one call fails   *)
(* is closed again.  bind makes the name, and fails when it is there.      *)
unlink(m) == [m EXCEPT !.live = @ \ {SocketName}]

CloseIf(m, fd) == IF fd \in m.live THEN free(m, fd) ELSE m

destroy_context(m) ==
  Forget(free(unlink(CloseIf(CloseIf(m, "server_sock"), "eventfd")), "trans"), "trans")

ClearsName(m) == unlink(m)

bind(m) ==
  IF SocketName \in m.live THEN [m EXCEPT !.faults = @ \cup {SocketName}]
  ELSE [m EXCEPT !.live = @ \cup {SocketName}]

acia_unix_init(m) ==
  LET cxt     == Forget(Made(m, "trans"), "trans")
      event   == Tried(cxt, "eventfd")
      sock    == UNION {Tried(n, "server_sock") : n \in {e \in event : "eventfd" \in e.live}}
      cleared == {ClearsName(n) : n \in {e \in sock : "server_sock" \in e.live}}
      bound   == {bind(n) : n \in cleared}
      broken  == {n \in event : "eventfd" \notin n.live}
                 \cup {n \in sock : "server_sock" \notin n.live}
                 \cup {n \in bound : SocketName \in n.faults \cup Fallible}
      started == UNION {Tried(n, "thread") : n \in {b \in bound : SocketName \notin b.faults}}
  IN {m} \cup {destroy_context(n) : n \in broken}
         \cup {[n EXCEPT !.ptr = @ \cup {"trans"}] : n \in started}

(* pthread_join, of a thread that has ended.                                *)
pthread_join(m) ==
  IF "thread" \in m.ptr THEN m ELSE [m EXCEPT !.faults = @ \cup {"thread"}]

-----------------------------------------------------------------------------
(* The devices: io/at28c256, io/acia, io/via, io/memory, and the card and   *)
(* the bus between it and the VIA.  A device that could not be made leaves *)
(* its pointer NULL; of the registration on the bus the result is ignored. *)
(* (The voters that it takes are in BusSignals.)                           *)
at28c256_register(m) == emu_bus_register(m, "rom_conn")
acia_register(m)     == emu_bus_register(m, "acia_conn")
via_register(m)      == emu_bus_register(m, "via_conn")
memory_register(m)   == emu_bus_register(m, "ram_conn")

at28c256_init(m) ==
  {m} \cup
  {IF "rom_tick" \in n.ptr THEN n ELSE Forget(free(n, "rom"), "rom") :
     n \in clock_register_tick(Made(m, "rom"), "mainclk", "rom_tick")}

at28c256_destroy(m) == IF "rom" \in m.ptr THEN free(m, "rom") ELSE m

via_init(m) ==
  {m} \cup
  {IF "via_tick" \in n.ptr THEN n ELSE Forget(free(n, "via"), "via") :
     n \in clock_register_tick(Made(m, "via"), "mainclk", "via_tick")}

via_cleanup(m) ==
  LET unmapped == emu_bus_unregister(m, "via_conn")
      deaf     == list_free(unmapped, "callbacks")
      unticked == clock_unregister_tick(deaf, "via_tick")
  IN free(unticked, "via")

memory_cleanup(m) == free(emu_bus_unregister(m, "ram_conn"), "ram")

(* acia_init: without a transport or without a tick it is cleaned up again. *)
acia_init(m) ==
  LET opened == acia_unix_init(Forget(Made(m, "acia"), "acia"))
  IN {n \in opened : "trans" \notin n.ptr}
     \cup UNION {clock_register_tick(n, "aciaclk", "acia_tick") :
                   n \in {o \in opened : "trans" \in o.ptr}}

(* acia_cleanup once the thread, if there is a transport, has ended.        *)
acia_cleanup(m) ==
  LET closed   == IF "trans" \in m.ptr THEN destroy_context(pthread_join(m)) ELSE m
      unmapped == emu_bus_unregister(closed, "acia_conn")
      unticked == clock_unregister_tick(unmapped, "acia_tick")
  IN free(unticked, "acia")

(* A callback of the VIA, and who has one: plat/cb6502/bitbang_spi.c.       *)
via_register_callback(m, cb) ==
  {IF cb \in n.ptr THEN list_add_tail(n, "callbacks", cb) ELSE n :
     n \in Tried(Uses(m, {"via"}), cb)}

via_unregister_callback(m, cb) == free(list_remove(m, cb), cb)

bitbang_spi_init(m) == via_register_callback(m, "spi_cb")

bitbang_spi_cleanup(m) ==
  IF "spi_cb" \in m.ptr THEN Forget(via_unregister_callback(m, "spi_cb"), "spi_cb") ELSE m

-----------------------------------------------------------------------------
(* cb6502_init.  A step that leaves what it needs NULL goes to "error".     *)
Builds(here, outcomes, needs, next) ==
  /\ stage = here
  /\ mem' \in outcomes
  /\ Goto(IF needs \subseteq mem'.ptr THEN next ELSE "destroy")
  /\ UNCHANGED told

Maps(here, registered, next) == Builds(here, registered, {}, next)

EmuInit ==
  /\ stage = "emu"
  /\ \/ /\ "emu" \in Fallible
        /\ mem' = [mem EXCEPT !.faults = @ \cup {"emu"}]
        /\ Goto("exit")
     \/ \E m \in Tried(Made(mem, "emu"), "mainclk") :
          IF "mainclk" \in m.ptr
          THEN mem' = m /\ Goto("rom")
          ELSE mem' = Forget(emu_cleanup(m), "emu") /\ Goto("exit")
  /\ UNCHANGED told

(* The rom file may be missing before there is a device.                    *)
RomInit    == Builds("rom", {mem} \cup at28c256_init(mem), {"rom"}, "map_rom")
RomMap     == Maps("map_rom", at28c256_register(mem), "acia_clk")
AciaClkAdd == Builds("acia_clk", clock_add(mem, "aciaclk"), {"aciaclk"}, "acia")

AciaInit ==
  /\ stage = "acia"
  /\ \E m \in {mem} \cup acia_init(mem) :
       IF "acia" \notin m.live
       THEN mem' = m /\ Goto("destroy") /\ UNCHANGED told
       ELSE IF "trans" \notin m.ptr
       THEN mem' = acia_cleanup(m) /\ Goto("destroy") /\ UNCHANGED told
       ELSE IF "acia_tick" \notin m.ptr
       THEN mem' = m /\ Goto("join") /\ told' = TRUE
       ELSE mem' = [m EXCEPT !.ptr = @ \cup {"acia"}] /\ Goto("map_acia") /\ UNCHANGED told

AciaMap == Maps("map_acia", acia_register(mem), "via")
ViaInit == Builds("via", via_init(mem), {"via"}, "map_via")
ViaMap  == Maps("map_via", via_register(mem), "ram")
RamInit == Builds("ram", Tried(mem, "ram"), {"ram"}, "map_ram")
RamMap  == Maps("map_ram", memory_register(mem), "sdcard")
SdInit  == Builds("sdcard", Tried(mem, "image_fd"), {}, "spi")
SpiInit == Builds("spi", bitbang_spi_init(mem), {"spi_cb"}, "session")

-----------------------------------------------------------------------------
(* cb6502_destroy: what is not NULL is taken down, in this order.           *)
\* (a mutant: the clock of the ACIA is removed before the ACIA)
ClockBeforeAcia ==
  <<"destroy", "free_rom", "free_ram", "free_via", "free_clk", "free_acia", "free_emu", "exit">>

DestroyOrder ==
  <<"destroy", "free_rom", "free_ram", "free_via", "free_acia", "free_clk", "free_emu", "exit">>

After(s) == LET i == CHOOSE k \in DOMAIN DestroyOrder : DestroyOrder[k] = s
            IN DestroyOrder[i + 1]

Frees(here, o, freed) ==
  /\ stage = here
  /\ mem' = IF o \in mem.ptr THEN freed ELSE mem
  /\ Goto(After(here)) /\ UNCHANGED told

SpiCleanup == Frees("destroy", "spi_cb", bitbang_spi_cleanup(mem))
RomDestroy == Frees("free_rom", "rom", at28c256_destroy(mem))
RamCleanup == Frees("free_ram", "ram", memory_cleanup(mem))
ViaCleanup == Frees("free_via", "via", via_cleanup(mem))
ClkRemove  == Frees("free_clk", "aciaclk", clock_remove(mem, "aciaclk"))
EmuCleanup == Frees("free_emu", "emu", emu_cleanup(mem))

(* acia_cleanup tells the thread to end, waits for it, and frees the rest.  *)
\* (a mutant: the thread is waited for and not told)
WaitsOnly == FALSE

Shutdown == TRUE

AciaStop ==
  /\ stage = "free_acia"
  /\ IF "acia" \in mem.ptr
     THEN told' = Shutdown /\ mem' = Uses(mem, {"trans", "eventfd"}) /\ Goto("join")
     ELSE Goto(After(stage)) /\ UNCHANGED <<mem, told>>

AciaJoin ==
  /\ stage = "join"
  /\ "thread" \notin mem.live
  /\ mem' = acia_cleanup(mem)
  /\ Goto(IF "acia" \in mem.ptr THEN After("free_acia") ELSE "destroy")
  /\ UNCHANGED told

(* The read thread works on the context until it has been told to end.      *)
ThreadRuns ==
  /\ "thread" \in mem.live
  /\ mem' = Uses(mem, {"trans", "eventfd", "server_sock"})
  /\ UNCHANGED <<stage, told>>

ThreadEnds ==
  /\ "thread" \in mem.live /\ told
  /\ mem' = [mem EXCEPT !.live = @ \ {"thread"}]
  /\ UNCHANGED <<stage, told>>

Lifecycle ==
  \/ EmuInit \/ RomInit \/ RomMap \/ AciaClkAdd \/ AciaInit \/ AciaMap
  \/ ViaInit \/ ViaMap \/ RamInit \/ RamMap \/ SdInit \/ SpiInit
  \/ SpiCleanup \/ RomDestroy \/ RamCleanup \/ ViaCleanup
  \/ AciaStop \/ AciaJoin \/ ClkRemove \/ EmuCleanup

(* What is registered is called with its device as the argument: by a tick  *)
(* of its clock, an access to the bus, a change of the VIA's port.         *)
Owner == [rom_tick |-> "rom", rom_conn |-> "rom", ram_conn |-> "ram",
          acia_tick |-> "acia", acia_conn |-> "acia",
          via_tick |-> "via", via_conn |-> "via", spi_cb |-> "via"]

Called(m, l) == ToSet(m.lists[l]) \cup {Owner[e] : e \in ToSet(m.lists[l])}

clock_make_callbacks(m, clk) == {clk} \cup Called(m, clk)

bus_peek(m) == Uses(m, {"emu"} \cup Called(m, "conns"))

emu_tick(m) ==
  LET ticked == {"mainclk"} \cup ToSet(m.lists["clks"])
  IN Uses(bus_peek(m), Called(m, "callbacks")
                       \cup UNION {clock_make_callbacks(m, c) : c \in ticked})
===============================================================================
