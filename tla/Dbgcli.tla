-------------------------------- MODULE Dbgcli --------------------------------
(***************************************************************************)
(* The program cbdbg: main (plat/cb6502/cbdbg.c) builds the machine, gives *)
(* it to the command line debugger (frontend/dbgcli) and takes it down.    *)
(* Ctrl-C (port/os/linux/src/os_signal.c) may come between any two steps,  *)
(* and so may the end of the process where nothing catches it; another run *)
(* then finds what this one has left in the file system.                   *)
(*                                                                         *)
(* Of the debugger's commands what they do is in Debugger; here they let   *)
(* the machine run, or not.                                                *)
(***************************************************************************)
EXTENDS Platform

CONSTANTS
  Lines,     \* what the user types: words, where each begins, the length
  WithLabels,\* whether there is a labels file
  MaxRuns,   \* bound of the model: runs of the program
  MaxLines   \* bound of the model: lines typed in a run

None == "none"

CommandName == {"continue", "next", "step", "finish", "registers", "breakpoint",
                "examine", "quit"}
Running     == {"continue", "next", "step", "finish"}   \* they tick the machine

ASSUME DbgcliAssumption ==
  /\ \A l \in Lines : /\ l.words \in Seq(STRING) /\ l.at \in Seq(Nat)
                      /\ Len(l.words) = Len(l.at) /\ l.len \in 0 .. 254
                      /\ \A i \in DOMAIN l.at : l.at[i] \in 0 .. l.len - 1
                      /\ \A i, j \in DOMAIN l.at : i < j => l.at[i] + 1 < l.at[j]
  /\ WithLabels \in BOOLEAN /\ MaxRuns \in Nat \ {0} /\ MaxLines \in Nat

VARIABLES
  cmd,        \* the command of the last line, NULL if there was none of the name
  params,     \* params: where in inbuf the values are
  inbuf,      \* the words that inbuf holds, by where they begin
  given,      \* history: the words that the parameters had when typed
  seen,       \* history: the words that the handler has got
  handler,    \* SIGINT is caught by sig_handler
  runs, lines \* counted for the bounds

cliVars == <<cmd, params, inbuf, given, seen>>
vars    == <<platVars, cliVars, handler, runs, lines>>

Ended == stage \in {"exit", "killed"}

-----------------------------------------------------------------------------
(* dbgcli_run, up to the prompt.                                            *)
KeepCli == UNCHANGED <<cliVars, handler, runs, lines>>

DebugInit ==
  /\ stage = "session"
  /\ mem' \in Tried(mem, "debugger")
  /\ Goto(IF "debugger" \in mem'.ptr THEN "labels" ELSE "destroy")
  /\ UNCHANGED told /\ KeepCli

LoadLabels ==
  /\ stage = "labels"
  /\ \/ Goto("sigaction")
     \/ WithLabels /\ Goto("destroy")
  /\ UNCHANGED <<mem, told>> /\ KeepCli

(* os_register_signal: the action is installed, then the entry is linked.   *)
SigAction ==
  /\ stage = "sigaction"
  /\ \/ /\ mem' = Made(mem, "sigdata") /\ handler' = TRUE /\ Goto("sigadd")
     \/ /\ "sigdata" \in Fallible
        /\ Goto("prompt") /\ UNCHANGED <<mem, handler>>
  /\ UNCHANGED <<told, cliVars, runs, lines>>

SigAdd ==
  /\ stage = "sigadd"
  /\ mem' = list_add_tail(mem, "signals", "sigdata")
  /\ Goto("prompt")
  /\ UNCHANGED told /\ KeepCli

(* dbgcli_run returns, and with it go its buffers.  The action of  *)
(* SIGINT stays what it is: os_unregister_signal calls sigaction with       *)
(* OS_CTRLC, which is 0 and no signal, and that fails.                     *)
Unregister ==
  /\ stage = "unregister"
  /\ mem' = IF "sigdata" \in mem.ptr
            THEN Forget(free(list_remove(mem, "sigdata"), "sigdata"), "sigdata") ELSE mem
  /\ Goto("destroy")
  /\ cmd' = None /\ params' = <<>> /\ inbuf' = {} /\ given' = <<>> /\ seen' = <<>>
  /\ lines' = 0
  /\ UNCHANGED <<told, handler, runs>>

(* sig_handler calls debug_break of each entry; a prompt that is waiting in *)
(* fgets gets no line.  Without a handler the process ends.                *)
sig_handler(m) == Uses(m, UNION {{e, "debugger"} : e \in ToSet(m.lists["signals"])})

CtrlC ==
  /\ ~Ended
  /\ IF handler
     THEN /\ mem' = sig_handler(mem)
          /\ stage' \in {stage} \cup (IF stage = "prompt" THEN {"unregister"} ELSE {})
     ELSE /\ mem' = NoMemory(mem.live \cap {SocketName})
          /\ Goto("killed")
  /\ UNCHANGED told /\ KeepCli

-----------------------------------------------------------------------------
(* parse_cmd: a command has a name and a letter; up to MAX_PARAMS words     *)
(* follow.  What is kept of a word is where it is in inbuf.                *)
MaxParams == 10

Letter == [c |-> "continue", n |-> "next", s |-> "step", f |-> "finish",
           r |-> "registers", b |-> "breakpoint", x |-> "examine", q |-> "quit"]

Command(w) ==
  IF w \in DOMAIN Letter THEN Letter[w] ELSE IF w \in CommandName THEN w ELSE None

Parsed(l)   == IF l.words = <<>> THEN None ELSE Command(Head(l.words))
ParamsOf(s) == SubSeq(Tail(s), 1, IF Len(s) > MaxParams THEN MaxParams ELSE Len(s) - 1)

(* fgets: the line, its newline and the 0 after it replace what was there.  *)
\* (a mutant: the buffer is cleared before each line)
ReadsCleared(l) == {[at |-> l.at[i], word |-> l.words[i]] : i \in DOMAIN l.at}

Reads(l) ==
  {w \in inbuf : w.at > l.len + 1}
  \cup {[at |-> l.at[i], word |-> l.words[i]] : i \in DOMAIN l.at}

Words(buf, at) ==
  [i \in DOMAIN at |->
     IF \E w \in buf : w.at = at[i] THEN (CHOOSE w \in buf : w.at = at[i]).word ELSE None]

(* dbg_cmd_handler_t: quit ends the loop, any other command has its turn.   *)
Handles(c) == /\ Goto(IF c = "quit" THEN "unregister" ELSE "command")
              /\ seen' = Words(inbuf', params')

(* The instruction at pc is shown, and a line is read: an empty line is the *)
(* last command again.                                                     *)
ReadLine(l) ==
  /\ stage = "prompt" /\ lines < MaxLines
  /\ mem' = bus_peek(mem)
  /\ inbuf' = Reads(l)
  /\ lines' = lines + 1
  /\ \/ /\ l.len = 0 /\ cmd # None
        /\ UNCHANGED <<cmd, params, given>>
        /\ Handles(cmd)
     \/ /\ ~(l.len = 0 /\ cmd # None)
        /\ cmd' = Parsed(l)
        /\ IF cmd' # None
           THEN params' = ParamsOf(l.at) /\ given' = ParamsOf(l.words) /\ Handles(cmd')
           ELSE UNCHANGED <<stage, params, given, seen>>
  /\ UNCHANGED <<told, handler, runs>>

EndOfInput == stage = "prompt" /\ Goto("unregister") /\ UNCHANGED <<mem, told>> /\ KeepCli

CommandRuns ==
  /\ stage = "command" /\ cmd \in Running
  /\ mem' = emu_tick(mem)
  /\ UNCHANGED <<stage, told>> /\ KeepCli

CommandDone == stage = "command" /\ Goto("prompt") /\ UNCHANGED <<mem, told>> /\ KeepCli

-----------------------------------------------------------------------------
Init ==
  /\ mem = NoMemory({}) /\ stage = "emu" /\ told = FALSE
  /\ cmd = None /\ params = <<>> /\ inbuf = {} /\ given = <<>> /\ seen = <<>>
  /\ handler = FALSE /\ runs = 1 /\ lines = 0

(* The program is started again, after whatever end.                        *)
Restart ==
  /\ Ended /\ runs < MaxRuns
  /\ mem' = NoMemory(mem.live \cap {SocketName}) /\ stage' = "emu" /\ told' = FALSE
  /\ cmd' = None /\ params' = <<>> /\ inbuf' = {} /\ given' = <<>> /\ seen' = <<>>
  /\ handler' = FALSE /\ runs' = runs + 1 /\ lines' = 0

(* Steps of main: they go on by themselves, but for the prompt.             *)
Main ==
  \/ Lifecycle /\ KeepCli
  \/ DebugInit \/ LoadLabels \/ SigAction \/ SigAdd \/ Unregister
  \/ CommandDone

User ==
  \/ \E l \in Lines : ReadLine(l)
  \/ EndOfInput \/ CtrlC \/ Restart

Thread == (ThreadRuns \/ ThreadEnds) /\ KeepCli

Next == Main \/ CommandRuns \/ User \/ Thread

Spec == Init /\ [][Next]_vars

(* main is sequential code and goes on; a command comes to its end (what it *)
(* takes for that is in Debugger); a thread that has been told ends.       *)
FairSpec == Spec /\ WF_vars(Main) /\ WF_vars(ThreadEnds /\ KeepCli)

-----------------------------------------------------------------------------
Object == {Static, SocketName, "emu", "mainclk", "rom", "rom_tick", "rom_conn", "aciaclk",
           "acia", "acia_tick", "acia_conn", "trans", "eventfd", "server_sock", "thread",
           "via", "via_tick", "via_conn", "ram", "ram_conn", "image_fd", "spi_cb", "debugger",
           "sigdata"}

TypeOK ==
  /\ mem.live \subseteq Object /\ mem.ptr \subseteq Object /\ told \in BOOLEAN /\ handler \in BOOLEAN
  /\ cmd \in CommandName \cup {None}
  /\ Len(params) <= MaxParams /\ Len(given) = Len(params)
  /\ runs \in 1 .. MaxRuns /\ lines \in 0 .. MaxLines

(* Nothing is used after it was freed, freed twice or unlinked from a list  *)
(* whose neighbours are gone: not by a tick, by an access, by the read      *)
(* thread, by ctrl-C, nor while the machine is taken down, wherever it      *)
(* failed to be built.  (The EEPROM is freed while its callbacks are still  *)
(* registered.)  Nor does a run find its socket's name in use because one   *)
(* before it was killed.                                                   *)
NoDanglingAccess == mem.faults = {}

(* When main returns, all is freed that cb6502_init and dbgcli_run made,    *)
(* from whatever step on building has failed, but the debugger and the      *)
(* file of the card, for which there is no function; and the socket's name *)
(* is gone unless a run that was killed had left it.                       *)
LeavesNothing ==
  stage = "exit" =>
    /\ mem.live \subseteq {Static, "debugger", "image_fd", SocketName}
    /\ runs = 1 => SocketName \notin mem.live

(* A command that is repeated by an empty line gets the parameters it was   *)
(* typed with, though they are in the buffer that the empty line was read  *)
(* into.                                                                   *)
RepeatMeansTheSame == stage = "command" => seen = given

(* main comes to a prompt or to its end, also when it has to wait for the   *)
(* thread.                                                                 *)
ComesToAnEnd == stage # "prompt" ~> stage \in {"prompt", "exit", "killed"}
===============================================================================
