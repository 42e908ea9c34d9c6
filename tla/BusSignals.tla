----------------------------- MODULE BusSignals ------------------------------
(***************************************************************************)
(* The signal votes of the bus, core/src/bus.c:435-534.                    *)
(*                                                                         *)
(* The IRQ, NMI, RDY and BE pins of the cpu are pulled by any number of    *)
(* devices.  A device registers for a voter, which is one bit of a 32 bit  *)
(* mask, and takes or drops its vote on each signal; a signal is asserted  *)
(* while its mask is not 0.  A mask is here the set of the voters whose    *)
(* bit it holds.                                                           *)
(*                                                                         *)
(* handle is the voter each device keeps (acia.c, via.c), or Invalid.  The *)
(* devices call sig_vote with a valid handle only, as all of them check.   *)
(***************************************************************************)
EXTENDS Naturals, FiniteSets

CONSTANTS
  Client,     \* devices that register
  MaxVoters,  \* MAX_SIG_VOTERS
  Invalid     \* BUS_SIGNAL_INVALID_VOTER

Voter  == 0 .. MaxVoters - 1
Signal == {"IRQ", "NMI", "RDY", "BE"}

ASSUME SignalAssumption ==
  /\ MaxVoters \in Nat
  /\ Invalid \notin Voter

VARIABLES
  allocated,    \* sigvotes.allocated
  votes,        \* sigvotes.irq, .nmi, .rdy and .be
  edgePending,  \* SV_NMI_EDGE_PENDING in sigvotes.flags
  handle,       \* of each device: the voter it was given
  asked,        \* history: what each device has voted for, and not against since
  left          \* history: by signal, the voters that were given back with a
                \* vote, and have not voted on it since

signalVars == <<allocated, votes, edgePending, handle, asked, left>>

-----------------------------------------------------------------------------
(* The memset of emu_init; devices start with no voter (acia.c:228,        *)
(* via.c:542).                                                             *)
SignalInit ==
  /\ allocated = {}
  /\ votes = [s \in Signal |-> {}]
  /\ edgePending = FALSE
  /\ handle = [c \in Client |-> Invalid]
  /\ asked = [c \in Client |-> {}]
  /\ left = [s \in Signal |-> {}]

(* emu_bus_register_sig_voter: the lowest free bit, or Invalid.            *)
Free == Voter \ allocated

LowestFree(v) == \A w \in Free : v <= w

RegisterSigVoter(c) ==
  /\ handle[c] = Invalid
  /\ \/ \E v \in Free :
          /\ LowestFree(v)
          /\ allocated' = allocated \cup {v}
          /\ handle' = [handle EXCEPT ![c] = v]
     \/ Free = {} /\ UNCHANGED <<allocated, handle>>
  /\ UNCHANGED <<votes, edgePending, asked, left>>

(* emu_bus_unregister_sig_voter, as acia_cleanup and via_cleanup call it,   *)
(* whether they vote or not: the votes stay as they are.                   *)
LeftBy(c, s) == IF s \in asked[c] THEN {handle[c]} ELSE {}

UnregisterSigVoter(c) ==
  /\ handle[c] # Invalid
  /\ allocated' = allocated \ {handle[c]}
  /\ handle' = [handle EXCEPT ![c] = Invalid]
  /\ asked' = [asked EXCEPT ![c] = {}]
  /\ left' = [s \in Signal |-> left[s] \cup LeftBy(c, s)]
  /\ UNCHANGED <<votes, edgePending>>

(* The first vote for NMI is the edge that the cpu sees.                   *)
\* (a mutant: every vote is an edge)
EdgeOnAnyVote(s, voted) == s = "NMI" /\ voted

IsFirstNmiVote(s, voted) == s = "NMI" /\ voted /\ votes["NMI"] = {}

(* emu_bus_sig_vote: one bit of the mask is set or cleared.                 *)
\* (a mutant: the mask is set to the bit)
MaskOverwritten(mask, v, voted) == IF voted THEN {v} ELSE mask \ {v}

MaskAfter(mask, v, voted) == IF voted THEN mask \cup {v} ELSE mask \ {v}

SigVote(c, s, voted) ==
  /\ handle[c] # Invalid
  /\ handle[c] \in allocated
  /\ edgePending' = (edgePending \/ IsFirstNmiVote(s, voted))
  /\ votes' = [votes EXCEPT ![s] = MaskAfter(@, handle[c], voted)]
  /\ asked' = [asked EXCEPT ![c] = IF voted THEN @ \cup {s} ELSE @ \ {s}]
  /\ left' = [left EXCEPT ![s] = @ \ {handle[c]}]
  /\ UNCHANGED <<allocated, handle>>

(* cpu_tick clears the flag when it begins the NMI sequence (cpu.c).       *)
TakeNmi ==
  /\ edgePending
  /\ edgePending' = FALSE
  /\ UNCHANGED <<allocated, votes, handle, asked, left>>

Vote == \E c \in Client, s \in Signal, voted \in BOOLEAN : SigVote(c, s, voted)

SignalNext ==
  \/ \E c \in Client : RegisterSigVoter(c) \/ UnregisterSigVoter(c)
  \/ Vote
  \/ TakeNmi

SignalSpec == SignalInit /\ [][SignalNext]_signalVars

-----------------------------------------------------------------------------
SignalTypeOK ==
  /\ allocated \subseteq Voter
  /\ votes \in [Signal -> SUBSET Voter]
  /\ edgePending \in BOOLEAN
  /\ handle \in [Client -> Voter \cup {Invalid}]
  /\ asked \in [Client -> SUBSET Signal]
  /\ left \in [Signal -> SUBSET Voter]

(* The bits of allocated are exactly the voters that devices hold, and no   *)
(* two devices hold the same: none is lost however devices come and go     *)
(* (bus_tester.c:291 checks it for a single burst of registrations).       *)
VotersExclusive ==
  /\ allocated = {handle[c] : c \in Client} \ {Invalid}
  /\ \A c, d \in Client : handle[c] = handle[d] => c = d \/ handle[c] = Invalid

(* The masks implement the lines of WiredOr, whichever bits devices are     *)
(* given and also when they go away while they vote: a line is asserted    *)
(* exactly while a device asks for it, or while the vote of one that went  *)
(* is left in its mask, and the edge that the cpu latches is that of the   *)
(* line.                                                                   *)
Wired == INSTANCE WiredOr WITH
  Place   <- Voter,
  Nowhere <- Invalid,
  place   <- handle,
  pulls   <- [s \in Signal |-> {c \in Client : handle[c] \in votes[s] \ left[s]}],
  edge    <- edgePending

ImplementsWiredOr == Wired!WiredSpec

(* A line is stuck, asserted while no device asks for it, exactly when some *)
(* device went away with its vote: unregistering clears its bit of         *)
(* allocated alone (bus.c:478), and acia_cleanup and via_cleanup do not    *)
(* drop their votes.  What a mask holds beyond what devices have asked for *)
(* is what was left behind, and nothing is left of a voter that has voted  *)
(* on the signal since, also if it was given to another device meanwhile.  *)
Askers(s) == {c \in Client : s \in asked[c]}

MasksAreAccountedFor ==
  \A s \in Signal :
    /\ votes[s] = {handle[c] : c \in Askers(s)} \cup left[s]
    /\ \A c \in Askers(s) : handle[c] \in Voter \ left[s]
==============================================================================
