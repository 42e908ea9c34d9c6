--------------------------------- MODULE Via -----------------------------------
(***************************************************************************)
(* The VIA 6522, io/via/src/via.c: two ports with latches and handshake     *)
(* lines, timer 1 and the interrupt flags, as they are driven from three    *)
(* sides: the registers by the cpu, the pins by what is connected to them,  *)
(* and the two edges of the clock.                                         *)
(*                                                                         *)
(* A callback to the listeners becomes an event, which is delivered before  *)
(* anything else happens (see EventsDelivered): the program has one thread, *)
(* and no handler changes a port after it has reported it.  Pins and flags  *)
(* are sets: those that are high, those that are set.                      *)
(***************************************************************************)
EXTENDS Integers, FiniteSets

CONSTANTS
  Pin,       \* pins of a port that the model has
  PB7,       \* the one of them that timer 1 may drive
  Half       \* the range of half a latch of timer 1: 256 in the code

ASSUME ViaAssumption == PB7 \in Pin /\ Half \in Nat \ {0}

Side   == {"A", "B"}
C2Ctrl == {"in_neg", "in_ind_neg", "in_pos", "in_ind_pos", "handshake", "pulse", "low", "high"}
Flag   == {"CA1", "CA2", "CB1", "CB2", "T1", "T2", "SR"}
Full   == Half * Half - 1        \* 0xffff

VARIABLES
  ir, or, ddr, pin_in,          \* via_port_state_t, for each side
  c1_in, c2_in, c2_out,
  latch, t1_mode, t1_pb7,       \* acr: pa_latch and pb_latch, t1_mode, t1_pb7
  c1_ctrl, c2_ctrl,             \* pcr
  ier, ifr, vote,               \* ifr without bit 7; vote is that of the voter
  t1l, t1c, t1pb7,
  armed, write_pend,            \* VIA_FLAG_T1_ARMED and T1_WRITE_PEND
  trig, pulse,                  \* VIA_FLAG_CA2_ and CB2_TRIG_PEND, PULSE_PEND
  read_trig, read_pulse,        \* VIA_FLAG_CA2_READ_TRIG_PEND, READ_PULSE_PEND
  event                         \* the callbacks that are due

ports   == <<ir, or, ddr, pin_in>>
lines   == <<c1_in, c2_in, c2_out>>
control == <<latch, t1_mode, t1_pb7, c1_ctrl, c2_ctrl, ier>>
flags   == <<ifr, vote>>
timer   == <<t1l, t1c, t1pb7, armed, write_pend>>
pends   == <<trig, pulse, read_trig, read_pulse>>
via     == <<ports, lines, control, flags, timer, pends, event>>

-----------------------------------------------------------------------------
Merge(v1, v2, mask) == (v1 \cap mask) \cup (v2 \ mask)

Port(p) == IF p = "A" THEN "PORTA" ELSE "PORTB"
C1(p)   == IF p = "A" THEN "CA1" ELSE "CB1"
C2(p)   == IF p = "A" THEN "CA2" ELSE "CB2"

IsOutput(ctrl) == ctrl \in {"handshake", "pulse", "low", "high"}

via_is_independent_int(p)  == c2_ctrl[p] \in {"in_ind_neg", "in_ind_pos"}
via_is_handshake_output(p) == c2_ctrl[p] \in {"handshake", "pulse"}

(* via_set_ifr and via_clear_ifr: bit 7 and the vote for IRQ are there as   *)
(* long as any other bit is.  (IER is not asked.)                          *)
via_set_ifr(bits) ==
  /\ ifr' = ifr \cup bits
  /\ vote' = (vote \/ (ifr = {} /\ bits # {}))

via_clear_ifr(bits) ==
  /\ ifr' = ifr \ bits
  /\ vote' = (vote /\ ~(ifr # {} /\ ifr' = {}))

(* via_write_c2_state: the new state of C2, and the event if it is an       *)
(* output now and has changed.                                             *)
C2Event(p, from, to, ctrl) == IF from # to /\ IsOutput(ctrl) THEN {"CTRL"} ELSE {}

(* What the pins of a port show: via_read_data_port, with PB7 of timer 1.   *)
ReadDataPort(p) ==
  LET own == Merge(or[p], pin_in[p], ddr[p])
  IN IF p = "B" /\ t1_pb7
     THEN (own \ {PB7}) \cup (IF t1pb7 THEN {PB7} ELSE {})
     ELSE own

-----------------------------------------------------------------------------
(* via_write, register by register.  DDRA and DDRB: a pin that turns into   *)
(* an input is latched, if latching is enabled (on port A, for both).       *)
\* (a mutant: what has not changed is told, and what has is not)
TellsUnchanged(before, after, p) == IF before # after THEN {} ELSE {Port(p)}

TellsChange(before, after, p) == IF before # after THEN {Port(p)} ELSE {}

WriteDdr(p, val) ==
  /\ ddr' = [ddr EXCEPT ![p] = val]
  /\ ir' = IF latch["A"] THEN [ir EXCEPT ![p] = Merge(pin_in[p], @, ddr[p] \ val)] ELSE ir
  /\ event' = TellsChange(ddr[p], val, p)
  /\ UNCHANGED <<or, pin_in, lines, control, flags, timer, pends>>

(* DATAA and DATAB.                                                         *)
WriteData(p, val) ==
  /\ or' = [or EXCEPT ![p] = val]
  /\ event' = TellsChange(or[p], val, p)
  /\ via_clear_ifr({C1(p)} \cup (IF via_is_independent_int(p) THEN {C2(p)} ELSE {}))
  /\ trig' = [trig EXCEPT ![p] = @ \/ via_is_handshake_output(p)]
  /\ UNCHANGED <<ir, ddr, pin_in, lines, control, timer, pulse, read_trig, read_pulse>>

(* T1CL and T1LL write the low latch, T1LH and T1CH the high one; T1CH      *)
(* starts the timer, and T1CH and T1LH clear its flag.                     *)
WithLow(val)  == (t1l \div Half) * Half + val
WithHigh(val) == val * Half + (t1l % Half)

WriteT1Low(val) ==
  /\ t1l' = WithLow(val)
  /\ UNCHANGED <<ports, lines, control, flags, t1c, t1pb7, armed, write_pend, pends, event>>

WriteT1LH(val) ==
  /\ t1l' = WithHigh(val)
  /\ via_clear_ifr({"T1"})
  /\ UNCHANGED <<ports, lines, control, t1c, t1pb7, armed, write_pend, pends, event>>

WriteT1CH(val) ==
  /\ t1l' = WithHigh(val) /\ t1c' = WithHigh(val)
  /\ via_clear_ifr({"T1"})
  /\ IF armed THEN UNCHANGED <<t1pb7, event>>
              ELSE t1pb7' = FALSE /\ event' = {"PORTB"}
  /\ armed' = TRUE /\ write_pend' = TRUE
  /\ UNCHANGED <<ports, lines, control, pends>>

WriteAcr(latches, mode, pb7) ==
  /\ latch' = latches /\ t1_mode' = mode /\ t1_pb7' = pb7
  /\ event' = IF pb7 # t1_pb7 THEN {"PORTB"} ELSE {}
  /\ UNCHANGED <<ports, lines, c1_ctrl, c2_ctrl, ier, flags, timer, pends>>

(* PCR: the outputs start high, but for the one that is to be low.          *)
WritePcr(c1, c2) ==
  /\ c1_ctrl' = c1 /\ c2_ctrl' = c2
  /\ c2_out' = [p \in Side |-> IF c2[p] = "low" THEN FALSE
                               ELSE IF IsOutput(c2[p]) THEN TRUE ELSE c2_out[p]]
  /\ event' = UNION {C2Event(p, c2_out[p], c2_out'[p], c2[p]) : p \in Side}
  /\ UNCHANGED <<ports, c1_in, c2_in, latch, t1_mode, t1_pb7, ier, flags, timer, pends>>

WriteIer(set, bits) ==
  /\ ier' = IF set THEN ier \cup bits ELSE ier \ bits
  /\ UNCHANGED <<ports, lines, latch, t1_mode, t1_pb7, c1_ctrl, c2_ctrl,
                 flags, timer, pends, event>>

WriteIfr(bits) ==
  /\ via_clear_ifr(bits)
  /\ UNCHANGED <<ports, lines, control, timer, pends, event>>

(* via_read: what has an effect.  Reading port A with its handshake says    *)
(* "data taken" at once; reading port B does not.                          *)
PortReadsAs(p) == Merge(or[p], ir[p], ddr[p])

ReadDataA ==
  /\ via_clear_ifr({"CA1"})
  /\ IF via_is_handshake_output("A")
     THEN /\ c2_out' = [c2_out EXCEPT !["A"] = FALSE]
          /\ event' = IF c2_out["A"] THEN {"CTRL"} ELSE {}
     ELSE UNCHANGED <<c2_out, event>>
  /\ read_trig' = (read_trig \/ c2_ctrl["A"] = "pulse")
  /\ read_pulse' = (read_pulse \/ c2_ctrl["A"] = "pulse")
  /\ UNCHANGED <<ports, c1_in, c2_in, control, timer, trig, pulse>>

ReadDataB ==
  /\ via_clear_ifr({"CB1"})
  /\ UNCHANGED <<ports, lines, control, timer, pends, event>>

ReadT1CL ==
  /\ via_clear_ifr({"T1"})
  /\ UNCHANGED <<ports, lines, control, timer, pends, event>>
-----------------------------------------------------------------------------
(* What is connected: via_write_data_port, and via_write_ctrl.  The active  *)
(* edge of C1 latches the port, sets the flag, and ends "data taken".       *)
WritePort(p, mask, data) ==
  /\ pin_in' = [pin_in EXCEPT ![p] = Merge(data, @, mask)]
  /\ ir' = IF mask # {} /\ ~latch[p] THEN [ir EXCEPT ![p] = pin_in'[p]] ELSE ir
  /\ UNCHANGED <<or, ddr, lines, control, flags, timer, pends>>

\* (a mutant: "data taken" is left as it is)
C1EdgeKeepsC2(p) ==
  /\ ir' = IF latch[p] THEN [ir EXCEPT ![p] = pin_in[p]] ELSE ir
  /\ via_set_ifr({C1(p)})
  /\ UNCHANGED <<c2_out, event>>

C1Edge(p) ==
  /\ ir' = IF latch[p] THEN [ir EXCEPT ![p] = pin_in[p]] ELSE ir
  /\ via_set_ifr({C1(p)})
  /\ IF c2_ctrl[p] = "handshake"
     THEN /\ c2_out' = [c2_out EXCEPT ![p] = TRUE]
          /\ event' = C2Event(p, c2_out[p], TRUE, c2_ctrl[p])
     ELSE UNCHANGED <<c2_out, event>>

WriteC1(p, val) ==
  /\ val # c1_in[p]
  /\ c1_in' = [c1_in EXCEPT ![p] = val]
  /\ IF val = c1_ctrl[p] THEN C1Edge(p) ELSE UNCHANGED <<ir, flags, c2_out, event>>
  /\ UNCHANGED <<or, ddr, pin_in, c2_in, control, timer, pends>>

WriteC2(p, val) ==
  /\ val # c2_in[p]
  /\ c2_in' = [c2_in EXCEPT ![p] = val]
  /\ UNCHANGED <<ports, c1_in, c2_out, control, flags, timer, pends, event>>

(* via_read_ctrl: C2 is what the VIA drives if it is an output.             *)
via_read_ctrl(pin) ==
  LET p == CHOOSE q \in Side : pin \in {C1(q), C2(q)}
  IN IF pin = C1(p) THEN c1_in[p] ELSE IF IsOutput(c2_ctrl[p]) THEN c2_out[p] ELSE c2_in[p]

-----------------------------------------------------------------------------
(* via_clock_tick, on the rising edge.  A pulse that was begun a cycle ago  *)
(* ends, then one that a write has asked for begins; then timer 1, if it    *)
(* has run out.                                                            *)
\* (a mutant: a pulse that begins while one ends is not ended)
PulsesUnlessEnding == [p \in Side |-> trig[p] /\ c2_ctrl[p] = "pulse" /\ ~pulse[p]]

PulsesBegun == [p \in Side |-> trig[p] /\ c2_ctrl[p] = "pulse"]

C2Pulses ==
  LET ended == [p \in Side |-> c2_out[p] \/ pulse[p]]
  IN /\ c2_out' = [p \in Side |-> ended[p] /\ ~trig[p]]
     /\ pulse' = PulsesBegun
     /\ trig' = [p \in Side |-> FALSE]

C2PulseEvents ==
  UNION {C2Event(p, c2_out[p], c2_out[p] \/ pulse[p], c2_ctrl[p])
         \cup C2Event(p, c2_out[p] \/ pulse[p], c2_out'[p], c2_ctrl[p]) : p \in Side}

\* (a mutant: timer 1 runs out at 0)
ExpiresAtZero == armed /\ t1c = 0

Expires == armed /\ t1c = Full

Posedge ==
  /\ C2Pulses
  /\ IF Expires
     THEN /\ via_set_ifr({"T1"})
          /\ t1pb7' = ~t1pb7
          /\ armed' = t1_mode
          /\ event' = C2PulseEvents \cup IF t1_pb7 THEN {"PORTB"} ELSE {}
     ELSE /\ event' = C2PulseEvents
          /\ UNCHANGED <<flags, t1pb7, armed>>
  /\ UNCHANGED <<ports, c1_in, c2_in, control, t1l, t1c, write_pend, read_trig, read_pulse>>

(* And on the falling edge.  An access has come before the edge of its own  *)
(* cycle, which does not yet end a pulse nor count.                         *)
ReadPulseEnds == read_pulse /\ ~read_trig

T1Counts == IF t1c = Full THEN t1l ELSE (t1c - 1) % (Full + 1)

Negedge ==
  /\ read_trig' = (read_trig /\ ~read_pulse)
  /\ read_pulse' = (read_pulse /\ read_trig)
  /\ c2_out' = [c2_out EXCEPT !["A"] = @ \/ ReadPulseEnds]
  /\ event' = C2Event("A", c2_out["A"], c2_out'["A"], c2_ctrl["A"])
  /\ t1c' = IF write_pend THEN t1c ELSE T1Counts
  /\ write_pend' = FALSE
  /\ UNCHANGED <<ports, c1_in, c2_in, control, flags, t1l, t1pb7, armed, trig, pulse>>

-----------------------------------------------------------------------------
(* via_init and via_register, with what is on the pins.                     *)
ViaInit(pins) ==
  /\ ir = pins /\ pin_in = pins
  /\ or = [p \in Side |-> {}] /\ ddr = or
  /\ c1_in = [p \in Side |-> FALSE] /\ c2_in = c1_in /\ c2_out = c1_in
  /\ latch = c1_in /\ c1_ctrl = c1_in /\ trig = c1_in /\ pulse = c1_in
  /\ c2_ctrl = [p \in Side |-> "in_neg"]
  /\ t1_mode = FALSE /\ t1_pb7 = FALSE
  /\ ier = {} /\ ifr = {} /\ vote = FALSE
  /\ t1l = 0 /\ t1c = 0 /\ t1pb7 = TRUE /\ armed = FALSE /\ write_pend = FALSE
  /\ read_trig = FALSE /\ read_pulse = FALSE
  /\ event = {}

ViaTypeOK ==
  /\ {ir, or, ddr, pin_in} \subseteq [Side -> SUBSET Pin]
  /\ {c1_in, c2_in, c2_out, latch, c1_ctrl, trig, pulse} \subseteq [Side -> BOOLEAN]
  /\ c2_ctrl \in [Side -> C2Ctrl]
  /\ ier \in SUBSET Flag /\ ifr \in SUBSET Flag
  /\ t1l \in 0 .. Full /\ t1c \in 0 .. Full
  /\ {vote, t1_mode, t1_pb7, t1pb7, armed, write_pend, read_trig, read_pulse} \subseteq BOOLEAN
  /\ event \in SUBSET {"PORTA", "PORTB", "CTRL"}

(* While C2 is low in pulse mode its end is under way, however reads and    *)
(* writes of the port follow each other in the cycles of a pulse.           *)
PulsesEnd ==
  \A p \in Side : c2_ctrl[p] = "pulse" /\ ~c2_out[p]
                  => pulse[p] \/ (p = "A" /\ read_pulse)
================================================================================
