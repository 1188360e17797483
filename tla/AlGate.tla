------------------------------- MODULE AlGate -------------------------------
(***************************************************************************)
(* What an EtherCAT slave of this project promises about motion, whatever  *)
(* the bus, the SPI link and the master do.  The axis is behind a gate:    *)
(*   - the gate opens (OP) only from SAFEOP;                               *)
(*   - while the gate is shut nothing reaches the axis;                    *)
(*   - every opening starts a new spell: the first target of the spell is  *)
(*     always delivered, a later one only when it differs from the one     *)
(*     being held, because a repeated call re-arms the stepper's timing    *)
(*     source and chops the pulses of the move in flight.                  *)
(* The legacy slave (EcatSlave) implements it.                             *)
(***************************************************************************)
EXTENDS Integers

CONSTANT MaxAngle    \* the largest target angle a frame may carry

VARIABLES
  state,      \* AL state the slave is in
  held,       \* last target taken in, echoed to the master
  delivered,  \* the target delivered to the axis in this spell of OP
  strobe      \* flips every time the actuator is called

gateVars == <<state, held, delivered, strobe>>

NoTarget == -1
Target == 0 .. MaxAngle

GateInit ==
  /\ state = "INIT"
  /\ held = 0
  /\ delivered = NoTarget
  /\ strobe = 0

\* Leaving the operational states, or arriving in SAFEOP: the gate is shut and
\* the axis keeps its last position.
Shut(s) ==
  /\ s \in {"INIT", "PREOP", "SAFEOP"}
  /\ state' = s
  /\ delivered' = NoTarget
  /\ UNCHANGED <<held, strobe>>

\* The only way into OP.
Open ==
  /\ state = "SAFEOP"
  /\ state' = "OP"
  /\ UNCHANGED <<held, delivered, strobe>>

\* One target reaches the axis: only in OP, and never the one being held.
Drive(v) ==
  /\ state = "OP"
  /\ delivered # v
  /\ held' = v
  /\ delivered' = v
  /\ strobe' = 1 - strobe
  /\ UNCHANGED state

\* The firmware restarts: everything it held in RAM is gone.
Restart ==
  /\ state' = "INIT"
  /\ held' = 0
  /\ delivered' = NoTarget
  /\ UNCHANGED strobe

GateNext ==
  \/ \E s \in {"INIT", "PREOP", "SAFEOP"} : Shut(s)
  \/ Open
  \/ \E v \in Target : Drive(v)
  \/ Restart

GateSpec == GateInit /\ [][GateNext]_gateVars

=============================================================================
