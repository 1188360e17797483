---------------------------- MODULE EscIrqProofs ----------------------------
(***************************************************************************)
(* The safety of SINT for any set of events and any mask.                  *)
(***************************************************************************)
EXTENDS EscIrq, TLAPS

\* A waiting loop of an armed pin will be woken: its permit is there, or its
\* interrupt is enabled.
WakeInv == pc = "wait" /\ armed => irq_sem = 1 \/ enabled

\* What an interrupt still to come would find: while SOES serves what it has
\* read, none has come; until the next read, one at most.  None comes before
\* the pin is armed.
UnreadInv ==
  /\ pc = "start" => unread = 0 /\ ~enabled
  /\ IF pc \in {"serve", "rearm"}
     THEN unread <= 1 /\ (enabled => unread = 0)
     ELSE unread <= 2 /\ (enabled => unread <= 1)

IInv == TypeOK /\ WakeInv /\ UnreadInv

\* TypeOK but for its Boolean part.
RegistersOK ==
  /\ pc \in {"start", "wait", "read", "serve", "rearm"}
  /\ al_event \subseteq Events /\ ALevent \subseteq Events
  /\ al_mask \in {{}, AppMask}
  /\ irq_sem \in {0, 1} /\ unread \in 0 .. 3 /\ faults \in 0 .. MaxFaults

Rest == RegistersOK /\ WakeInv /\ UnreadInv

LEMMA Parts == IInv <=> FlagsOK /\ Rest
  BY Zenon DEF IInv, TypeOK, RegistersOK, Rest

LEMMA InitIInv == Init => IInv
<1>1. Init => FlagsOK
  BY Zenon DEF Init, FlagsOK
<1>2. Init => Rest
  BY EscIrqAssumption DEF Init, Rest, RegistersOK, WakeInv, UnreadInv
<1> QED BY <1>1, <1>2, Parts

LEMMA FlagsStep == ASSUME FlagsOK, [Next]_vars PROVE FlagsOK'
  BY Zenon DEF FlagsOK, Next, Loop, RaiseEvent, esc_irq_init, on_irq, Disable,
               Give, TakeSint, OtherWake, ReadEvents, ServeEvents, esc_irq_rearm,
               Rearm, vars

LEMMA RestStep == ASSUME Rest, [Next]_vars PROVE Rest'
<1> USE EscIrqAssumption DEF Rest, RegistersOK, WakeInv, UnreadInv, escVars
<1>1. ASSUME NEW e \in Events, RaiseEvent(e) PROVE Rest'
  BY <1>1 DEF RaiseEvent
<1>2. CASE esc_irq_init
  <2>1. /\ enabled' <=> armed'
        /\ al_mask' = AppMask \/ al_mask' = al_mask
        /\ pc = "start" /\ pc' = "wait"
        /\ UNCHANGED <<al_event, irq_sem, ALevent, unread, faults>>
    BY <1>2, Zenon DEF esc_irq_init
  <2> QED BY <2>1
<1>3. CASE on_irq
  BY <1>3 DEF on_irq, Disable, Give
<1>4. CASE TakeSint
  BY <1>4 DEF TakeSint
<1>5. CASE OtherWake
  BY <1>5 DEF OtherWake
<1>6. CASE ReadEvents
  BY <1>6 DEF ReadEvents
<1>7. CASE ServeEvents
  BY <1>7 DEF ServeEvents
<1>8. CASE esc_irq_rearm
  <2>1. /\ enabled' <=> enabled \/ armed
        /\ armed' <=> armed
        /\ pc = "rearm" /\ pc' = "wait"
        /\ UNCHANGED <<al_event, al_mask, irq_sem, ALevent, unread, faults>>
    BY <1>8, Zenon DEF esc_irq_rearm, Rearm
  <2> QED BY <2>1
<1>9. CASE UNCHANGED vars
  BY <1>9 DEF vars
<1> QED BY <1>1, <1>2, <1>3, <1>4, <1>5, <1>6, <1>7, <1>8, <1>9
        DEF Next, Loop

LEMMA NextIInv == ASSUME IInv, [Next]_vars PROVE IInv'
<1>1. FlagsOK' /\ Rest'
  BY Parts, FlagsStep, RestStep
<1> QED BY <1>1, Zenon
        DEF IInv, TypeOK, RegistersOK, Rest

THEOREM Inductive == Spec => []IInv
  BY InitIInv, NextIInv, PTL DEF Spec

\* Registers, pin and semaphore keep their types.
THEOREM TypeCorrect == Spec => []TypeOK
  BY Inductive, PTL DEF IInv

\* An armed loop never sleeps out its timeout on an event that holds the line.
THEOREM WokenInTime == Spec => []NoMissedWake
<1>1. IInv => NoMissedWake
  BY DEF IInv, WakeInv, NoMissedWake
<1> QED BY <1>1, Inductive, PTL

\* The handler runs at most twice between two reads of the event register.
THEOREM StormFree == Spec => []NoStorm
<1>1. IInv => NoStorm
  BY DEF IInv, TypeOK, UnreadInv, NoStorm
<1> QED BY <1>1, Inductive, PTL
=============================================================================
