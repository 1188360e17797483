------------------------------- MODULE EscIrq -------------------------------
(***************************************************************************)
(* SINT, the ESC's interrupt line (firmware/src/esc_irq.c), and the SOES   *)
(* loop it wakes (soes_app.c).  The line is level-triggered: it stays      *)
(* asserted while an unmasked AL event is set, so the handler masks its    *)
(* own interrupt, and the loop enables it again once SOES has served what  *)
(* it read from the event register.  SOES and the ESC are external.        *)
(***************************************************************************)
EXTENDS Naturals

CONSTANTS
  Events,     \* the AL events the ESC can raise
  AppMask,    \* those soes_app_run lets onto the line
  MaxFaults   \* bound: reads of the event register that fail

ASSUME EscIrqAssumption == AppMask \subseteq Events /\ MaxFaults \in Nat

VARIABLES
  pc,         \* place in the loop of soes_app_run
  al_event,   \* the ESC's event register 0x0220
  al_mask,    \* its mask 0x0204
  armed,      \* did esc_irq_init succeed?
  enabled,    \* is the pin's interrupt enabled?
  irq_sem,
  ALevent,    \* SOES's copy of the register
  \* History.
  unread,     \* interrupts since the loop came to its read, 3 for more
  faults

escVars == <<al_event, al_mask>>
vars == <<pc, escVars, armed, enabled, irq_sem, ALevent, unread, faults>>

Line == al_event \cap al_mask # {}

\* The mask is empty after a power cycle, and what the firmware had written after
\* a restart of the ESP32 alone: ESC_init of esc_hw.c does not reset the chip.
Init ==
  /\ pc = "start"
  /\ al_event \in SUBSET Events /\ al_mask \in {{}, AppMask}
  /\ armed = FALSE /\ enabled = FALSE /\ irq_sem = 0
  /\ ALevent = {} /\ unread = 0 /\ faults = 0

\* The master or the ESC raises an event.
RaiseEvent(e) ==
  /\ e \notin al_event
  /\ al_event' = al_event \cup {e}
  /\ UNCHANGED <<pc, al_mask, armed, enabled, irq_sem, ALevent, unread,
                 faults>>

\* Arm the pin and unmask the events.  Either may fail: a pin that is not armed
\* leaves the mask alone, and so does a write that is lost: the line then stays
\* silent, unless the mask is left from before a restart.
esc_irq_init ==
  /\ pc = "start"
  /\ armed' \in BOOLEAN
  /\ enabled' = armed'
  /\ \/ armed' /\ al_mask' = AppMask
     \/ UNCHANGED al_mask
  /\ pc' = "wait"
  /\ UNCHANGED <<al_event, irq_sem, ALevent, unread, faults>>

\* Mutant: the handler leaves its interrupt enabled.
KeepEnabled == UNCHANGED enabled

\* The handler cannot clear the cause, so it disables the interrupt.
Disable == enabled' = FALSE

\* The semaphore holds one permit at most.
Give == irq_sem' = 1

on_irq ==
  /\ enabled /\ Line
  /\ Disable
  /\ Give
  /\ unread' = IF unread < 3 THEN unread + 1 ELSE 3
  /\ UNCHANGED <<pc, escVars, armed, ALevent, faults>>

\* k_poll returns with the permit of SINT.
TakeSint ==
  /\ pc = "wait" /\ irq_sem = 1
  /\ irq_sem' = 0
  /\ pc' = "read"
  /\ UNCHANGED <<escVars, armed, enabled, ALevent, unread, faults>>

\* Mutant: without a permit the loop waits for ever.
NoBackstop == irq_sem = 1

\* SYNC0 or the timeout of 25 ms may always come first.
Backstop == TRUE

\* k_poll returns without it; a permit given meanwhile stays.
OtherWake ==
  /\ pc = "wait" /\ Backstop
  /\ pc' = "read"
  /\ UNCHANGED <<escVars, armed, enabled, irq_sem, ALevent, unread, faults>>

\* ecat_slv reads the local time, and with it the event register.  A read that
\* fails leaves SOES with the copy it has.
ReadEvents ==
  /\ pc = "read"
  /\ \/ ALevent' = al_event /\ faults' = faults
     \/ UNCHANGED ALevent /\ faults < MaxFaults /\ faults' = faults + 1
  /\ unread' = 0
  /\ pc' = "serve"
  /\ UNCHANGED <<escVars, armed, enabled, irq_sem>>

\* SOES reads the registers behind the events of its copy, which clears them.
ServeEvents ==
  /\ pc = "serve"
  /\ al_event' = al_event \ ALevent
  /\ ALevent' = {}
  /\ pc' = "rearm"
  /\ UNCHANGED <<al_mask, armed, enabled, irq_sem, unread, faults>>

\* Mutant: the call is missing.
StayDisabled == UNCHANGED enabled

\* Enable the interrupt again, whatever woke the loop.
Rearm == enabled' = (enabled \/ armed)

esc_irq_rearm ==
  /\ pc = "rearm"
  /\ Rearm
  /\ pc' = "wait"
  /\ UNCHANGED <<escVars, armed, irq_sem, ALevent, unread, faults>>

Loop == TakeSint \/ OtherWake \/ ReadEvents \/ ServeEvents \/ esc_irq_rearm

Next ==
  \/ \E e \in Events : RaiseEvent(e)
  \/ esc_irq_init
  \/ on_irq
  \/ Loop

\* The loop's calls return, and the wait ends at its timeout at the latest.
Spec == Init /\ [][Next]_vars /\ WF_vars(esc_irq_init) /\ WF_vars(Loop)

-----------------------------------------------------------------------------
(* Properties *)

FlagsOK == armed \in BOOLEAN /\ enabled \in BOOLEAN

\* The types of the registers, the pin and the semaphore, which holds one permit
\* at most.
TypeOK ==
  /\ pc \in {"start", "wait", "read", "serve", "rearm"}
  /\ al_event \subseteq Events /\ ALevent \subseteq Events
  /\ al_mask \in {{}, AppMask}
  /\ FlagsOK
  /\ irq_sem \in {0, 1} /\ unread \in 0 .. 3 /\ faults \in 0 .. MaxFaults

\* An armed loop never sleeps out its timeout on an event that holds the line:
\* the permit is there, or the interrupt that gives it is about to come.
NoMissedWake == pc = "wait" /\ armed /\ Line => irq_sem = 1 \/ enabled

\* A level that stays asserted does not starve the loop: the handler runs at
\* most twice before the loop comes to read the event register, the first time
\* for an event raised after the last read and before the re-arming.
NoStorm == unread <= 2

\* Each event is served, also on a node whose line never came up.
EventServed == \A e \in Events : e \in al_event ~> e \notin al_event
=============================================================================
