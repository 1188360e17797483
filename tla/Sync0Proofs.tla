----------------------------- MODULE Sync0Proofs -----------------------------
(***************************************************************************)
(* Proofs about Sync0, for every cycle time, timeout, number of edges to   *)
(* lock, and duration of an iteration of the loop.                         *)
(***************************************************************************)
EXTENDS Sync0, TLAPS

T == SYNC0_LOCKED_TIMEOUT_MS
L == Longest

\* How much longer than its last edge the SOES loop may stay locked because a
\* wake by SINT found the age one short of the timeout.
Grace == IF soes THEN T - 1 ELSE 0

\* How long ago the interrupt last ran, wherever the loop is.
TimeInv ==
  /\ pc = "work" => left <= L
  /\ sem = 1 => quiet <= L
  /\ sem = 1 /\ pc = "notify" => quiet = 0
  /\ sem = 1 /\ pc = "work" => quiet + left <= L
  /\ pc = "notify" /\ edge => quiet <= L
  /\ locked =>
       /\ age < T => quiet <= L + age
       /\ pc = "work" => quiet + left <= 2 * L + Grace
       /\ pc = "pace" => quiet <= 2 * L + Grace
       /\ pc = "wait" => quiet + left <= 2 * L + Grace + T
       /\ pc = "notify" => quiet <= 2 * L + Grace + T
       /\ ~soes /\ pc = "wait" => age + left >= T
       /\ ~soes /\ pc = "notify" /\ ~edge => age >= T

\* What the interrupt has counted, against what the loop knows of it.
LockInv ==
  /\ edge_count >= SYNC0_LOCK_EDGES /\ seen = SYNC0_LOCK_EDGES
  /\ sem = 0 /\ ~(pc = "notify" /\ edge)
  => locked

LEMMA Numbers ==
  /\ T \in Nat /\ T > 0 /\ QuietCap \in Nat /\ SYNC0_POLL_MS \in Nat
  /\ SYNC0_LOCK_EDGES \in Nat /\ SYNC0_LOCK_EDGES > 0
  /\ Cycle \in Nat /\ CountTop \in Nat /\ CountTop > SYNC0_LOCK_EDGES
  /\ MaxGlitches \in Nat
  BY Sync0Assumption DEF T

\* Longest is the longest iteration there is.
LEMMA LongestIs == L \in Nat /\ \A w \in WorkTimes : w \in Nat /\ w <= L
<1>1. \E w \in WorkTimes : \A v \in WorkTimes : v <= w
  BY Sync0Assumption
<1>2. Longest \in WorkTimes /\ \A v \in WorkTimes : v <= Longest
  BY <1>1, Zenon DEF Longest
<1> QED BY <1>2, Sync0Assumption DEF L

LEMMA GraceIs == Grace \in Nat /\ (~soes => Grace = 0) /\ (soes => Grace = T - 1)
  BY Numbers DEF Grace

\* The build is the same for ever.
LEMMA SameBuild == ASSUME [Next]_vars PROVE (soes' <=> soes) /\ Grace' = Grace
<1>1. soes' = soes
  BY Zenon DEF Next, LoopStep, Pace, TakeEdge, WakeWithoutEdge, Notify, WorkDone,
     ClockEdge, Glitch, OnEdge, StartClock, StopClock, Tick, vars
<1> QED BY <1>1, Zenon DEF Grace, T

-----------------------------------------------------------------------------
(* Types *)

LEMMA InitTypes == Init => TypeOK
<1> USE DEF Init
<1>1. Init => FlagsOK
  BY Zenon DEF FlagsOK
<1>2. Init => CountsOK
  BY Numbers DEF CountsOK, T
<1> QED BY <1>1, <1>2 DEF TypeOK

LEMMA FlagsStep == ASSUME TypeOK, [Next]_vars PROVE FlagsOK'
<1> USE DEF TypeOK, FlagsOK
<1>0. soes' = soes
  BY Zenon DEF Next, LoopStep, Pace, TakeEdge, WakeWithoutEdge, Notify, WorkDone,
     ClockEdge, Glitch, OnEdge, StartClock, StopClock, Tick, vars
<1>1. CASE Pace \/ TakeEdge \/ WakeWithoutEdge \/ WorkDone \/ Tick
  BY <1>0, <1>1, Zenon DEF Pace, TakeEdge, WakeWithoutEdge, WorkDone, Tick, clockVars
<1>2. CASE Notify
  BY <1>0, <1>2, Zenon DEF Notify, clockVars
<1>3. CASE ClockEdge \/ Glitch
  BY <1>0, <1>3, Zenon DEF ClockEdge, Glitch, OnEdge
<1>4. CASE StartClock \/ StopClock
  BY <1>0, <1>4, Zenon DEF StartClock, StopClock
<1>5. CASE UNCHANGED vars
  BY <1>5, Zenon DEF vars
<1> QED BY <1>1, <1>2, <1>3, <1>4, <1>5 DEF Next, LoopStep

LEMMA CountedType ==
  ASSUME NEW n \in (-CountTop - 1) .. CountTop
  PROVE  Counted(n) \in (-CountTop - 1) .. CountTop
  BY Numbers DEF Counted

LEMMA CountsStep == ASSUME TypeOK, [Next]_vars PROVE CountsOK'
<1> USE Numbers DEF TypeOK, CountsOK, T, Sooner, clockVars, isrVars
<1>1. CASE Pace
  BY <1>1 DEF Pace
<1>2. CASE TakeEdge \/ WakeWithoutEdge \/ WorkDone
  BY <1>2 DEF TakeEdge, WakeWithoutEdge, WorkDone
<1>3. CASE Notify
  BY <1>3, LongestIs DEF Notify, AgeAfter
<1>4. CASE Tick
  BY <1>4 DEF Tick
<1>5. CASE ClockEdge \/ Glitch
  BY <1>5, CountedType DEF ClockEdge, Glitch, OnEdge, Permits
<1>6. CASE StartClock \/ StopClock
  BY <1>6 DEF StartClock, StopClock
<1>7. CASE UNCHANGED vars
  BY <1>7 DEF vars
<1> QED BY <1>1, <1>2, <1>3, <1>4, <1>5, <1>6, <1>7 DEF Next, LoopStep

\* No counter leaves its bounds and the semaphore its limit.
THEOREM TypeCorrect == Spec => []TypeOK
<1>1. TypeOK /\ [Next]_vars => TypeOK'
  BY FlagsStep, CountsStep DEF TypeOK
<1> QED BY InitTypes, <1>1, PTL DEF Spec

-----------------------------------------------------------------------------
(* The timed invariant *)

LEMMA InitTime == Init => TimeInv
  BY Numbers, LongestIs, GraceIs DEF Init, TimeInv

LEMMA TimeStep == ASSUME TypeOK, TimeInv, [Next]_vars PROVE TimeInv'
<1> USE Numbers, LongestIs, GraceIs, SameBuild
<1> USE DEF TypeOK, CountsOK, TimeInv, Sooner, clockVars, isrVars
<1>1. CASE Pace
  BY <1>1 DEF Pace, T
<1>2. CASE TakeEdge
  BY <1>2 DEF TakeEdge
<1>3. CASE WakeWithoutEdge
  BY <1>3 DEF WakeWithoutEdge
<1>4. CASE Notify
  <2>1. PICK w \in WorkTimes : left' = w
    BY <1>4 DEF Notify
  <2>2. w \in Nat /\ w <= L
    OBVIOUS
  <2>3. /\ pc = "notify" /\ pc' = "work"
        /\ sem' = sem /\ quiet' = quiet /\ edge' = edge
    BY <1>4 DEF Notify
  <2>4. CASE edge
    <3>1. age' = 0 /\ quiet <= L
      BY <1>4, <2>3, <2>4 DEF Notify, AgeAfter
    <3> QED BY <2>1, <2>2, <2>3, <3>1
  <2>5. CASE ~edge
    <3>1. locked' => locked /\ ~Lost
      BY <1>4, <2>5, Zenon DEF Notify
    <3>2. age' = age
      BY <1>4, <2>5 DEF Notify, AgeAfter
    <3>3. CASE ~locked'
      BY <2>1, <2>2, <2>3, <3>2, <3>3
    <3>4. CASE locked'
      <4>1. locked /\ age < T /\ soes
        BY <2>3, <2>5, <3>1, <3>4 DEF Lost, T
      <4>2. quiet <= L + T - 1
        BY <2>3, <4>1
      <4> QED BY <2>1, <2>2, <2>3, <3>2, <4>1, <4>2
    <3> QED BY <3>3, <3>4
  <2> QED BY <2>4, <2>5
<1>5. CASE WorkDone
  BY <1>5 DEF WorkDone
<1>6. CASE Tick
  BY <1>6 DEF Tick, T
<1>7. CASE ClockEdge \/ Glitch
  BY <1>7 DEF ClockEdge, Glitch, OnEdge, Permits
<1>8. CASE StartClock \/ StopClock
  BY <1>8 DEF StartClock, StopClock
<1>9. CASE UNCHANGED vars
  BY <1>9 DEF vars
<1> QED
  BY <1>1, <1>2, <1>3, <1>4, <1>5, <1>6, <1>7, <1>8, <1>9 DEF Next, LoopStep

\* A stopped clock is noticed within StopBound, wherever it stops: the bound is
\* two iterations and a timeout for the legacy loop, and almost one timeout more
\* for the SOES loop, whose wait SINT may end just before the age runs out.
THEOREM NoticedInTime == Spec => []StopNoticed
<1>1. TypeOK /\ TimeInv /\ [Next]_vars => TimeInv'
  BY TimeStep
<1>2. TypeOK /\ TimeInv => StopNoticed
  BY Numbers, LongestIs
  DEF TypeOK, CountsOK, TimeInv, StopNoticed, StopBound, Grace, T, L
<1> QED BY TypeCorrect, InitTime, <1>1, <1>2, PTL DEF Spec

-----------------------------------------------------------------------------
(* Edges and the lock *)

\* An edge wakes the loop only if one has come since the last one did.
THEOREM NoBacklogKept == Spec => []NoBacklog
<1> USE DEF NoBacklog
<1>1. Init => NoBacklog
  BY DEF Init
<1>2. ASSUME TypeOK, NoBacklog, [Next]_vars PROVE NoBacklog'
  <2>1. CASE TakeEdge
    BY <1>2, <2>1 DEF TakeEdge, TypeOK, CountsOK
  <2>2. CASE ClockEdge \/ Glitch
    BY <2>2 DEF ClockEdge, Glitch, OnEdge
  <2>3. CASE UNCHANGED <<sem, fresh>>
    BY <1>2, <2>3
  <2>4. Pace \/ WakeWithoutEdge \/ Notify \/ WorkDone \/ Tick \/ StartClock
          \/ StopClock \/ UNCHANGED vars => UNCHANGED <<sem, fresh>>
    BY DEF Pace, WakeWithoutEdge, Notify, WorkDone, Tick, StartClock, StopClock,
           vars
  <2> QED BY <1>2, <2>1, <2>2, <2>3, <2>4 DEF Next, LoopStep
<1> QED BY TypeCorrect, <1>1, <1>2, PTL DEF Spec

LEMMA LockStep ==
  ASSUME TypeOK, LockInv, [Next]_vars PROVE LockInv'
<1> USE Numbers
<1> USE DEF TypeOK, CountsOK, LockInv, Sooner, clockVars, isrVars
<1>1. CASE Pace
  BY <1>1 DEF Pace
<1>2. CASE TakeEdge
  BY <1>2 DEF TakeEdge
<1>3. CASE WakeWithoutEdge
  BY <1>3 DEF WakeWithoutEdge
<1>4. CASE Notify
  <2>1. CASE edge
    BY <1>4, <2>1 DEF Notify, Enough
  <2>2. CASE ~edge
    BY <1>4, <2>2 DEF Notify, Lost
  <2> QED BY <2>1, <2>2
<1>5. CASE WorkDone \/ Tick
  BY <1>5 DEF WorkDone, Tick
<1>6. CASE ClockEdge \/ Glitch
  BY <1>6 DEF ClockEdge, Glitch, OnEdge, Permits, Counted
<1>7. CASE StartClock \/ StopClock
  BY <1>7 DEF StartClock, StopClock
<1>8. CASE UNCHANGED vars
  BY <1>8 DEF vars
<1> QED
  BY <1>1, <1>2, <1>3, <1>4, <1>5, <1>6, <1>7, <1>8 DEF Next, LoopStep

\* A loop that has caught up with SYNC0_LOCK_EDGES edges is locked, for every
\* width of the counter, wrapping or not.
THEOREM LocksPromptly == Spec => []PromptLock
<1>1. Init => LockInv
  BY Numbers DEF Init, LockInv
<1>2. TypeOK /\ LockInv /\ [Next]_vars => LockInv'
  BY LockStep
<1>3. LockInv => PromptLock
  BY DEF LockInv, PromptLock
<1> QED BY TypeCorrect, <1>1, <1>2, <1>3, PTL DEF Spec

-----------------------------------------------------------------------------
(* A lock that holds *)

\* While the clock runs and no permit waits, the edge to come is less than a
\* cycle after the one last consumed, so the age never reaches a cycle unseen.
PaceInv ==
  /\ steady => dc
  /\ steady /\ sem = 0 /\ ~(pc = "notify" /\ edge) => age + phase <= Cycle
  /\ steady /\ pc = "notify" /\ ~edge => age <= Cycle

LEMMA PaceStep == ASSUME TypeOK, PaceInv, [Next]_vars PROVE PaceInv'
<1> USE Numbers
<1> USE DEF TypeOK, FlagsOK, CountsOK, PaceInv, Sooner, clockVars, isrVars
<1>1. CASE Pace
  BY <1>1 DEF Pace
<1>2. CASE TakeEdge
  BY <1>2 DEF TakeEdge
<1>3. CASE WakeWithoutEdge
  BY <1>3 DEF WakeWithoutEdge
<1>4. CASE Notify
  <2>1. CASE edge
    BY <1>4, <2>1 DEF Notify, AgeAfter
  <2>2. CASE ~edge
    BY <1>4, <2>2 DEF Notify, AgeAfter
  <2> QED BY <2>1, <2>2
<1>5. CASE WorkDone
  BY <1>5 DEF WorkDone
<1>6. CASE Tick
  BY <1>6 DEF Tick, T
<1>7. CASE ClockEdge \/ Glitch
  BY <1>7 DEF ClockEdge, Glitch, OnEdge, Permits
<1>8. CASE StartClock
  BY <1>8 DEF StartClock
<1>9. CASE StopClock
  BY <1>9 DEF StopClock
<1>10. CASE UNCHANGED vars
  BY <1>10 DEF vars
<1> QED
  BY <1>1, <1>2, <1>3, <1>4, <1>5, <1>6, <1>7, <1>8, <1>9, <1>10 DEF Next, LoopStep

\* The lock does not flap, however many edges coalesce, however long an iteration
\* takes and however SINT wakes the loop: a timeout above the cycle the master
\* clocks with, as the comment at sync0.c:22 asks for, is enough.
THEOREM NeverFlaps ==
  ASSUME Cycle < SYNC0_LOCKED_TIMEOUT_MS
  PROVE  Spec => NoFlap
<1> DEFINE Holds == steady /\ locked => locked'
<1>1. Init => PaceInv
  BY DEF Init, PaceInv
<1>2. TypeOK /\ PaceInv /\ [Next]_vars => PaceInv'
  BY PaceStep
<1>3. ASSUME TypeOK, PaceInv, [Next]_vars PROVE [Holds]_vars
  <2> SUFFICES ASSUME steady, locked PROVE locked'
    OBVIOUS
  <2>1. CASE Notify
    <3>1. ~edge => ~Lost
      <4>1. pc = "notify"
        BY <2>1 DEF Notify
      <4> QED BY <1>3, <4>1, Numbers DEF PaceInv, TypeOK, CountsOK, Lost, T
    <3> QED BY <2>1, <3>1, Zenon DEF Notify
  <2>2. CASE ~Notify
    BY <1>3, <2>2, Zenon DEF Next, LoopStep, Pace, TakeEdge, WakeWithoutEdge, WorkDone,
       ClockEdge, Glitch, OnEdge, StartClock, StopClock, Tick, vars
  <2> QED BY <2>1, <2>2
<1> QED BY TypeCorrect, <1>1, <1>2, <1>3, PTL DEF Spec, NoFlap

=============================================================================
