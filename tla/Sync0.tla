------------------------------- MODULE Sync0 --------------------------------
(***************************************************************************)
(* Pacing of the firmware's loop by the bus clock (firmware/src/sync0.c).  *)
(* Three parties: the ESC, which raises SYNC0 once per DC cycle while the  *)
(* master has the distributed clock running; the GPIO interrupt, which     *)
(* counts the edge and gives a semaphore of one permit; and the loop,      *)
(* which waits for the semaphore with a timeout, tells sync0_notify        *)
(* whether an edge woke it, and works for a while.  The legacy slave waits *)
(* in sync0_pace; the SOES loop waits in k_poll, always with the long      *)
(* timeout, and is also woken by SINT without an edge.                     *)
(* Time advances in ticks of 1 ms.                                         *)
(***************************************************************************)
EXTENDS Integers

CONSTANTS
  SYNC0_POLL_MS,            \* wait while unlocked (legacy loop)
  SYNC0_LOCKED_TIMEOUT_MS,  \* wait while locked, and age at which to unlock
  SYNC0_LOCK_EDGES,         \* edges counted before locking
  Cycle,                    \* ms between edges while the clock runs
  WorkTimes,                \* ms the rest of one loop iteration may take
  CountTop,                 \* largest edge_count
  CountWraps,               \* does the counter wrap there, as an atomic_t does
                            \* at 2^31-1, or is it a bound, where CountTop
                            \* stands for every larger count?
  MaxGlitches,              \* bound: edges that are not ticks of the clock
  QuietCap                  \* bound: ms without an edge that are told apart;
                            \* above StopBound, or StopNoticed says nothing

ASSUME Sync0Assumption ==
  /\ CountWraps \in BOOLEAN
  /\ SYNC0_POLL_MS \in Nat \ {0}
  /\ SYNC0_LOCKED_TIMEOUT_MS \in Nat \ {0}
  /\ SYNC0_LOCK_EDGES \in Nat \ {0}
  /\ Cycle \in Nat \ {0}
  /\ WorkTimes \subseteq Nat
  /\ \E w \in WorkTimes : \A v \in WorkTimes : v <= w
  /\ CountTop \in Nat /\ CountTop > SYNC0_LOCK_EDGES
  /\ MaxGlitches \in Nat
  /\ QuietCap \in Nat

VARIABLES
  soes,        \* chosen by the build: the loop of soes_app.c, or of main.c?
  dc,          \* is the master's distributed clock running?
  phase,       \* ms to the next edge, while it is
  edge_count, sem, locked,   \* sync0.c
  age,         \* ms since last_edge_ms, up to the timeout
  pc,          \* where the loop is
  left,        \* ms left of the wait or of the work
  edge,        \* did an edge end the last wait?
  \* History.
  quiet,       \* ms since the interrupt last ran
  fresh,       \* did it run since the semaphore was last taken?
  steady,      \* has an edge been consumed since the clock was started?
  seen,        \* edges since boot or since the last unlock, up to LOCK_EDGES
  glitches     \* spurious edges so far

vars == <<soes, dc, phase, edge_count, sem, locked, age, pc, left, edge, quiet,
          fresh, steady, seen, glitches>>

clockVars == <<dc, phase>>
isrVars == <<edge_count, quiet, glitches>>

Sooner(a, b) == IF a < b THEN a ELSE b
Longest == CHOOSE w \in WorkTimes : \A v \in WorkTimes : v <= w

Init ==
  /\ soes \in BOOLEAN
  /\ dc = FALSE /\ phase = 0
  /\ edge_count = 0 /\ sem = 0 /\ locked = FALSE
  /\ age = SYNC0_LOCKED_TIMEOUT_MS
  /\ pc = "pace" /\ left = 0 /\ edge = FALSE
  /\ quiet = QuietCap /\ fresh = FALSE /\ steady = FALSE
  /\ seen = 0 /\ glitches = 0

-----------------------------------------------------------------------------
(* The interrupt *)

\* atomic_inc: signed, and it wraps.
Counted(n) ==
  IF n < CountTop THEN n + 1 ELSE IF CountWraps THEN -CountTop - 1 ELSE CountTop

\* Mutant: the semaphore holds two permits.
TwoPermits == 2

\* K_SEM_DEFINE(sync0_sem, 0, 1).
Permits == 1

\* on_sync0_edge: count the edge, give a permit.
OnEdge ==
  /\ edge_count' = Counted(edge_count)
  /\ sem' = Sooner(sem + 1, Permits)
  /\ quiet' = 0
  /\ fresh' = TRUE
  /\ seen' = Sooner(seen + 1, SYNC0_LOCK_EDGES)
  /\ UNCHANGED <<soes, dc, locked, age, pc, left, edge, steady>>

ClockEdge == dc /\ phase = 0 /\ phase' = Cycle /\ OnEdge /\ UNCHANGED glitches

Glitch ==
  /\ glitches < MaxGlitches
  /\ glitches' = glitches + 1
  /\ OnEdge
  /\ UNCHANGED phase

-----------------------------------------------------------------------------
(* The loop *)

\* sync0_pace (or k_poll) starts to wait.
Pace ==
  /\ pc = "pace"
  /\ pc' = "wait"
  /\ left' = IF locked \/ soes THEN SYNC0_LOCKED_TIMEOUT_MS ELSE SYNC0_POLL_MS
  /\ UNCHANGED <<soes, clockVars, isrVars, sem, locked, age, edge, fresh, steady,
                 seen>>

\* The semaphore ends the wait.
TakeEdge ==
  /\ pc = "wait" /\ sem > 0
  /\ sem' = sem - 1
  /\ edge' = TRUE
  /\ fresh' = FALSE
  /\ steady' = dc
  /\ pc' = "notify"
  /\ UNCHANGED <<soes, clockVars, isrVars, locked, age, left, seen>>

\* The timeout ends it, or SINT does (SOES loop only).  An edge that comes
\* from here on is left for the next wait.
WakeWithoutEdge ==
  /\ pc = "wait"
  /\ sem = 0
  /\ soes \/ left = 0
  /\ edge' = FALSE
  /\ pc' = "notify"
  /\ UNCHANGED <<soes, clockVars, isrVars, sem, locked, age, left, fresh, steady,
                 seen>>

\* Mutants: one edge too many; only if the count is met exactly.
EnoughAbove == edge_count > SYNC0_LOCK_EDGES
EnoughExactly == edge_count = SYNC0_LOCK_EDGES

\* Have enough edges been counted to lock?
Enough == edge_count >= SYNC0_LOCK_EDGES

\* Mutants: any wake without an edge unlocks; every wake counts as an edge.
LostAtOnce == TRUE
AgeRestarts == 0

\* Has the clock been silent for long enough to unlock?
Lost == age >= SYNC0_LOCKED_TIMEOUT_MS

\* The age of last_edge_ms after sync0_notify.
AgeAfter == IF edge THEN 0 ELSE age

\* sync0_notify(edge), then the loop's body begins.
Notify ==
  /\ pc = "notify"
  /\ pc' = "work"
  /\ left' \in WorkTimes
  /\ age' = AgeAfter
  /\ \/ /\ edge
        /\ locked' = (locked \/ Enough)
        /\ UNCHANGED seen
     \/ /\ ~edge
        /\ locked' = (locked /\ ~Lost)
        /\ seen' = IF locked /\ ~locked' THEN 0 ELSE seen
  /\ UNCHANGED <<soes, clockVars, isrVars, sem, edge, fresh, steady>>

\* ecat_slave_poll or ecat_slv returns.
WorkDone ==
  /\ pc = "work" /\ left = 0
  /\ pc' = "pace"
  /\ UNCHANGED <<soes, clockVars, isrVars, sem, locked, age, left, edge, fresh, steady,
                 seen>>

-----------------------------------------------------------------------------
(* The master and time *)

\* ec_dcsync0 on: the first edge comes a cycle later.
StartClock ==
  /\ ~dc /\ dc' = TRUE /\ phase' = Cycle
  /\ UNCHANGED <<soes, isrVars, sem, locked, age, pc, left, edge, fresh, steady,
                 seen>>

\* ec_dcsync0 off, or the ESC loses power.
StopClock ==
  /\ dc /\ dc' = FALSE /\ phase' = 0 /\ steady' = FALSE
  /\ UNCHANGED <<soes, isrVars, sem, locked, age, pc, left, edge, fresh, seen>>

\* A millisecond passes: only while the loop waits for something or works,
\* and never over an edge that is due.
Tick ==
  /\ left > 0 /\ (pc = "work" \/ (pc = "wait" /\ sem = 0))
  /\ ~(dc /\ phase = 0)
  /\ left' = left - 1
  /\ phase' = IF dc THEN phase - 1 ELSE phase
  /\ age' = Sooner(age + 1, SYNC0_LOCKED_TIMEOUT_MS)
  /\ quiet' = Sooner(quiet + 1, QuietCap)
  /\ UNCHANGED <<soes, dc, edge_count, sem, locked, pc, edge, fresh, steady, seen,
                 glitches>>

LoopStep == Pace \/ TakeEdge \/ WakeWithoutEdge \/ Notify \/ WorkDone
Next == LoopStep \/ ClockEdge \/ Tick \/ Glitch \/ StartClock \/ StopClock

Spec == Init /\ [][Next]_vars

\* The loop never blocks for ever, time passes however often SINT wakes the
\* loop, and a running clock ticks.
FairSpec ==
  /\ Spec
  /\ WF_vars(LoopStep)
  /\ SF_vars(Tick)
  /\ WF_vars(ClockEdge)

-----------------------------------------------------------------------------
(* Properties *)

FlagsOK ==
  /\ soes \in BOOLEAN /\ dc \in BOOLEAN /\ locked \in BOOLEAN /\ edge \in BOOLEAN
  /\ fresh \in BOOLEAN /\ steady \in BOOLEAN

CountsOK ==
  /\ phase \in 0 .. Cycle
  /\ edge_count \in (-CountTop - 1) .. CountTop
  /\ sem \in {0, 1}
  /\ age \in 0 .. SYNC0_LOCKED_TIMEOUT_MS
  /\ pc \in {"pace", "wait", "notify", "work"}
  /\ left \in Nat
  /\ quiet \in 0 .. QuietCap
  /\ seen \in 0 .. SYNC0_LOCK_EDGES
  /\ glitches \in 0 .. MaxGlitches

\* Every variable has its type; the semaphore never holds more than its limit.
TypeOK == FlagsOK /\ CountsOK

\* After an overrun the loop does not race through a backlog of missed edges:
\* a wait ends by an edge only if an edge arrived since the previous one.
NoBacklog == sem > 0 => fresh

\* Once the interrupt has seen SYNC0_LOCK_EDGES edges since the last unlock and
\* the loop has caught up with it, the loop is locked: coalesced edges (one
\* permit for several) and edgeless wakes do not keep it polling.  (While the
\* counter has wrapped to a negative value the code does not lock.)
PromptLock ==
  /\ edge_count >= SYNC0_LOCK_EDGES /\ seen = SYNC0_LOCK_EDGES
  /\ sem = 0 /\ pc # "notify"
  => locked

\* The longest silence a locked loop may not have noticed yet.  The last edge
\* may have waited for one iteration to end; then the legacy loop finds out at
\* its next timeout, the SOES loop, which SINT may wake just before the age
\* runs out, at the one after that.
StopBound ==
  2 * Longest + (IF soes THEN 2 * SYNC0_LOCKED_TIMEOUT_MS - 1
                 ELSE SYNC0_LOCKED_TIMEOUT_MS)

ASSUME CapAssumption ==
  QuietCap >= 2 * Longest + 2 * SYNC0_LOCKED_TIMEOUT_MS

\* A stopped clock is noticed in bounded time, whatever the last edge
\* interrupted and whatever woke the loop meanwhile.
StopNoticed == locked => quiet <= StopBound

\* Once an edge of a running clock has been consumed the lock is not lost while
\* the clock runs: neither edgeless SINT wakes, nor iterations longer than a
\* cycle, nor the race of an edge with the timeout make it flap.
NoFlap == [][steady /\ locked => locked']_vars

\* What the comment on SYNC0_LOCK_EDGES promises: one spurious edge never
\* locks the loop, each lock rests on SYNC0_LOCK_EDGES edges of its own.
LockNeedsEvidence == locked => seen = SYNC0_LOCK_EDGES

\* A clock that runs for good is followed for good.
ClockFollowed == <>[]dc => <>[]locked

=============================================================================
