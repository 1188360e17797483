------------------------------ MODULE Stepper -------------------------------
(***************************************************************************)
(* The stepper axis (firmware/src/stepper.c) on Zephyr's motion            *)
(* controller.  stepper_set_angle is called by the slave stack, the two    *)
(* parameter setters by the CoE hooks, while the controller emits steps in *)
(* the background; a call to the controller may fail.                      *)
(***************************************************************************)
EXTENDS StepMath

CONSTANTS
  STEPS_PER_REV,      \* full steps per revolution x microstep factor
  STEPPER_ANGLE_MAX,  \* max-angle of the devicetree
  STEP_INTERVAL_NS,   \* step-interval-ns of the devicetree
  Angles,             \* targets the master sends
  Limits,             \* values it writes to max_angle over CoE
  Intervals,          \* values it writes to step_interval over CoE
  MaxFaults           \* bound: calls of the controller that fail

STEP_INTERVAL_MIN_NS == 200000
STEP_INTERVAL_MAX_NS == 50000000
MAX_ANGLE_MIN_DEG == 1
MAX_ANGLE_MAX_DEG == 360

ASSUME StepperAssumption ==
  /\ STEPS_PER_REV \in Nat \ {0}
  /\ STEPS_PER_REV <= 65535    \* reported in 16 bits over CoE
  /\ STEPPER_ANGLE_MAX \in MAX_ANGLE_MIN_DEG .. MAX_ANGLE_MAX_DEG
  /\ STEP_INTERVAL_NS \in Nat \ {0}
  /\ Angles \subseteq Nat /\ Limits \subseteq Nat /\ Intervals \subseteq Nat
  /\ MaxFaults \in Nat

VARIABLES
  up,               \* did stepper_init succeed?
  commanded_steps, commanded_valid,
  step_interval_ns, max_angle_deg,
  \* The motion controller (external).
  ctrl_interval,    \* the interval it was given last, 0 until then
  move_interval,    \* the one it latched when the last move started
  ctrl_target,      \* where it is moving to
  ctrl_pos,         \* steps emitted
  restarts,         \* flips whenever a move restarts the timing source
  \* History.
  asked,            \* last target stepper_set_angle took, in degrees
  faults

axisVars == <<commanded_steps, commanded_valid, step_interval_ns,
              max_angle_deg>>
ctrlVars == <<ctrl_interval, move_interval, ctrl_target, ctrl_pos, restarts>>
vars == <<up, axisVars, ctrlVars, asked, faults>>

None == -1

CallOk == UNCHANGED faults
CallFails == faults < MaxFaults /\ faults' = faults + 1

\* Mutant: the devicetree's limit, not the one written over CoE.
ClampedAtBuild(degrees) ==
  IF degrees > STEPPER_ANGLE_MAX THEN STEPPER_ANGLE_MAX ELSE degrees

Clamped(degrees) == IF degrees > max_angle_deg THEN max_angle_deg ELSE degrees
TargetSteps(degrees) == angle_to_steps(Clamped(degrees), STEPS_PER_REV)

\* Mutant: repeats are recognised by the angle asked for, before the clamp.
SameAngle(degrees) == commanded_valid /\ degrees = asked

\* Is the axis already on its way there?
AlreadyThere(degrees) ==
  commanded_valid /\ TargetSteps(degrees) = commanded_steps

\* Mutant: the target is remembered before the controller has taken it.
RememberAnyway(target) == commanded_steps' = target /\ commanded_valid' = TRUE

\* A move_to that failed leaves no trace.
ForgetMove(target) == UNCHANGED <<commanded_steps, commanded_valid>>

\* A set_microstep_interval that failed leaves no trace.
ForgetInterval(ns) == UNCHANGED step_interval_ns

\* The range check on a new limit.
LimitOk(degrees) == degrees \in MAX_ANGLE_MIN_DEG .. MAX_ANGLE_MAX_DEG

\* What stepper_actual_angle reports.
actual_angle == steps_to_angle(ctrl_pos, STEPS_PER_REV, max_angle_deg)

Init ==
  /\ up = FALSE
  /\ commanded_steps = 0 /\ commanded_valid = FALSE
  /\ step_interval_ns = STEP_INTERVAL_NS
  /\ max_angle_deg = STEPPER_ANGLE_MAX
  /\ ctrl_interval = 0 /\ move_interval = 0
  /\ ctrl_target = 0 /\ ctrl_pos = 0 /\ restarts = 0
  /\ asked = None /\ faults = 0

\* Program the interval, make the present position 0, energise.  A failure of
\* any call leaves the axis down; only the first two calls change anything.
stepper_init ==
  /\ ~up
  /\ \/ /\ CallOk
        /\ up' = TRUE
        /\ ctrl_interval' = step_interval_ns
        /\ ctrl_pos' = 0 /\ ctrl_target' = 0
     \/ /\ CallFails
        /\ ctrl_interval' \in {ctrl_interval, step_interval_ns}
        /\ UNCHANGED <<up, ctrl_pos, ctrl_target>>
  /\ commanded_valid' = FALSE
  /\ UNCHANGED <<commanded_steps, step_interval_ns, max_angle_deg,
                 move_interval, restarts, asked>>

\* The controller starts a move, at the interval it has been given.  It keeps to
\* that interval until the next move (stepper.h:103-104).
StartMove(target) ==
  /\ ctrl_target' = target
  /\ restarts' = 1 - restarts
  /\ move_interval' = ctrl_interval

\* Clamp, convert, drop a repeat of the target in flight, otherwise move.
stepper_set_angle(degrees) ==
  LET target == TargetSteps(degrees) IN
  /\ asked' = degrees
  /\ \/ /\ AlreadyThere(degrees)
        /\ CallOk
        /\ UNCHANGED <<commanded_steps, commanded_valid, ctrl_target,
                       move_interval, restarts>>
     \/ /\ ~AlreadyThere(degrees)
        /\ CallOk
        /\ StartMove(target)
        /\ commanded_steps' = target
        /\ commanded_valid' = TRUE
     \/ /\ ~AlreadyThere(degrees)
        /\ CallFails
        /\ ForgetMove(target)
        /\ UNCHANGED <<ctrl_target, move_interval, restarts>>
  /\ UNCHANGED <<up, step_interval_ns, max_angle_deg, ctrl_interval, ctrl_pos>>

\* CoE 0x8000:02.  A value out of range is rejected; the position already
\* commanded is left alone.
stepper_set_max_angle(degrees) ==
  /\ LimitOk(degrees)
  /\ max_angle_deg' = degrees
  /\ UNCHANGED <<up, commanded_steps, commanded_valid, step_interval_ns,
                 ctrlVars, asked, faults>>

\* CoE 0x8000:01.  The copy is changed only if the controller took the value; a
\* move in flight goes on at the interval it started with.
stepper_set_step_interval(ns) ==
  /\ ns \in STEP_INTERVAL_MIN_NS .. STEP_INTERVAL_MAX_NS
  /\ \/ CallOk /\ ctrl_interval' = ns /\ step_interval_ns' = ns
     \/ CallFails /\ ForgetInterval(ns) /\ UNCHANGED ctrl_interval
  /\ UNCHANGED <<up, commanded_steps, commanded_valid, max_angle_deg,
                 move_interval, ctrl_target, ctrl_pos, restarts, asked>>

\* stepper_actual_angle, when the controller does not answer.
PositionUnread == CallFails /\ UNCHANGED <<up, axisVars, ctrlVars, asked>>

\* The controller emits one step.
EmitStep ==
  /\ ctrl_pos # ctrl_target
  /\ ctrl_pos' = IF ctrl_pos < ctrl_target THEN ctrl_pos + 1 ELSE ctrl_pos - 1
  /\ UNCHANGED <<up, axisVars, ctrl_interval, move_interval, ctrl_target,
                 restarts, asked, faults>>

Next ==
  \/ stepper_init
  \/ \E d \in Angles : up /\ stepper_set_angle(d)  \* main's choice of callback
  \/ \E d \in Limits : stepper_set_max_angle(d)
  \/ \E ns \in Intervals : stepper_set_step_interval(ns)
  \/ PositionUnread
  \/ EmitStep

Spec == Init /\ [][Next]_vars

\* The step timer runs on its own.
FairSpec == Spec /\ WF_vars(EmitStep)

-----------------------------------------------------------------------------
(* Properties *)

FlagsOK == up \in BOOLEAN /\ commanded_valid \in BOOLEAN

\* Every variable has the type of its C variable or controller register, and the
\* limit is always one the axis may have.
TypeOK ==
  /\ FlagsOK
  /\ commanded_steps \in Nat /\ step_interval_ns \in Nat
  /\ max_angle_deg \in MAX_ANGLE_MIN_DEG .. MAX_ANGLE_MAX_DEG
  /\ ctrl_interval \in Nat /\ move_interval \in Nat
  /\ ctrl_target \in Nat /\ ctrl_pos \in Nat
  /\ restarts \in {0, 1}
  /\ asked \in Nat \cup {None}
  /\ faults \in 0 .. MaxFaults

\* What stepper.c believes it commanded is where the controller is heading, in
\* spite of failed calls: otherwise a repeat would be dropped for a move that
\* never started.
CommandedIsTarget == commanded_valid => commanded_steps = ctrl_target

\* A move in flight is never restarted towards the target it already has, so
\* no STEP pulse is chopped for nothing, whatever limits were set between.
NoChoppedMove ==
  [][restarts' # restarts => ctrl_target' # ctrl_target \/ ~commanded_valid]_vars

\* The shaft is only ever sent inside the limit in force, the one written over
\* CoE and not the devicetree's.
SentWithinLimit ==
  [][ctrl_target' # ctrl_target
       => ctrl_target' <= angle_to_steps(max_angle_deg, STEPS_PER_REV)]_vars

\* The interval an axis that is up reports is the one its controller holds for
\* the next move, whatever calls failed, and there is one.
IntervalAgrees == up => ctrl_interval = step_interval_ns /\ ctrl_interval > 0

\* Every move is stepped at the interval the axis reports when it starts, and
\* never without one, whatever calls failed before.
MovesAtReported ==
  [][restarts' # restarts
       => move_interval' = step_interval_ns /\ move_interval' > 0]_vars

\* As long as the shaft is inside the limit, the angle reported is off by at
\* most half a step or half a degree, whichever is coarser.
ReportNearest ==
  LET off == ctrl_pos * STEP_MATH_DEGREES_PER_REV - actual_angle * STEPS_PER_REV
      coarse == IF STEPS_PER_REV > STEP_MATH_DEGREES_PER_REV
                THEN STEPS_PER_REV ELSE STEP_MATH_DEGREES_PER_REV
  IN  ctrl_pos <= angle_to_steps(max_angle_deg, STEPS_PER_REV)
        => 2 * off \in -coarse .. coarse

\* A target that was commanded and is not changed is reported as reached: actual
\* lags the target while moving and converges on arrival.
Converges ==
  \A d \in Angles :
    <>[](commanded_valid /\ asked = d /\ commanded_steps = TargetSteps(d))
      => <>[](actual_angle = Clamped(d))
=============================================================================
