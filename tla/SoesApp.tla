------------------------------ MODULE SoesApp -------------------------------
(***************************************************************************)
(* The glue between SOES and the stepper axis (firmware/soes/soes_app.c),  *)
(* the slave of the default build.  SOES is external: in its one thread it *)
(* calls the output callback when outputs arrive in OP, the input callback *)
(* once per cycle, and for an SDO download to 0x8000 the pre hook, its own *)
(* store and the post hook in a row.  Only the step timer runs beside it.  *)
(***************************************************************************)
EXTENDS Stepper

CONSTANT NO_ANGLE_APPLIED  \* the sentinel; a master may send it as a target

\* "A sentinel outside the commandable range" (soes_app.c:32-33).
ASSUME SoesAssumption ==
  /\ NO_ANGLE_APPLIED \in Nat
  /\ NO_ANGLE_APPLIED > MAX_ANGLE_MAX_DEG

VARIABLES
  running,       \* is soes_app_run past ecat_slv_init?
  apply_angle,   \* did actuator_bring_up hand over the callbacks?
  last_applied,
  Axis,          \* Obj.Axis: the two entries a master may write
  Inputs         \* Obj.Inputs, as SOES publishes it

appVars == <<running, apply_angle, last_applied, Axis, Inputs>>
soesVars == <<vars, appVars>>

\* Mutant: no test for the sentinel.
EchoRaw == last_applied

\* The target the input callback echoes; 0 also for a target that happens to be
\* the sentinel.
Echo == IF last_applied = NO_ANGLE_APPLIED THEN 0 ELSE last_applied

\* What stepper.c says the axis parameters are, after this step.
ReadAxis ==
  [step_interval_ns |-> step_interval_ns', max_angle |-> max_angle_deg']

SoesInit ==
  /\ Init
  /\ running = FALSE /\ apply_angle = FALSE
  /\ last_applied = NO_ANGLE_APPLIED
  /\ Axis = [step_interval_ns |-> 0, max_angle |-> 0]
  /\ Inputs = [echo_angle |-> 0, actual_angle |-> 0]

\* Mutant: the callbacks are handed over although the axis is down.
HandOverAnyway == apply_angle' = TRUE

\* An axis that failed to start is never driven.
HandOver == apply_angle' = up'

\* main brings the actuator up once and starts SOES, whose defaults hook seeds
\* the dictionary from the axis.
soes_app_run ==
  /\ ~running
  /\ stepper_init
  /\ HandOver
  /\ running' = TRUE
  /\ last_applied' = NO_ANGLE_APPLIED
  /\ Axis' = ReadAxis
  /\ UNCHANGED Inputs

\* Mutant: the target is remembered and not applied.
DropTarget(target) == UNCHANGED vars

\* The actuator, if there is one; a target it rejects is not noticed.
Apply(target) ==
  \/ apply_angle /\ stepper_set_angle(target)
  \/ ~apply_angle /\ UNCHANGED vars

\* Outputs have arrived.  A target that is the last one again does nothing.
cb_set_outputs(target) ==
  /\ running
  /\ target # last_applied
  /\ last_applied' = target
  /\ Apply(target)
  /\ UNCHANGED <<running, apply_angle, Axis, Inputs>>

\* Publish the image.  Without an axis, or when its counter cannot be read, the
\* position is the command.
cb_get_inputs ==
  /\ running
  /\ \/ /\ apply_angle /\ UNCHANGED vars
        /\ Inputs' = [echo_angle |-> Echo, actual_angle |-> actual_angle]
     \/ /\ ~apply_angle /\ UNCHANGED vars
        /\ Inputs' = [echo_angle |-> Echo, actual_angle |-> Echo]
     \/ /\ apply_angle /\ PositionUnread
        /\ Inputs' = [echo_angle |-> Echo, actual_angle |-> Echo]
  /\ UNCHANGED <<running, apply_angle, last_applied, Axis>>

\* Mutant: the value is stored although the axis refused it.
StoreRefused(entry, value) == Axis' = [Axis EXCEPT ![entry] = value]

\* A refused download stores nothing.
Refuse(entry, value) == UNCHANGED Axis

\* A download to 0x8000:01.  The pre hook asks the axis; only if it agrees does
\* SOES store the value and the post hook read the axis back.
DownloadInterval(ns) ==
  /\ running
  /\ \/ /\ stepper_set_step_interval(ns)
        /\ faults' = faults
        /\ Axis' = ReadAxis
     \/ /\ stepper_set_step_interval(ns)
        /\ faults' # faults
        /\ Refuse("step_interval_ns", ns)
     \/ /\ ns \notin STEP_INTERVAL_MIN_NS .. STEP_INTERVAL_MAX_NS
        /\ Refuse("step_interval_ns", ns)
        /\ UNCHANGED vars
  /\ UNCHANGED <<running, apply_angle, last_applied, Inputs>>

\* A download to 0x8000:02.
DownloadMaxAngle(degrees) ==
  /\ running
  /\ \/ /\ stepper_set_max_angle(degrees)
        /\ Axis' = ReadAxis
     \/ /\ ~LimitOk(degrees)
        /\ Refuse("max_angle", degrees)
        /\ UNCHANGED vars
  /\ UNCHANGED <<running, apply_angle, last_applied, Inputs>>

\* The step timer.
Step == EmitStep /\ UNCHANGED appVars

SoesNext ==
  \/ soes_app_run
  \/ \E d \in Angles : cb_set_outputs(d)
  \/ cb_get_inputs
  \/ \E ns \in Intervals : DownloadInterval(ns)
  \/ \E d \in Limits : DownloadMaxAngle(d)
  \/ Step

SoesSpec == SoesInit /\ [][SoesNext]_soesVars

\* SOES publishes its inputs every cycle, and the step timer runs.
SoesFairSpec == SoesSpec /\ WF_soesVars(cb_get_inputs) /\ WF_soesVars(Step)

-----------------------------------------------------------------------------
(* Properties *)

\* The types of the callbacks, of the dictionary and of the image, into which the
\* sentinel never leaks; the axis has its own in TypeOK.
SoesTypeOK ==
  LET Published == Nat \ {NO_ANGLE_APPLIED} IN
  /\ running \in BOOLEAN /\ apply_angle \in BOOLEAN
  /\ last_applied \in Angles \cup {NO_ANGLE_APPLIED}
  /\ Axis \in [step_interval_ns : Nat, max_angle : Nat]
  /\ Inputs \in [echo_angle : Published, actual_angle : Published]

\* The dictionary agrees with the axis, and with the interval its controller
\* holds for the next move.
DictionaryAgrees ==
  running => /\ Axis.max_angle = max_angle_deg
             /\ Axis.step_interval_ns = step_interval_ns
             /\ apply_angle => Axis.step_interval_ns = ctrl_interval

\* What a master reads back from 0x8000 is what the axis uses: a download that
\* is refused, by the range check or by the controller, leaves both untouched,
\* and every move is stepped at the interval that 0x8000:01 held when it started.
DictionaryTrue ==
  [][/\ DictionaryAgrees'
     /\ restarts' # restarts
          => move_interval' = Axis.step_interval_ns]_soesVars

\* The comment on 0x8000 (slave_objectlist.c:198-199) says of its first two
\* entries that they "take effect immediately: writing 0x8000:01 changes how fast
\* the axis moves": a move in flight is stepped at what 0x8000:01 reads back.
\* Violated: the controller latches the interval when a move starts.
IntervalAtOnce ==
  apply_angle /\ ctrl_pos # ctrl_target
    => move_interval = Axis.step_interval_ns

\* The node uses the axis as stepper.c expects: an axis that failed to start is
\* never commanded, and no interleaving of outputs, downloads and the step timer
\* is one the axis's own specification does not know.
AxisSpec == Spec

\* As long as no controller call failed, the target a node with an axis echoes
\* was taken by the axis: SOES's delivery gate and the axis's own repeat check
\* never both drop a target.
EchoWasSent ==
  faults = 0 /\ apply_angle /\ last_applied # NO_ANGLE_APPLIED
    => asked = last_applied /\ commanded_valid

\* A standing target that the limit does not change under is published as
\* reached: the image's two angles meet.
ImageConverges ==
  \A d \in Angles :
    <>[](/\ apply_angle /\ last_applied = d /\ commanded_valid
         /\ d <= max_angle_deg /\ commanded_steps = TargetSteps(d))
      => <>[](Inputs = [echo_angle |-> d, actual_angle |-> d])
=============================================================================
