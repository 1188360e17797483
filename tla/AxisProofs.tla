----------------------------- MODULE AxisProofs -----------------------------
(***************************************************************************)
(* Proofs about the stepper axis, for every motor (steps per revolution),  *)
(* every devicetree and every sequence of targets, parameter writes and    *)
(* failed calls of the controller.  The SOES node implements the axis's    *)
(* specification, so what is proved of the axis holds of the node; and its *)
(* dictionary and its echo are true.                                       *)
(***************************************************************************)
EXTENDS SoesApp, StepMathProofs

-----------------------------------------------------------------------------
(* The axis *)

\* The inductive invariant.
IInv == TypeOK /\ CommandedIsTarget /\ IntervalAgrees /\ step_interval_ns > 0

\* Whatever is asked for, the target in steps lies between 0 and the limit.
LEMMA TargetInRange ==
  ASSUME TypeOK, NEW d \in Nat
  PROVE  /\ TargetSteps(d) \in Nat
         /\ TargetSteps(d) <= angle_to_steps(max_angle_deg, STEPS_PER_REV)
<1>1. /\ Clamped(d) \in Nat /\ max_angle_deg \in Nat
      /\ Clamped(d) <= max_angle_deg /\ STEPS_PER_REV \in Nat
  BY StepperAssumption
  DEF Clamped, TypeOK, MAX_ANGLE_MIN_DEG, MAX_ANGLE_MAX_DEG
<1>2. angle_to_steps(Clamped(d), STEPS_PER_REV) \in Nat
  BY <1>1, AngleToSteps DEF Rounds
<1>3. angle_to_steps(Clamped(d), STEPS_PER_REV)
        <= angle_to_steps(max_angle_deg, STEPS_PER_REV)
  BY <1>1, StepsMonotonic
<1> QED BY <1>2, <1>3 DEF TargetSteps

\* TypeOK but for its Boolean part.
NumbersOK ==
  /\ commanded_steps \in Nat /\ step_interval_ns \in Nat
  /\ max_angle_deg \in 1 .. 360
  /\ ctrl_interval \in Nat /\ move_interval \in Nat
  /\ ctrl_target \in Nat /\ ctrl_pos \in Nat
  /\ restarts \in {0, 1}
  /\ asked \in Nat \cup {None}
  /\ faults \in 0 .. MaxFaults

LEMMA TypeParts == TypeOK <=> FlagsOK /\ NumbersOK
  BY DEF TypeOK, NumbersOK, MAX_ANGLE_MIN_DEG, MAX_ANGLE_MAX_DEG

LEMMA InitIInv == Init => IInv
<1> USE DEF Init
<1>1. Init => FlagsOK
  BY Zenon DEF FlagsOK
<1>2. Init => NumbersOK /\ step_interval_ns > 0
  BY StepperAssumption
  DEF NumbersOK, None, MAX_ANGLE_MIN_DEG, MAX_ANGLE_MAX_DEG
<1>3. Init => CommandedIsTarget /\ IntervalAgrees
  BY DEF CommandedIsTarget, IntervalAgrees
<1> QED BY <1>1, <1>2, <1>3, TypeParts DEF IInv

LEMMA FlagsStep == ASSUME FlagsOK, [Next]_vars PROVE FlagsOK'
<1> USE DEF FlagsOK
<1>1. CASE stepper_init
  BY <1>1, Zenon DEF stepper_init
<1>2. ASSUME NEW d \in Angles, stepper_set_angle(d) PROVE FlagsOK'
  BY <1>2, Zenon DEF stepper_set_angle, ForgetMove
<1>3. ASSUME NEW d \in Limits, stepper_set_max_angle(d) PROVE FlagsOK'
  BY <1>3, Zenon DEF stepper_set_max_angle
<1>4. ASSUME NEW ns \in Intervals, stepper_set_step_interval(ns) PROVE FlagsOK'
  BY <1>4, Zenon DEF stepper_set_step_interval
<1>5. CASE EmitStep \/ PositionUnread \/ UNCHANGED vars
  BY <1>5, Zenon DEF EmitStep, PositionUnread, axisVars, vars
<1> QED BY <1>1, <1>2, <1>3, <1>4, <1>5 DEF Next

LEMMA NumbersStep == ASSUME IInv, [Next]_vars PROVE NumbersOK'
<1>1. NumbersOK /\ MaxFaults \in Nat
  BY TypeParts, StepperAssumption DEF IInv
<1> USE <1>1 DEF NumbersOK, CallOk, CallFails, axisVars, ctrlVars
<1>2. CASE stepper_init
  BY <1>2 DEF stepper_init
<1>3. ASSUME NEW d \in Angles, stepper_set_angle(d) PROVE NumbersOK'
  <2>1. d \in Nat
    BY StepperAssumption
  <2>2. PICK t \in Nat : t = TargetSteps(d)
    BY <2>1, TargetInRange DEF IInv
  <2>3. /\ ctrl_target' \in {ctrl_target, t}
        /\ commanded_steps' \in {commanded_steps, t}
        /\ restarts' \in {restarts, 1 - restarts}
        /\ move_interval' \in {move_interval, ctrl_interval}
        /\ asked' = d
        /\ CallOk \/ CallFails
    BY <1>3, <2>2 DEF stepper_set_angle, StartMove, ForgetMove
  <2>4. UNCHANGED <<step_interval_ns, max_angle_deg, ctrl_interval, ctrl_pos>>
    BY <1>3 DEF stepper_set_angle
  <2> QED BY <2>1, <2>3, <2>4
<1>4. ASSUME NEW d \in Limits, stepper_set_max_angle(d) PROVE NumbersOK'
  BY <1>4 DEF stepper_set_max_angle, LimitOk, MAX_ANGLE_MIN_DEG,
              MAX_ANGLE_MAX_DEG
<1>5. ASSUME NEW ns \in Intervals, stepper_set_step_interval(ns)
      PROVE  NumbersOK'
  <2>1. ns \in Nat
    BY StepperAssumption
  <2> QED BY <1>5, <2>1 DEF stepper_set_step_interval, ForgetInterval
<1>6. CASE EmitStep \/ PositionUnread
  BY <1>6 DEF EmitStep, PositionUnread
<1>7. CASE UNCHANGED vars
  BY <1>7 DEF vars
<1> QED BY <1>2, <1>3, <1>4, <1>5, <1>6, <1>7 DEF Next

LEMMA BeliefStep ==
  ASSUME IInv, [Next]_vars
  PROVE  CommandedIsTarget' /\ IntervalAgrees' /\ (step_interval_ns > 0)'
<1>1. /\ NumbersOK
      /\ STEP_INTERVAL_MIN_NS \in Nat /\ STEP_INTERVAL_MAX_NS \in Nat
      /\ STEP_INTERVAL_MIN_NS > 0
  BY TypeParts DEF IInv, STEP_INTERVAL_MIN_NS, STEP_INTERVAL_MAX_NS
<1> USE <1>1 DEF IInv, CommandedIsTarget, IntervalAgrees, NumbersOK, axisVars,
                ctrlVars
<1>2. CASE stepper_init
  BY <1>2 DEF stepper_init
<1>3. ASSUME NEW d \in Angles, stepper_set_angle(d)
      PROVE  CommandedIsTarget' /\ IntervalAgrees' /\ (step_interval_ns > 0)'
  BY <1>3 DEF stepper_set_angle, StartMove, ForgetMove
<1>4. ASSUME NEW d \in Limits, stepper_set_max_angle(d)
      PROVE  CommandedIsTarget' /\ IntervalAgrees' /\ (step_interval_ns > 0)'
  BY <1>4 DEF stepper_set_max_angle
<1>5. ASSUME NEW ns \in Intervals, stepper_set_step_interval(ns)
      PROVE  CommandedIsTarget' /\ IntervalAgrees' /\ (step_interval_ns > 0)'
  <2>1. ns \in STEP_INTERVAL_MIN_NS .. STEP_INTERVAL_MAX_NS
    BY <1>5 DEF stepper_set_step_interval
  <2>2. ns \in Nat /\ ns > 0
    BY <2>1
  <2> QED BY <1>5, <2>2 DEF stepper_set_step_interval, ForgetInterval
<1>6. CASE EmitStep \/ PositionUnread \/ UNCHANGED vars
  BY <1>6 DEF EmitStep, PositionUnread, vars
<1> QED BY <1>2, <1>3, <1>4, <1>5, <1>6 DEF Next

THEOREM Inductive == Spec => []IInv
<1>1. IInv /\ [Next]_vars => IInv'
  <2> SUFFICES ASSUME IInv, [Next]_vars PROVE IInv'
    OBVIOUS
  <2>1. FlagsOK'
    BY FlagsStep DEF IInv, TypeOK
  <2>2. NumbersOK'
    BY NumbersStep
  <2>3. TypeOK'
    BY <2>1, <2>2 DEF TypeOK, NumbersOK, MAX_ANGLE_MIN_DEG, MAX_ANGLE_MAX_DEG
  <2> QED BY <2>3, BeliefStep DEF IInv
<1> QED BY InitIInv, <1>1, PTL DEF Spec

-----------------------------------------------------------------------------
(* What the axis promises *)

\* Every variable keeps its type: the limit in force stays inside 1..360
\* degrees whatever a master writes to it.
THEOREM TypeCorrect == Spec => []TypeOK
  BY Inductive, PTL DEF IInv

\* What stepper.c believes it commanded is where the controller is heading,
\* whatever calls failed.
THEOREM BeliefIsTarget == Spec => []CommandedIsTarget
  BY Inductive, PTL DEF IInv

\* Only a new target restarts the timing source; it lies between 0 and the limit
\* in force, and the move latches the interval of the controller.
LEMMA OnlySetAngleMoves ==
  ASSUME IInv, [Next]_vars, restarts' # restarts \/ ctrl_target' # ctrl_target
  PROVE  \/ stepper_init
         \/ \E d \in Angles : /\ ~AlreadyThere(d)
                             /\ ctrl_target' = TargetSteps(d)
                             /\ move_interval' = ctrl_interval
                             /\ UNCHANGED max_angle_deg
                             /\ up
<1> USE DEF ctrlVars
<1>1. ASSUME NEW d \in Angles, stepper_set_angle(d)
      PROVE  /\ ~AlreadyThere(d) /\ ctrl_target' = TargetSteps(d)
             /\ move_interval' = ctrl_interval
             /\ UNCHANGED max_angle_deg
  BY <1>1 DEF stepper_set_angle, StartMove
<1>2. ASSUME NEW d \in Limits PROVE ~stepper_set_max_angle(d)
  BY DEF stepper_set_max_angle
<1>3. ASSUME NEW ns \in Intervals PROVE ~stepper_set_step_interval(ns)
  BY DEF stepper_set_step_interval
<1>4. ~EmitStep /\ ~PositionUnread /\ ~UNCHANGED vars
  BY DEF EmitStep, PositionUnread, vars
<1> QED BY <1>1, <1>2, <1>3, <1>4 DEF Next

\* The interval an axis reports is the one its controller holds for the next move,
\* and each move is stepped at the interval reported when it started; a download
\* during a move is for the next one.
THEOREM IntervalReported == Spec => []IntervalAgrees /\ MovesAtReported
<1>1. ASSUME IInv, [Next]_vars, restarts' # restarts
      PROVE  move_interval' = step_interval_ns /\ move_interval' > 0
  <2>1. ~stepper_init
    BY <1>1 DEF stepper_init
  <2> QED BY <1>1, <2>1, OnlySetAngleMoves DEF IInv, IntervalAgrees
<1> QED BY Inductive, <1>1, PTL DEF IInv, MovesAtReported, Spec

\* No move in flight is restarted towards the target it already has.
THEOREM NothingChopped == Spec => NoChoppedMove
<1>1. ASSUME IInv, [Next]_vars, restarts' # restarts
      PROVE  ctrl_target' # ctrl_target \/ ~commanded_valid
  <2>1. CASE stepper_init
    BY <1>1, <2>1 DEF stepper_init
  <2>2. CASE \E d \in Angles : /\ ~AlreadyThere(d)
                             /\ ctrl_target' = TargetSteps(d)
    BY <1>1, <2>2 DEF AlreadyThere, IInv, CommandedIsTarget
  <2> QED BY <1>1, <2>1, <2>2, OnlySetAngleMoves
<1> QED BY Inductive, <1>1, PTL DEF NoChoppedMove, Spec

\* The shaft is only ever sent inside the limit in force.
THEOREM InsideLimit == Spec => SentWithinLimit
<1>1. ASSUME IInv, [Next]_vars, ctrl_target' # ctrl_target
      PROVE  ctrl_target' <= angle_to_steps(max_angle_deg, STEPS_PER_REV)
  <2>1. CASE stepper_init
    <3>1. max_angle_deg \in Nat
      <4>1. NumbersOK
        BY <1>1, TypeParts DEF IInv
      <4> QED BY <4>1 DEF NumbersOK
    <3>2. angle_to_steps(max_angle_deg, STEPS_PER_REV) \in Nat
      BY <3>1, AngleToSteps, StepperAssumption DEF Rounds
    <3>3. ctrl_target' = 0
      BY <1>1, <2>1 DEF stepper_init
    <3> QED BY <3>2, <3>3
  <2>2. CASE \E d \in Angles : ctrl_target' = TargetSteps(d)
    <3>1. PICK d \in Nat : ctrl_target' = TargetSteps(d)
      BY <2>2, StepperAssumption
    <3> QED BY <1>1, <3>1, TargetInRange DEF IInv
  <2> QED BY <1>1, <2>1, <2>2, OnlySetAngleMoves
<1> QED BY Inductive, <1>1, PTL DEF SentWithinLimit, Spec

\* The report is the best whole degree there is for the shaft's step count, for
\* every motor and in every state the axis can reach.
THEOREM ReportedNearest == Spec => []ReportNearest
<1>1. IInv => ReportNearest
  <2> SUFFICES ASSUME IInv,
                      ctrl_pos <= angle_to_steps(max_angle_deg, STEPS_PER_REV)
               PROVE  LET off == ctrl_pos * 360 - actual_angle * STEPS_PER_REV
                          coarse == IF STEPS_PER_REV > 360
                                    THEN STEPS_PER_REV ELSE 360
                      IN  2 * off \in -coarse .. coarse
    BY DEF ReportNearest, STEP_MATH_DEGREES_PER_REV
  <2>1. NumbersOK
    BY TypeParts DEF IInv
  <2>2. /\ ctrl_pos \in Nat /\ max_angle_deg \in Nat
        /\ STEPS_PER_REV \in Nat \ {0}
    BY <2>1, StepperAssumption DEF NumbersOK
  <2>3. PICK off \in Int :
          /\ off = ctrl_pos * 360 - actual_angle * STEPS_PER_REV
          /\ \/ -STEPS_PER_REV <= 2 * off /\ 2 * off <= STEPS_PER_REV
             \/ 0 <= off /\ off <= 180
    BY <2>2, ReportClose DEF actual_angle
  <2> QED BY <2>2, <2>3
<1> QED BY Inductive, <1>1, PTL

-----------------------------------------------------------------------------
(* The node *)

\* Only an axis that is up was handed over.
HandedOver == apply_angle \in BOOLEAN /\ (apply_angle => up)

\* A step of the node keeps HandedOver, and is a step of the axis or leaves it
\* alone.
LEMMA NodeStep ==
  ASSUME HandedOver, FlagsOK, [SoesNext]_soesVars
  PROVE  HandedOver' /\ [Next]_vars
<1> USE DEF HandedOver, FlagsOK
<1>1. CASE soes_app_run
  <2>1. up' \in BOOLEAN
    BY <1>1, Zenon DEF soes_app_run, stepper_init
  <2> QED BY <1>1, <2>1, Zenon DEF soes_app_run, HandOver, Next
<1>2. ASSUME NEW d \in Angles, cb_set_outputs(d)
      PROVE  HandedOver' /\ [Next]_vars
  <2>1. CASE apply_angle /\ stepper_set_angle(d)
    <3>1. up' = up
      BY <2>1, Zenon DEF stepper_set_angle
    <3> QED BY <1>2, <2>1, <3>1, Zenon DEF cb_set_outputs, Next
  <2>2. CASE UNCHANGED vars
    BY <1>2, <2>2, Zenon DEF cb_set_outputs, vars
  <2> QED BY <1>2, <2>1, <2>2, Zenon DEF cb_set_outputs, Apply
<1>3. CASE cb_get_inputs
  <2>1. CASE PositionUnread
    BY <1>3, <2>1, Zenon DEF cb_get_inputs, PositionUnread, Next
  <2>2. CASE UNCHANGED vars
    BY <1>3, <2>2, Zenon DEF cb_get_inputs, vars
  <2> QED BY <1>3, <2>1, <2>2, Zenon DEF cb_get_inputs
<1>4. ASSUME NEW ns \in Intervals, DownloadInterval(ns)
      PROVE  HandedOver' /\ [Next]_vars
  <2>1. CASE stepper_set_step_interval(ns)
    BY <1>4, <2>1, Zenon
    DEF DownloadInterval, stepper_set_step_interval, Next
  <2>2. CASE UNCHANGED vars
    BY <1>4, <2>2, Zenon DEF DownloadInterval, vars
  <2> QED BY <1>4, <2>1, <2>2, Zenon DEF DownloadInterval
<1>5. ASSUME NEW d \in Limits, DownloadMaxAngle(d)
      PROVE  HandedOver' /\ [Next]_vars
  <2>1. CASE stepper_set_max_angle(d)
    BY <1>5, <2>1, Zenon DEF DownloadMaxAngle, stepper_set_max_angle, Next
  <2>2. CASE UNCHANGED vars
    BY <1>5, <2>2, Zenon DEF DownloadMaxAngle, vars
  <2> QED BY <1>5, <2>1, <2>2, Zenon DEF DownloadMaxAngle
<1>6. CASE Step
  BY <1>6, Zenon DEF Step, EmitStep, appVars, Next
<1>7. CASE UNCHANGED soesVars
  BY <1>7, Zenon DEF soesVars, appVars, vars
<1> QED BY <1>1, <1>2, <1>3, <1>4, <1>5, <1>6, <1>7, Zenon DEF SoesNext

\* The node uses the axis as its specification expects, and hands over only one
\* that is up.
LEMMA NodeIsAxis == SoesSpec => Spec /\ []HandedOver
<1>1. SoesInit => Init /\ HandedOver /\ FlagsOK
  BY Zenon DEF SoesInit, Init, HandedOver, FlagsOK
<1>2. HandedOver /\ FlagsOK /\ [SoesNext]_soesVars
        => HandedOver' /\ FlagsOK' /\ [Next]_vars
  BY NodeStep, FlagsStep
<1> QED BY <1>1, <1>2, PTL DEF SoesSpec, Spec

\* The SOES node implements the axis's specification.
THEOREM Implements == SoesSpec => AxisSpec
  BY NodeIsAxis, PTL DEF AxisSpec

\* So the axis's inductive invariant holds of the node.
LEMMA AxisInvariant == SoesSpec => []IInv
  BY NodeIsAxis, Inductive, PTL

\* What is proved of the axis alone holds of the axis in the node: no order of
\* outputs, downloads and callbacks makes it believe another target than the
\* controller's, chop a move, leave its limit or misreport its position.
COROLLARY AxisInNode ==
  SoesSpec => []CommandedIsTarget /\ NoChoppedMove /\ SentWithinLimit /\ []ReportNearest
BY Implements, BeliefIsTarget, NothingChopped, InsideLimit, ReportedNearest, PTL
   DEF AxisSpec

-----------------------------------------------------------------------------
(* Types *)

\* What may be published: anything but the sentinel.
Published == Nat \ {NO_ANGLE_APPLIED}

RunFlagsOK == running \in BOOLEAN /\ apply_angle \in BOOLEAN

RecordsOK ==
  /\ last_applied \in Angles \cup {NO_ANGLE_APPLIED}
  /\ Axis \in [step_interval_ns : Nat, max_angle : Nat]
  /\ Inputs \in [echo_angle : Published, actual_angle : Published]

LEMMA RunFlagsStep ==
  ASSUME FlagsOK', RunFlagsOK, [SoesNext]_soesVars PROVE RunFlagsOK'
<1> USE DEF RunFlagsOK, FlagsOK
<1>1. CASE soes_app_run
  BY <1>1, Zenon DEF soes_app_run, HandOver
<1>2. ASSUME NEW d \in Angles, cb_set_outputs(d) PROVE RunFlagsOK'
  BY <1>2, Zenon DEF cb_set_outputs
<1>3. CASE cb_get_inputs
  BY <1>3, Zenon DEF cb_get_inputs
<1>4. ASSUME NEW ns \in Intervals, DownloadInterval(ns) PROVE RunFlagsOK'
  BY <1>4, Zenon DEF DownloadInterval
<1>5. ASSUME NEW d \in Limits, DownloadMaxAngle(d) PROVE RunFlagsOK'
  BY <1>5, Zenon DEF DownloadMaxAngle
<1>6. CASE Step \/ UNCHANGED soesVars
  BY <1>6, Zenon DEF Step, appVars, soesVars
<1> QED BY <1>1, <1>2, <1>3, <1>4, <1>5, <1>6, Zenon DEF SoesNext

LEMMA RecordsStep ==
  ASSUME IInv, IInv', RecordsOK, [SoesNext]_soesVars PROVE RecordsOK'
<1>1. /\ step_interval_ns' \in Nat /\ max_angle_deg' \in Nat
      /\ max_angle_deg \in Nat /\ ctrl_pos \in Nat
  BY DEF IInv, TypeOK, MAX_ANGLE_MIN_DEG, MAX_ANGLE_MAX_DEG
<1>2. ReadAxis \in [step_interval_ns : Nat, max_angle : Nat]
  BY <1>1 DEF ReadAxis
<1>3. actual_angle \in Published
  <2>1. ctrl_pos \in Int /\ STEPS_PER_REV \in Nat
    BY <1>1, StepperAssumption
  <2>2. actual_angle \in 0 .. max_angle_deg
    BY <1>1, <2>1, AngleInRange, Zenon DEF actual_angle
  <2>3. max_angle_deg < NO_ANGLE_APPLIED /\ NO_ANGLE_APPLIED \in Nat
    BY SoesAssumption
    DEF IInv, TypeOK, MAX_ANGLE_MIN_DEG, MAX_ANGLE_MAX_DEG
  <2> QED BY <1>1, <2>2, <2>3 DEF Published
<1>4. Echo \in Published
  BY StepperAssumption, SoesAssumption
  DEF Echo, RecordsOK, Published, MAX_ANGLE_MAX_DEG
<1> USE DEF RecordsOK
<1>5. CASE soes_app_run
  BY <1>2, <1>5 DEF soes_app_run
<1>6. ASSUME NEW d \in Angles, cb_set_outputs(d) PROVE RecordsOK'
  BY <1>6 DEF cb_set_outputs
<1>7. CASE cb_get_inputs
  BY <1>3, <1>4, <1>7 DEF cb_get_inputs
<1>8. ASSUME NEW ns \in Intervals, DownloadInterval(ns) PROVE RecordsOK'
  BY <1>2, <1>8 DEF DownloadInterval, Refuse
<1>9. ASSUME NEW d \in Limits, DownloadMaxAngle(d) PROVE RecordsOK'
  BY <1>2, <1>9 DEF DownloadMaxAngle, Refuse
<1>10. CASE Step \/ UNCHANGED soesVars
  BY <1>10 DEF Step, appVars, soesVars
<1> QED BY <1>5, <1>6, <1>7, <1>8, <1>9, <1>10 DEF SoesNext

\* The dictionary and the published image hold numbers of the axis or targets of
\* the master, never the sentinel, before the axis is up and after it failed to come up too.
THEOREM NodeTypes == SoesSpec => []SoesTypeOK
<1>1. SoesInit => RunFlagsOK
  BY Zenon DEF SoesInit, RunFlagsOK
<1>2. SoesInit => RecordsOK
  BY SoesAssumption DEF SoesInit, RecordsOK, Published, MAX_ANGLE_MAX_DEG
<1>3. IInv /\ IInv' /\ RunFlagsOK /\ [SoesNext]_soesVars => RunFlagsOK'
  BY RunFlagsStep DEF IInv, TypeOK
<1>4. IInv /\ IInv' /\ RecordsOK /\ [SoesNext]_soesVars => RecordsOK'
  BY RecordsStep
<1>5. RunFlagsOK /\ RecordsOK => SoesTypeOK
  BY Zenon DEF RunFlagsOK, RecordsOK, SoesTypeOK, Published
<1> QED BY <1>1, <1>2, <1>3, <1>4, <1>5, AxisInvariant, PTL DEF SoesSpec

-----------------------------------------------------------------------------
(* The dictionary *)

\* A step keeps the two entries equal to the axis's values.
DictionaryCopies ==
  running => /\ Axis.max_angle = max_angle_deg
             /\ Axis.step_interval_ns = step_interval_ns

LEMMA DictionaryStep ==
  ASSUME DictionaryCopies, [SoesNext]_soesVars PROVE DictionaryCopies'
<1> USE DEF DictionaryCopies, ReadAxis, axisVars, ctrlVars
<1>1. CASE soes_app_run
  BY <1>1 DEF soes_app_run
<1>2. ASSUME NEW d \in Angles, cb_set_outputs(d) PROVE DictionaryCopies'
  BY <1>2 DEF cb_set_outputs, Apply, stepper_set_angle, vars
<1>3. CASE cb_get_inputs
  BY <1>3 DEF cb_get_inputs, PositionUnread, vars
<1>4. ASSUME NEW ns \in Intervals, DownloadInterval(ns)
      PROVE  DictionaryCopies'
  BY <1>4 DEF DownloadInterval, stepper_set_step_interval, CallOk, CallFails,
              ForgetInterval, Refuse, vars
<1>5. ASSUME NEW d \in Limits, DownloadMaxAngle(d) PROVE DictionaryCopies'
  BY <1>5 DEF DownloadMaxAngle, stepper_set_max_angle, Refuse, vars
<1>6. CASE Step \/ UNCHANGED soesVars
  BY <1>6 DEF Step, EmitStep, appVars, soesVars, vars
<1> QED BY <1>1, <1>2, <1>3, <1>4, <1>5, <1>6 DEF SoesNext

\* Only delivered outputs start a move.
LEMMA OnlyOutputsMove ==
  ASSUME [SoesNext]_soesVars, restarts' # restarts
  PROVE  running /\ apply_angle /\ move_interval' = ctrl_interval
<1> USE DEF axisVars, ctrlVars
<1>1. ASSUME NEW d \in Angles, cb_set_outputs(d)
      PROVE  running /\ apply_angle /\ move_interval' = ctrl_interval
  BY <1>1 DEF cb_set_outputs, Apply, stepper_set_angle, StartMove, vars
<1>2. ~soes_app_run /\ ~cb_get_inputs
  BY DEF soes_app_run, stepper_init, cb_get_inputs, PositionUnread, vars
<1>3. ASSUME NEW ns \in Intervals PROVE ~DownloadInterval(ns)
  BY DEF DownloadInterval, stepper_set_step_interval, vars
<1>4. ASSUME NEW d \in Limits PROVE ~DownloadMaxAngle(d)
  BY DEF DownloadMaxAngle, stepper_set_max_angle, vars
<1>5. ~Step /\ ~UNCHANGED soesVars
  BY DEF Step, EmitStep, soesVars, vars
<1> QED BY <1>1, <1>2, <1>3, <1>4, <1>5 DEF SoesNext

\* What a master reads back from 0x8000 is what the axis uses, and its controller
\* for the next move, whatever downloads were refused and whatever calls failed;
\* and each move is stepped at the interval 0x8000:01 held when it started.
THEOREM DictionaryIsTrue == SoesSpec => DictionaryTrue
<1>1. SoesInit => DictionaryCopies
  BY DEF SoesInit, DictionaryCopies
<1>2. DictionaryCopies /\ IInv /\ HandedOver => DictionaryAgrees
  BY DEF DictionaryCopies, IInv, IntervalAgrees, HandedOver, DictionaryAgrees
<1>3. ASSUME DictionaryAgrees, [SoesNext]_soesVars,
             restarts' # restarts
      PROVE  move_interval' = Axis.step_interval_ns
  BY <1>3, OnlyOutputsMove DEF DictionaryAgrees
<1>4. DictionaryCopies /\ [SoesNext]_soesVars => DictionaryCopies'
  BY DictionaryStep
<1> QED BY <1>1, <1>2, <1>3, <1>4, NodeIsAxis, AxisInvariant, PTL
        DEF DictionaryTrue, SoesSpec

-----------------------------------------------------------------------------
(* The delivery gate *)

LEMMA EchoStep ==
  ASSUME EchoWasSent, IInv, [SoesNext]_soesVars PROVE EchoWasSent'
<1>1. faults \in Nat
  BY TypeParts, StepperAssumption DEF IInv, NumbersOK
<1> USE <1>1 DEF EchoWasSent, CallOk, CallFails, axisVars, ctrlVars
<1>2. CASE soes_app_run
  BY <1>2 DEF soes_app_run
<1>3. ASSUME NEW d \in Angles, cb_set_outputs(d) PROVE EchoWasSent'
  BY <1>3 DEF cb_set_outputs, Apply, stepper_set_angle, AlreadyThere, vars
<1>4. CASE cb_get_inputs
  BY <1>4 DEF cb_get_inputs, PositionUnread, vars
<1>5. ASSUME NEW ns \in Intervals, DownloadInterval(ns) PROVE EchoWasSent'
  BY <1>5 DEF DownloadInterval, stepper_set_step_interval, vars
<1>6. ASSUME NEW d \in Limits, DownloadMaxAngle(d) PROVE EchoWasSent'
  BY <1>6 DEF DownloadMaxAngle, stepper_set_max_angle, vars
<1>7. CASE Step \/ UNCHANGED soesVars
  BY <1>7 DEF Step, EmitStep, appVars, soesVars, vars
<1> QED BY <1>2, <1>3, <1>4, <1>5, <1>6, <1>7 DEF SoesNext

\* Without a failing call, the target a node with an axis echoes was taken by
\* the axis: no gate drops it.
THEOREM EchoIsSent == SoesSpec => []EchoWasSent
<1>1. SoesInit => EchoWasSent
  BY DEF SoesInit, EchoWasSent
<1> QED BY <1>1, EchoStep, AxisInvariant, PTL DEF SoesSpec
=============================================================================
