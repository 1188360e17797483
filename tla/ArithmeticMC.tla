---------------------------- MODULE ArithmeticMC ----------------------------
(***************************************************************************)
(* The arithmetic of both programs against its definition.  A counter x    *)
(* runs over the inputs of the pure functions: a whole angle, a step       *)
(* count, a cycle of the sweep, a correction of the deadline, a value of   *)
(* an object.  The clock loop of DcLoop runs by itself, from every phase.  *)
(***************************************************************************)
EXTENDS StepMath, MasterMath, DcLoop

CONSTANTS
  Sprs,      \* steps per revolution of motors the axis may have
  Limits,    \* angle limits
  Periods,   \* periods of the sweep, ms
  Nanos,     \* values of tv_nsec
  Last       \* bound of x

ASSUME RangesAssumption ==
  /\ Sprs \subseteq Nat \ {0} /\ Limits \subseteq Nat
  /\ Periods \subseteq Nat /\ Nanos \subseteq Nat /\ Last \in Nat

VARIABLE x

First == -2
Second == 1000000000

\* One behaviour counts, with the clock loop off; the others run the clock loop.
Init == /\ DcInit
        /\ x \in {First, Last}
        /\ x = First => bus = Lead /\ drift = 0 /\ gap = 0

Count == x < Last /\ x' = x + 1 /\ UNCHANGED dcVars
Clock == x = Last /\ DcCycle /\ UNCHANGED x

Spec == Init /\ [][Count \/ Clock]_<<x, dcVars>> /\ WF_<<x, dcVars>>(Clock)

-----------------------------------------------------------------------------
Abs(i) == IF i < 0 THEN -i ELSE i

\* angle_to_steps gives the whole step nearest to the angle: no other step
\* count is closer.
Nearest ==
  x \in 0 .. 360 => \A spr \in Sprs :
    LET error(s) == Abs(s * 360 - x * spr)
        s0 == angle_to_steps(x, spr)
    IN  error(s0) <= error(s0 - 1) /\ error(s0) <= error(s0 + 1)

\* Nothing is lost on the way to steps and back where a step is no coarser than
\* a degree; elsewhere no more than the step the axis cannot stop between.
RoundTrip ==
  x \in 0 .. 360 => \A spr \in Sprs :
    LET back == steps_to_angle(angle_to_steps(x, spr), spr, 360)
    IN  /\ spr >= 360 => back = x
        /\ Abs(back - x) * spr <= 360

\* The angle reported never leaves 0..limit, and inside it is the whole degree
\* nearest to the step count, also below the reference position.
ReportInRange ==
  \A spr \in Sprs, limit \in Limits :
    LET a == steps_to_angle(x, spr, limit)
    IN  /\ a \in 0 .. limit
        /\ (x >= 0 /\ a < limit) => 2 * Abs(x * 360 - a * spr) <= spr

\* From one 10 ms cycle to the next the sweep moves no further than its speed,
\* two ranges a period, also over its turning points and from one period to the
\* next, for periods that are no multiple of a cycle and shorter than one.
SweepSmooth ==
  x >= 0 => \A p \in Periods :
    LET a == angle_sweep_position(10 * x, p)
        b == angle_sweep_position(10 * x + 10, p)
    IN  /\ a \in ANGLE_MIN .. ANGLE_MAX
        /\ Abs(a - b) * p <= 2 * ANGLE_MAX * 10 + p

\* The slave's pulse is the master's to the nanosecond (comment at servo.c:48),
\* above the limit too.
PulseAgrees ==
  x \in 0 .. 1000 =>
    LET above == angle_to_pulse(x) - 180 * ServoPulse(x, 500000, 2500000)
    IN  0 <= above /\ above < 180

\* A deadline is valid and exactly one corrected cycle after the last one,
\* whichever way the correction carries it over the second.
DeadlineRight ==
  \A nsec \in Nanos :
    LET sum == nsec + Cycle + (x - 1600) * 20000
        t == Deadline(0, sum, Second)
    IN  /\ 0 <= t[2] /\ t[2] < Second
        /\ t[1] * Second + t[2] = sum

\* An SDO value that fits the width of its object reads back as it was written;
\* one that does not is cut, never refused by the master (ecat.c:1020).
BytesRoundTrip ==
  \A size \in 1 .. 3 :
    LET v == 25 * x
        back == Value(Bytes(v, size), size)
    IN  (back = v) <=> (v \in 0 .. 256 ^ size - 1)

\* The arithmetic of step_math.h is right: each of the three above.
AxisConversions == Nearest /\ RoundTrip /\ ReportInRange

\* The pure functions of the master, and the servo's on the other side, are
\* right: each of the four above.
MasterFunctions == SweepSmooth /\ PulseAgrees /\ DeadlineRight /\ BytesRoundTrip
=============================================================================
