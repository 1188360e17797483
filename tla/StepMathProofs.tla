--------------------------- MODULE StepMathProofs ---------------------------
(***************************************************************************)
(* Integer division, and what the two conversions of step_math.h return,   *)
(* for every angle, step count and number of steps per revolution.         *)
(***************************************************************************)
EXTENDS StepMath, TLAPS

-----------------------------------------------------------------------------
(* Integer division *)

LEMMA DivNat ==
  ASSUME NEW a \in Nat, NEW b \in Nat \ {0}
  PROVE  /\ a \div b \in Nat
         /\ (a \div b) * b <= a
         /\ a < (a \div b) * b + b
  OBVIOUS

LEMMA MulMono ==
  ASSUME NEW a \in Nat, NEW b \in Nat, NEW c \in Nat, a <= b
  PROVE  a * c \in Nat /\ b * c \in Nat /\ a * c <= b * c
  OBVIOUS

\* A quotient is determined by the interval its dividend lies in.
LEMMA DivUnique ==
  ASSUME NEW a \in Nat, NEW b \in Nat \ {0}, NEW q \in Nat,
         q * b <= a, a < q * b + b
  PROVE  a \div b = q
  OBVIOUS

-----------------------------------------------------------------------------
(* The conversions *)

\* s is p / 360 rounded to the nearest whole number, halves upwards.
Rounds(s, p) == s \in Nat /\ 360 * s <= p + 180 /\ p + 180 < 360 * s + 360

\* angle_to_steps rounds to the nearest step.
LEMMA AngleToSteps ==
  ASSUME NEW d \in Nat, NEW spr \in Nat
  PROVE  Rounds(angle_to_steps(d, spr), d * spr)
<1>1. PICK p \in Nat : p = d * spr
  OBVIOUS
<1> QED BY <1>1 DEF Rounds, angle_to_steps, STEP_MATH_DEGREES_PER_REV

LEMMA RoundsMonotonic ==
  ASSUME NEW p \in Nat, NEW q \in Nat, p <= q, NEW s, NEW t, Rounds(s, p),
         Rounds(t, q)
  PROVE  s <= t
  BY DEF Rounds

\* A larger angle is never fewer steps.
LEMMA StepsMonotonic ==
  ASSUME NEW d \in Nat, NEW e \in Nat, NEW spr \in Nat, d <= e
  PROVE  angle_to_steps(d, spr) <= angle_to_steps(e, spr)
<1>1. d * spr \in Nat /\ e * spr \in Nat /\ d * spr <= e * spr
  BY MulMono
<1>2. Rounds(angle_to_steps(d, spr), d * spr)
  BY AngleToSteps
<1>3. Rounds(angle_to_steps(e, spr), e * spr)
  BY AngleToSteps
<1> QED BY <1>1, <1>2, <1>3, RoundsMonotonic

\* The angle reported never leaves 0 .. max_angle.
LEMMA AngleInRange ==
  ASSUME NEW s \in Int, NEW spr \in Nat, NEW m \in Nat
  PROVE  steps_to_angle(s, spr, m) \in 0 .. m
<1>1. CASE s <= 0 \/ spr = 0
  BY <1>1 DEF steps_to_angle
<1>2. CASE s > 0 /\ spr # 0
  <2>1. PICK a \in Nat : a = s * 360 + spr \div 2
    BY <1>2
  <2>2. a \div spr \in Nat
    BY <1>2, DivNat
  <2> QED BY <1>2, <2>1, <2>2 DEF steps_to_angle, STEP_MATH_DEGREES_PER_REV
<1> QED BY <1>1, <1>2

\* Where a step is no coarser than a degree, an angle inside the limit survives
\* the trip to steps and back unchanged: the arrival test of the master's move
\* command (actual = target) can succeed for every target.
THEOREM RoundTripExact ==
  \A spr \in Nat, m \in Nat, d \in Nat :
    spr >= 360 /\ d <= m
      => steps_to_angle(angle_to_steps(d, spr), spr, m) = d
<1> SUFFICES ASSUME NEW spr \in Nat, NEW m \in Nat, NEW d \in Nat,
                    spr >= 360, d <= m
             PROVE  steps_to_angle(angle_to_steps(d, spr), spr, m) = d
  OBVIOUS
<1>1. PICK s \in Nat : s = angle_to_steps(d, spr)
  BY AngleToSteps DEF Rounds
<1>2. PICK p \in Nat : p = d * spr
  OBVIOUS
<1>3. 360 * s <= p + 180 /\ p + 180 < 360 * s + 360
  BY <1>1, <1>2, AngleToSteps DEF Rounds
<1>4. PICK h \in Nat : h = spr \div 2 /\ 2 * h <= spr /\ spr <= 2 * h + 1
  OBVIOUS
<1>5. CASE d = 0
  <2>1. s = 0
    BY <1>2, <1>3, <1>5
  <2> QED BY <1>1, <1>5, <2>1 DEF steps_to_angle
<1>6. CASE d # 0
  <2>1. p >= spr
    BY <1>2, <1>6, MulMono
  <2>2. s > 0
    BY <1>3, <2>1
  <2>3. p <= s * 360 + h
    BY <1>3, <1>4
  <2>4. s * 360 + h < p + spr
    <3>1. CASE spr > 360
      BY <1>3, <1>4, <3>1
    <3>2. CASE spr = 360
      \* Then d degrees are exactly d steps.
      BY <1>2, <1>3, <1>4, <3>2
    <3> QED BY <3>1, <3>2
  <2>5. (s * 360 + h) \div spr = d
    BY <1>2, <2>3, <2>4, DivUnique
  <2> QED BY <1>1, <1>4, <2>2, <2>5
          DEF steps_to_angle, STEP_MATH_DEGREES_PER_REV
<1> QED BY <1>5, <1>6

\* The angle reported for a shaft inside the limit is off by at most half a
\* step, or half a degree where the limit cuts it short.
LEMMA ReportClose ==
  ASSUME NEW pos \in Nat, NEW spr \in Nat \ {0}, NEW m \in Nat,
         pos <= angle_to_steps(m, spr)
  PROVE  \E off \in Int :
           /\ off = pos * 360 - steps_to_angle(pos, spr, m) * spr
           /\ \/ -spr <= 2 * off /\ 2 * off <= spr
              \/ 0 <= off /\ off <= 180
<1> DEFINE a == steps_to_angle(pos, spr, m)
<1>1. CASE pos = 0
  <2>1. a = 0
    BY <1>1 DEF steps_to_angle
  <2>2. pos * 360 - a * spr = 0
    BY <1>1, <2>1
  <2> QED BY <2>2
<1>2. CASE pos # 0
  <2>1. PICK h \in Nat : h = spr \div 2 /\ 2 * h <= spr /\ spr <= 2 * h + 1
    OBVIOUS
  <2>2. PICK n \in Nat : n = pos * 360 + h
    OBVIOUS
  <2>3. PICK q \in Nat : q = n \div spr /\ q * spr <= n /\ n < q * spr + spr
    BY DivNat
  <2>4. a = IF q > m THEN m ELSE q
    BY <1>2, <2>1, <2>2, <2>3 DEF steps_to_angle, STEP_MATH_DEGREES_PER_REV
  <2>5. PICK x \in Nat : x = q * spr /\ x <= n /\ n < x + spr
    BY <2>3
  <2>6. CASE q <= m
    <3>1. pos * 360 - a * spr = pos * 360 - x
      BY <2>4, <2>5, <2>6
    <3>2. -spr <= 2 * (pos * 360 - x) /\ 2 * (pos * 360 - x) <= spr
      BY <2>1, <2>2, <2>5
    <3> QED BY <3>1, <3>2
  <2>7. CASE q > m
    <3>1. PICK y \in Nat : y = m * spr
      OBVIOUS
    <3>2. y + spr <= x
      <4>1. (m + 1) * spr <= q * spr
        BY <2>7, MulMono
      <4> QED BY <2>5, <3>1, <4>1
    <3>3. 360 * pos <= y + 180
      <4>1. Rounds(angle_to_steps(m, spr), y)
        BY <3>1, AngleToSteps
      <4> QED BY <4>1 DEF Rounds
    <3>4. pos * 360 - a * spr = pos * 360 - y
      BY <2>4, <2>7, <3>1
    <3>5. 0 <= pos * 360 - y /\ pos * 360 - y <= 180
      BY <2>1, <2>2, <2>5, <3>2, <3>3
    <3> QED BY <3>4, <3>5
  <2> QED BY <2>6, <2>7
<1> QED BY <1>1, <1>2

=============================================================================
