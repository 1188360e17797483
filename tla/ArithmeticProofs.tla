-------------------------- MODULE ArithmeticProofs --------------------------
(***************************************************************************)
(* The arithmetic of both programs is right for every angle, step count,   *)
(* motor, limit, period and correction, and the clock loop's phase error   *)
(* is the short way round: the fold of ecat_dc_correction needs no lower   *)
(* side.  Loops are recursive functions: each is shown to exist by its     *)
(* closed form, and what it returns follows by the least counterexample.   *)
(***************************************************************************)
EXTENDS ArithmeticMC, StepMathProofs, WellFoundedInduction

-----------------------------------------------------------------------------
(* The clock loop *)

LEMMA DivIsInt == \A a \in Int, b \in Nat \ {0} : CDiv(a, b) \in Int
  BY DEF CDiv

\* The fold, below the lead and above it.
LEMMA FoldShort ==
  ASSUME NEW t \in Nat
  PROVE  /\ Fold(t) \in Int
         /\ -Cycle <= 2 * Fold(t) /\ 2 * Fold(t) <= Cycle
<1> DEFINE half == Cycle \div 2
<1>1. /\ Cycle \in Nat \ {0} /\ Lead \in Nat /\ 2 * Lead <= Cycle
      /\ half \in Nat /\ 2 * half <= Cycle /\ Cycle <= 2 * half + 1
  BY DcAssumption
<1>2. CDiv(Cycle, 2) = half
  BY <1>1 DEF CDiv
<1> DEFINE r == CMod(t - Lead, Cycle)
<1>3. CASE t >= Lead
  <2>1. r \in 0 .. Cycle - 1
    BY <1>1, <1>3 DEF CMod
  <2> HIDE DEF r, half
  <2> QED BY <1>1, <1>2, <2>1 DEF Fold, r
<1>4. CASE t < Lead
  <2>1. -(t - Lead) \in 0 .. Cycle - 1
    BY <1>1, <1>4
  <2>2. r = t - Lead
    BY <1>1, <1>4, <2>1 DEF CMod
  <2> HIDE DEF r, half
  <2> QED BY <1>1, <1>2, <1>4, <2>2 DEF Fold, r
<1> QED BY <1>1, <1>3, <1>4

\* Every phase error the master's cycle loop acts on is at most half a cycle,
\* whatever the drift, the losses and the phase it started in.
THEOREM ShortWayRound == DcSpec => []DcTypeOK
<1>1. DcInit => DcTypeOK
  BY DcAssumption DEF DcInit, DcTypeOK
<1>2. DcTypeOK /\ [DcCycle]_dcVars => DcTypeOK'
  <2> SUFFICES ASSUME DcTypeOK, [DcCycle]_dcVars PROVE DcTypeOK'
    OBVIOUS
  <2>1. CASE UNCHANGED dcVars
    BY <2>1 DEF dcVars, DcTypeOK
  <2>2. CASE DcCycle
    <3> DEFINE reading == IF gap > 0 THEN ec_DCtime ELSE bus
               delta == Fold(reading)
               sum == Integral(delta)
               fix == Correction(delta, sum)
    <3>1. reading \in Nat
      BY DEF DcTypeOK
    <3>2. delta \in Int /\ -Cycle <= 2 * delta /\ 2 * delta <= Cycle
      BY <3>1, FoldShort
    <3>3. sum \in Int
      BY <3>2 DEF Integral, DcTypeOK
    <3>4. fix \in Int
      <4>1. CDiv(delta, 100) \in Int /\ CDiv(sum, 20) \in Int
        BY <3>2, <3>3, DivIsInt
      <4> QED BY <4>1 DEF Correction
    <3>5. /\ ec_DCtime' = reading /\ dc_delta_ns' = delta /\ integral' = sum
          /\ bus' = Cycle + ((bus + drift + fix) % Cycle)
          /\ gap' = (IF gap > 0 THEN gap - 1 ELSE 0) /\ drift' = drift
      BY <2>2, Zenon DEF DcCycle
    <3> HIDE DEF reading, delta, sum, fix
    <3>6. bus' \in Nat
      <4>1. Cycle \in Nat \ {0} /\ bus + drift + fix \in Int
        BY <3>4, DcAssumption DEF DcTypeOK
      <4>2. (bus + drift + fix) % Cycle \in 0 .. Cycle - 1
        BY <4>1
      <4> QED BY <3>5, <4>1, <4>2
    <3> QED BY <3>1, <3>2, <3>3, <3>5, <3>6 DEF DcTypeOK
  <2> QED BY <2>1, <2>2
<1> QED BY <1>1, <1>2, PTL DEF DcSpec

-----------------------------------------------------------------------------
(* The conversions of the axis *)

LEMMA AbsInt ==
  ASSUME NEW i \in Int
  PROVE  /\ Abs(i) \in Nat /\ Abs(i) >= i /\ Abs(i) >= -i
         /\ Abs(i) = i \/ Abs(i) = -i
  BY DEF Abs

LEMMA NearestHolds == ASSUME x \in Int PROVE Nearest
<1> SUFFICES ASSUME x \in 0 .. 360, NEW spr \in Sprs
             PROVE  LET error(s) == Abs(s * 360 - x * spr)
                        s0 == angle_to_steps(x, spr)
                    IN  error(s0) <= error(s0 - 1) /\ error(s0) <= error(s0 + 1)
  BY DEF Nearest
<1>1. x \in Nat /\ spr \in Nat
  BY RangesAssumption
<1>2. PICK p \in Nat : p = x * spr
  BY <1>1
<1>3. PICK s0 \in Nat : /\ s0 = angle_to_steps(x, spr)
                       /\ 360 * s0 <= p + 180 /\ p + 180 < 360 * s0 + 360
  <2>1. Rounds(angle_to_steps(x, spr), p)
    BY <1>1, <1>2, AngleToSteps
  <2> QED BY <2>1 DEF Rounds
<1>4. /\ Abs(s0 * 360 - p) <= Abs((s0 - 1) * 360 - p)
      /\ Abs(s0 * 360 - p) <= Abs((s0 + 1) * 360 - p)
  BY <1>3 DEF Abs
<1> QED BY <1>2, <1>3, <1>4

LEMMA RoundTripHolds == ASSUME x \in Int PROVE RoundTrip
<1> SUFFICES ASSUME x \in 0 .. 360, NEW spr \in Sprs
             PROVE  LET back == steps_to_angle(angle_to_steps(x, spr), spr, 360)
                    IN  /\ spr >= 360 => back = x
                        /\ Abs(back - x) * spr <= 360
  BY DEF RoundTrip
<1> DEFINE s == angle_to_steps(x, spr)
           back == steps_to_angle(s, spr, 360)
<1>1. x \in Nat /\ x <= 360 /\ spr \in Nat \ {0} /\ 360 \in Nat
  BY RangesAssumption
<1>2. spr >= 360 => back = x
  BY <1>1, RoundTripExact
<1>3. s \in Nat /\ 360 * s <= x * spr + 180 /\ x * spr + 180 < 360 * s + 360
  BY <1>1, AngleToSteps DEF Rounds
<1>4. back \in Nat
  <2>1. \A i \in Int : steps_to_angle(i, spr, 360) \in 0 .. 360
    BY <1>1, AngleInRange
  <2>2. s \in Int
    BY <1>3
  <2> QED BY <2>1, <2>2
<1>5. CASE spr >= 360
  BY <1>1, <1>2, <1>5 DEF Abs
<1>6. CASE spr < 360
  <2>1. s <= angle_to_steps(360, spr)
    BY <1>1, StepsMonotonic
  <2>2. PICK off \in Int : /\ off = s * 360 - back * spr
                          /\ \/ -spr <= 2 * off /\ 2 * off <= spr
                             \/ 0 <= off /\ off <= 180
    BY <1>1, <1>3, <2>1, ReportClose
  <2>3. PICK p \in Nat, b \in Nat : p = x * spr /\ b = back * spr
    BY <1>1, <1>4
  <2>4. -360 <= b - p /\ b - p <= 360
    BY <1>1, <1>3, <1>6, <2>2, <2>3
  <2>5. Abs(back - x) * spr = b - p \/ Abs(back - x) * spr = p - b
    BY <1>1, <1>4, <2>3 DEF Abs
  <2> QED BY <1>6, <1>1, <2>3, <2>4, <2>5
<1> QED BY <1>1, <1>2, <1>5, <1>6

LEMMA ReportHolds == ASSUME x \in Int PROVE ReportInRange
<1> SUFFICES ASSUME NEW spr \in Sprs, NEW limit \in Limits
             PROVE  LET a == steps_to_angle(x, spr, limit)
                    IN  /\ a \in 0 .. limit
                        /\ (x >= 0 /\ a < limit)
                             => 2 * Abs(x * 360 - a * spr) <= spr
  BY DEF ReportInRange
<1> DEFINE a == steps_to_angle(x, spr, limit)
<1>1. spr \in Nat \ {0} /\ limit \in Nat
  BY RangesAssumption
<1>2. a \in 0 .. limit
  BY <1>1, AngleInRange
<1>3. ASSUME x >= 0, a < limit PROVE 2 * Abs(x * 360 - a * spr) <= spr
  <2>1. CASE x = 0
    <3>1. a = 0
      BY <2>1 DEF steps_to_angle
    <3> QED BY <1>1, <2>1, <3>1 DEF Abs
  <2>2. CASE x > 0
    <3>1. PICK h \in Nat : h = spr \div 2 /\ 2 * h <= spr /\ spr <= 2 * h + 1
      BY <1>1
    <3>2. PICK n \in Nat : n = x * 360 + h
      BY <2>2
    <3>3. PICK q \in Nat : q = n \div spr /\ q * spr <= n /\ n < q * spr + spr
      BY <1>1, DivNat
    <3>4. a = q
      BY <1>1, <1>3, <2>2, <3>1, <3>2, <3>3
      DEF steps_to_angle, STEP_MATH_DEGREES_PER_REV
    <3>5. PICK y \in Nat : y = q * spr
      BY <1>1, <3>3
    <3> HIDE DEF a
    <3>6. 2 * Abs(x * 360 - y) <= spr
      BY <1>1, <3>1, <3>2, <3>3, <3>5 DEF Abs
    <3> QED BY <3>4, <3>5, <3>6
  <2> QED BY <1>3, <2>1, <2>2
<1> HIDE DEF a
<1> QED BY <1>2, <1>3 DEF a

-----------------------------------------------------------------------------
(* The sweep and the pulse *)

\* The triangle under angle_sweep_position: twice the distance to the nearest
\* end of the period.
Triangle(r, p) == IF 2 * r < p THEN 2 * r ELSE 2 * (p - r)

\* The position is the triangle in degrees, to the nearest.
PositionNear(t, p) ==
  LET a == angle_sweep_position(t, p)
      u == Triangle(t % p, p)
  IN  /\ a \in 0 .. 180 /\ u \in 0 .. p
      /\ -p <= 2 * (a * p) - 360 * u /\ 2 * (a * p) - 360 * u <= p

LEMMA PositionClose ==
  ASSUME NEW t \in Nat, NEW p \in Nat \ {0}
  PROVE  PositionNear(t, p)
<1> DEFINE a == angle_sweep_position(t, p)
<1>1. PICK u \in Nat : u = Triangle(t % p, p) /\ u <= p
  <2>1. t % p \in 0 .. p - 1
    OBVIOUS
  <2> QED BY <2>1 DEF Triangle
<1>2. PICK n \in Nat : n = 2 * (u * 180) + p
  OBVIOUS
<1>3. 2 * p \in Nat \ {0}
  OBVIOUS
<1>4. PICK q \in Nat :
        q = n \div (2 * p) /\ q * (2 * p) <= n /\ n < q * (2 * p) + 2 * p
  BY <1>3, DivNat
<1>5. PICK y \in Nat : y = q * p /\ 2 * y <= n /\ n < 2 * y + 2 * p
  BY <1>4
<1>6. q <= 180
  <2> SUFFICES ASSUME q >= 181 PROVE FALSE
    BY <1>4
  <2>1. 181 * p <= q * p
    BY <1>4, MulMono
  <2> QED BY <1>1, <1>2, <1>5, <2>1
<1>7. a = q
  <2>1. a = angle_clamp(Rounded(u * 180, p))
    BY <1>1 DEF angle_sweep_position, Triangle, ANGLE_MAX
  <2>2. Rounded(u * 180, p) = q
    BY <1>2, <1>4 DEF Rounded
  <2> QED BY <1>4, <1>6, <2>1, <2>2 DEF angle_clamp, ANGLE_MIN, ANGLE_MAX
<1> HIDE DEF a
<1>8. a \in 0 .. 180 /\ a * p = y
  BY <1>4, <1>5, <1>6, <1>7
<1> QED BY <1>1, <1>2, <1>5, <1>8 DEF a, PositionNear

\* In ten milliseconds the triangle moves by at most twenty.
LEMMA TriangleSteps ==
  ASSUME NEW t \in Nat, NEW p \in Nat \ {0}
  PROVE  LET u == Triangle(t % p, p)
             v == Triangle((t + 10) % p, p)
         IN  u - v <= 20 /\ v - u <= 20
<1>1. PICK r \in Nat : r = t % p /\ r < p
  OBVIOUS
<1>2. PICK s \in Nat : s = (t + 10) % p /\ s < p
  OBVIOUS
<1>3. CASE p <= 10
  BY <1>1, <1>2, <1>3 DEF Triangle
<1>4. CASE p > 10
  <2>1. PICK q \in Nat : t = q * p + r
    <3>1. t \div p \in Nat /\ t = (t \div p) * p + (t % p)
      OBVIOUS
    <3> QED BY <1>1, <3>1
  <2>2. PICK m \in Nat : t + 10 = m * p + s
    <3>1. (t + 10) \div p \in Nat
      OBVIOUS
    <3>2. t + 10 = ((t + 10) \div p) * p + ((t + 10) % p)
      OBVIOUS
    <3> QED BY <1>2, <3>1, <3>2
  <2>3. PICK y \in Nat, z \in Nat : y = q * p /\ z = m * p
    OBVIOUS
  <2>4. m >= q
    <3> SUFFICES ASSUME m + 1 <= q PROVE FALSE
      OBVIOUS
    <3>1. (m + 1) * p <= q * p
      BY MulMono
    <3>2. (m + 1) * p = z + p
      BY <2>3
    <3> QED BY <1>1, <1>2, <2>1, <2>2, <2>3, <3>1, <3>2
  <2>5. m <= q + 1
    <3> SUFFICES ASSUME q + 2 <= m PROVE FALSE
      BY <2>4
    <3>1. (q + 2) * p <= m * p
      BY MulMono
    <3>2. (q + 2) * p = y + 2 * p
      BY <2>3
    <3> QED BY <1>1, <1>2, <1>4, <2>1, <2>2, <2>3, <3>1, <3>2
  <2>6. z = y \/ z = y + p
    <3>1. m = q \/ m = q + 1
      BY <2>4, <2>5
    <3> QED BY <2>3, <3>1
  <2>7. s = r + 10 \/ s = r + 10 - p
    BY <2>1, <2>2, <2>3, <2>6
  <2> QED BY <1>1, <1>2, <1>4, <2>7 DEF Triangle
<1> QED BY <1>3, <1>4

LEMMA SweepHolds == ASSUME x \in Int PROVE SweepSmooth
<1> SUFFICES ASSUME x >= 0, NEW p \in Periods
             PROVE  LET a == angle_sweep_position(10 * x, p)
                        b == angle_sweep_position(10 * x + 10, p)
                    IN  /\ a \in ANGLE_MIN .. ANGLE_MAX
                        /\ Abs(a - b) * p <= 2 * ANGLE_MAX * 10 + p
  BY DEF SweepSmooth
<1> USE DEF ANGLE_MIN, ANGLE_MAX
<1> DEFINE a == angle_sweep_position(10 * x, p)
           b == angle_sweep_position(10 * x + 10, p)
<1>1. p \in Nat /\ 10 * x \in Nat /\ 10 * x + 10 \in Nat
  BY RangesAssumption
<1>2. CASE p = 0
  BY <1>1, <1>2 DEF angle_sweep_position, Abs
<1>3. CASE p # 0
  <2>0. \A t \in Nat : PositionNear(t, p)
    BY <1>1, <1>3, PositionClose DEF PositionNear
  <2>1. PICK u \in Int, y \in Int :
          /\ u = Triangle((10 * x) % p, p) /\ a \in 0 .. 180 /\ y = a * p
          /\ -p <= 2 * y - 360 * u /\ 2 * y - 360 * u <= p
    <3> DEFINE w == Triangle((10 * x) % p, p)
    <3>1. /\ a \in 0 .. 180 /\ w \in 0 .. p
          /\ -p <= 2 * (a * p) - 360 * w /\ 2 * (a * p) - 360 * w <= p
      BY <1>1, <2>0, Zenon DEF PositionNear
    <3> HIDE DEF a, b, w
    <3>2. a * p \in Int /\ w \in Int
      BY <1>1, <3>1
    <3> QED BY <3>1, <3>2 DEF w
  <2>2. PICK v \in Int, z \in Int :
          /\ v = Triangle((10 * x + 10) % p, p) /\ b \in 0 .. 180 /\ z = b * p
          /\ -p <= 2 * z - 360 * v /\ 2 * z - 360 * v <= p
    <3> DEFINE w == Triangle((10 * x + 10) % p, p)
    <3>1. /\ b \in 0 .. 180 /\ w \in 0 .. p
          /\ -p <= 2 * (b * p) - 360 * w /\ 2 * (b * p) - 360 * w <= p
      BY <1>1, <2>0, Zenon DEF PositionNear
    <3> HIDE DEF a, b, w
    <3>2. b * p \in Int /\ w \in Int
      BY <1>1, <3>1
    <3> QED BY <3>1, <3>2 DEF w
  <2>3. u - v <= 20 /\ v - u <= 20
    BY <1>1, <1>3, <2>1, <2>2, TriangleSteps
  <2> HIDE DEF a, b
  <2>4. Abs(a - b) * p = y - z \/ Abs(a - b) * p = z - y
    BY <1>1, <2>1, <2>2 DEF Abs
  <2>5. a \in 0 .. 180 /\ Abs(a - b) * p <= 3600 + p
    BY <1>1, <2>1, <2>2, <2>3, <2>4
  <2> QED BY <2>5 DEF a, b
<1> QED BY <1>2, <1>3

LEMMA PulseHolds == ASSUME x \in Int PROVE PulseAgrees
<1> SUFFICES ASSUME x \in 0 .. 1000
             PROVE  LET above == angle_to_pulse(x)
                                   - 180 * ServoPulse(x, 500000, 2500000)
                    IN  0 <= above /\ above < 180
  BY DEF PulseAgrees
<1>1. PICK d \in Nat : d = angle_clamp(x) /\ d = IF x > 180 THEN 180 ELSE x
  BY DEF angle_clamp, ANGLE_MIN, ANGLE_MAX
<1>2. PICK q \in Nat : /\ q = (2000000 * d) \div 180
                      /\ q * 180 <= 2000000 * d
                      /\ 2000000 * d < q * 180 + 180
  BY DivNat
<1>3. ServoPulse(x, 500000, 2500000) = 500000 + q
  <2>1. (2500000 - 500000) * d = 2000000 * d
    OBVIOUS
  <2> QED BY <1>1, <1>2, <2>1 DEF ServoPulse, ANGLE_MAX
<1>4. angle_to_pulse(x) = 180 * 500000 + 2000000 * d
  BY <1>1 DEF angle_to_pulse
<1> QED BY <1>2, <1>3, <1>4

-----------------------------------------------------------------------------
(* The loops *)

\* A set of natural numbers has a least one.
LEMMA NatMin ==
  ASSUME NEW T, T \subseteq Nat, T # {}
  PROVE  \E m \in T : \A n \in T : m <= n
<1> DEFINE R == {ss \in Nat \X Nat : ss[1] < ss[2]}
<1>1. OpToRel(<, Nat) = R
  BY DEF OpToRel
<1>2. IsWellFoundedOn(R, Nat)
  BY <1>1, NatLessThanWellFounded
<1>3. PICK m \in T : \A n \in T : ~(<<n, m>> \in R)
  <2> HIDE DEF R
  <2> QED BY <1>2, WFMin
<1>4. ASSUME NEW n \in Nat, NEW k \in Nat, ~(<<n, k>> \in R)
      PROVE  k <= n
  <2>1. ~(n < k)
    <3> SUFFICES ASSUME n < k PROVE FALSE
      OBVIOUS
    <3>1. <<n, k>> \in Nat \X Nat /\ <<n, k>>[1] < <<n, k>>[2]
      OBVIOUS
    <3> QED BY <3>1, <1>4
  <2> QED BY <2>1
<1> HIDE DEF R
<1> QED BY <1>3, <1>4

\* A quotient and a remainder, for a dividend of either sign.
LEMMA DivInt ==
  ASSUME NEW a \in Int, NEW b \in Nat \ {0}
  PROVE  /\ a \div b \in Int /\ a % b \in 0 .. b - 1
         /\ a = (a \div b) * b + (a % b)
  OBVIOUS

LEMMA DivIntUnique ==
  ASSUME NEW a \in Int, NEW b \in Nat \ {0}, NEW q \in Int,
         NEW r \in 0 .. b - 1, a = q * b + r
  PROVE  a \div b = q /\ a % b = r
  OBVIOUS

\* The equations of the loops that bring tv_nsec into range.
Pairs == Int \X Int
Up(f, S) ==
  f = [t \in Pairs |-> IF t[2] >= S THEN f[<<t[1] + 1, t[2] - S>>] ELSE t]
Down(f, S) ==
  f = [t \in Pairs |-> IF t[2] < 0 THEN f[<<t[1] - 1, t[2] + S>>] ELSE t]

\* The same time with the nanoseconds in range.
Normal(t, S) == <<t[1] + (t[2] \div S), t[2] % S>>

LEMMA NormalUnchanged ==
  ASSUME NEW S \in Nat \ {0}, NEW a \in Int, NEW b \in Int
  PROVE  /\ Normal(<<a, b>>, S) \in Pairs
         /\ Normal(<<a + 1, b - S>>, S) = Normal(<<a, b>>, S)
         /\ Normal(<<a - 1, b + S>>, S) = Normal(<<a, b>>, S)
         /\ 0 <= b /\ b < S => Normal(<<a, b>>, S) = <<a, b>>
<1>1. PICK q \in Int, r \in 0 .. S - 1 :
        q = b \div S /\ r = b % S /\ b = q * S + r
  BY DivInt
<1>2. b - S = (q - 1) * S + r /\ b + S = (q + 1) * S + r
  BY <1>1
<1> DEFINE Divides(c, k, m) == c \div S = k /\ c % S = m
<1>3. ASSUME NEW c \in Int, NEW k \in Int, NEW m \in 0 .. S - 1, c = k * S + m
      PROVE  Divides(c, k, m)
  BY <1>3, DivIntUnique
<1>4. Divides(b - S, q - 1, r) /\ Divides(b + S, q + 1, r)
  <2>1. b - S \in Int /\ b + S \in Int /\ q - 1 \in Int /\ q + 1 \in Int
    BY <1>1
  <2> HIDE DEF Divides
  <2> QED BY <1>1, <1>2, <1>3, <2>1
<1>5. 0 <= b /\ b < S => Divides(b, 0, b)
  <2> SUFFICES ASSUME 0 <= b, b < S PROVE Divides(b, 0, b)
    OBVIOUS
  <2>1. b = 0 * S + b /\ 0 \in Int /\ b \in 0 .. S - 1
    OBVIOUS
  <2> HIDE DEF Divides
  <2> QED BY <1>3, <2>1
<1>6. a + 1 + (q - 1) = a + q /\ a - 1 + (q + 1) = a + q /\ a + q \in Int
  BY <1>1
<1> QED BY <1>1, <1>3, <1>4, <1>5, <1>6 DEF Normal, Pairs

\* What each loop makes of a time.
Capped(a, b, S) == IF b >= S THEN Normal(<<a, b>>, S) ELSE <<a, b>>
Floored(a, b, S) == IF b < 0 THEN Normal(<<a, b>>, S) ELSE <<a, b>>

LEMMA CappedStep ==
  ASSUME NEW S \in Nat \ {0}, NEW a \in Int, NEW b \in Int
  PROVE  Capped(a, b, S) =
           IF b >= S THEN Capped(a + 1, b - S, S) ELSE <<a, b>>
<1>1. CASE b < S
  BY <1>1 DEF Capped
<1>2. CASE b >= S
  <2>1. PICK c \in Int, d \in Int : c = a + 1 /\ d = b - S /\ d >= 0
    BY <1>2
  <2>2. Normal(<<c, d>>, S) = Normal(<<a, b>>, S)
    BY <2>1, NormalUnchanged
  <2>3. d < S => Normal(<<c, d>>, S) = <<c, d>>
    BY <2>1, NormalUnchanged
  <2>4. Capped(c, d, S) = Capped(a, b, S)
    BY <1>2, <2>2, <2>3 DEF Capped
  <2> QED BY <1>2, <2>1, <2>4
<1> QED BY <1>1, <1>2

LEMMA FlooredStep ==
  ASSUME NEW S \in Nat \ {0}, NEW a \in Int, NEW b \in Int
  PROVE  Floored(a, b, S) =
           IF b < 0 THEN Floored(a - 1, b + S, S) ELSE <<a, b>>
<1>1. CASE b >= 0
  BY <1>1 DEF Floored
<1>2. CASE b < 0
  <2>1. PICK c \in Int, d \in Int : c = a - 1 /\ d = b + S /\ d < S
    BY <1>2
  <2>2. Normal(<<c, d>>, S) = Normal(<<a, b>>, S)
    BY <2>1, NormalUnchanged
  <2>3. d >= 0 => Normal(<<c, d>>, S) = <<c, d>>
    BY <2>1, NormalUnchanged
  <2>4. Floored(c, d, S) = Floored(a, b, S)
    BY <1>2, <2>2, <2>3 DEF Floored
  <2> QED BY <1>2, <2>1, <2>4
<1> QED BY <1>1, <1>2

\* Each loop has a solution.
LEMMA UpExists == ASSUME NEW S \in Nat \ {0} PROVE \E f : Up(f, S)
<1> DEFINE f == [t \in Pairs |-> Capped(t[1], t[2], S)]
           up(t) == IF t[2] >= S THEN f[<<t[1] + 1, t[2] - S>>] ELSE t
<1>1. ASSUME NEW t \in Pairs PROVE f[t] = up(t)
  <2>1. PICK a \in Int, b \in Int : t = <<a, b>>
    BY DEF Pairs
  <2>2. <<a + 1, b - S>> \in Pairs /\ f[t] = Capped(a, b, S)
    BY <2>1 DEF Pairs
  <2>3. f[<<a + 1, b - S>>] = Capped(a + 1, b - S, S)
    BY <2>2
  <2> QED BY <2>1, <2>2, <2>3, CappedStep
<1>2. f = [t \in Pairs |-> up(t)]
  BY <1>1
<1> QED BY <1>2 DEF Up

LEMMA DownExists == ASSUME NEW S \in Nat \ {0} PROVE \E f : Down(f, S)
<1> DEFINE f == [t \in Pairs |-> Floored(t[1], t[2], S)]
           down(t) == IF t[2] < 0 THEN f[<<t[1] - 1, t[2] + S>>] ELSE t
<1>1. ASSUME NEW t \in Pairs PROVE f[t] = down(t)
  <2>1. PICK a \in Int, b \in Int : t = <<a, b>>
    BY DEF Pairs
  <2>2. <<a - 1, b + S>> \in Pairs /\ f[t] = Floored(a, b, S)
    BY <2>1 DEF Pairs
  <2>3. f[<<a - 1, b + S>>] = Floored(a - 1, b + S, S)
    BY <2>2
  <2> QED BY <2>1, <2>2, <2>3, FlooredStep
<1>2. f = [t \in Pairs |-> down(t)]
  BY <1>1
<1> QED BY <1>2 DEF Down

\* What a solution of the upper loop returns, by the least number of
\* nanoseconds for which it would return something else.
LEMMA UpReturns ==
  ASSUME NEW S \in Nat \ {0}, NEW f, Up(f, S), NEW a \in Int, NEW b \in Int
  PROVE  f[<<a, b>>] = Capped(a, b, S)
<1> DEFINE g(c, n) == f[<<c, n>>]
           right(c, n) == Capped(c, n, S)
           Bad == {n \in Nat : \E c \in Int : g(c, n) # right(c, n)}
<1>1. ASSUME NEW c \in Int, NEW n \in Int
      PROVE  g(c, n) = IF n >= S THEN g(c + 1, n - S) ELSE <<c, n>>
  <2>1. <<c, n>> \in Pairs /\ <<c, n>>[1] = c /\ <<c, n>>[2] = n
    BY DEF Pairs
  <2> QED BY <2>1 DEF Up
<1>2. ASSUME NEW c \in Int, NEW n \in Int
      PROVE  right(c, n) = IF n >= S THEN right(c + 1, n - S) ELSE <<c, n>>
  BY CappedStep
<1> HIDE DEF g, right
<1>3. ASSUME NEW c \in Int, NEW n \in Int, n < S PROVE g(c, n) = right(c, n)
  <2>1. ~(n >= S)
    BY <1>3
  <2>2. g(c, n) = <<c, n>>
    BY <1>1, <2>1, Zenon
  <2>3. right(c, n) = <<c, n>>
    BY <1>2, <2>1, Zenon
  <2> QED BY <2>2, <2>3
<1>4. Bad = {}
  <2> SUFFICES ASSUME Bad # {} PROVE FALSE
    OBVIOUS
  <2>1. PICK m \in Bad : \A n \in Bad : m <= n
    <3>1. Bad \subseteq Nat
      OBVIOUS
    <3> HIDE DEF Bad
    <3> QED BY <3>1, NatMin
  <2>2. m \in Nat
    OBVIOUS
  <2>3. PICK c \in Int : g(c, m) # right(c, m)
    OBVIOUS
  <2>4. m >= S
    BY <1>3, <2>2, <2>3
  <2>5. PICK k \in Nat : k = m - S /\ k < m
    BY <2>2, <2>4
  <2>6. k \notin Bad
    <3> HIDE DEF Bad
    <3> QED BY <2>1, <2>2, <2>5
  <2>7. c + 1 \in Int /\ g(c + 1, k) = right(c + 1, k)
    BY <2>6
  <2> QED BY <1>1, <1>2, <2>2, <2>3, <2>4, <2>5, <2>7
<1>5. CASE b < S
  BY <1>3, <1>5 DEF g, right
<1>6. CASE b >= S
  <2>1. b \in Nat /\ b \notin Bad
    BY <1>4, <1>6
  <2>2. g(a, b) = right(a, b)
    BY <2>1
  <2> QED BY <2>2 DEF g, right
<1> QED BY <1>5, <1>6

LEMMA DownReturns ==
  ASSUME NEW S \in Nat \ {0}, NEW f, Down(f, S), NEW a \in Int, NEW b \in Int
  PROVE  f[<<a, b>>] = Floored(a, b, S)
<1> DEFINE g(c, n) == f[<<c, n>>]
           right(c, n) == Floored(c, n, S)
           Bad == {n \in Nat : \E c \in Int : g(c, -n) # right(c, -n)}
<1>1. ASSUME NEW c \in Int, NEW n \in Int
      PROVE  g(c, n) = IF n < 0 THEN g(c - 1, n + S) ELSE <<c, n>>
  <2>1. <<c, n>> \in Pairs /\ <<c, n>>[1] = c /\ <<c, n>>[2] = n
    BY DEF Pairs
  <2> QED BY <2>1 DEF Down
<1>2. ASSUME NEW c \in Int, NEW n \in Int
      PROVE  right(c, n) = IF n < 0 THEN right(c - 1, n + S) ELSE <<c, n>>
  BY FlooredStep
<1> HIDE DEF g, right
<1>3. ASSUME NEW c \in Int, NEW n \in Int, n >= 0 PROVE g(c, n) = right(c, n)
  BY <1>1, <1>2, <1>3
<1>4. Bad = {}
  <2> SUFFICES ASSUME Bad # {} PROVE FALSE
    OBVIOUS
  <2>1. PICK m \in Bad : \A n \in Bad : m <= n
    <3>1. Bad \subseteq Nat
      OBVIOUS
    <3> HIDE DEF Bad
    <3> QED BY <3>1, NatMin
  <2>2. m \in Nat
    OBVIOUS
  <2>3. PICK c \in Int : g(c, -m) # right(c, -m)
    OBVIOUS
  <2>4. PICK k \in Int : k = -m /\ k < 0
    BY <1>3, <2>2, <2>3
  <2>5. PICK l \in Int : l = k + S
    BY <2>4
  <2>6. c - 1 \in Int
    OBVIOUS
  <2>7. g(c - 1, l) = right(c - 1, l)
    <3>1. CASE l >= 0
      BY <1>3, <2>5, <2>6, <3>1
    <3>2. CASE l < 0
      <4>1. PICK j \in Nat : j = m - S /\ j < m /\ -j = l
        BY <2>2, <2>4, <2>5, <3>2
      <4>2. j \notin Bad
        <5> HIDE DEF Bad
        <5> QED BY <2>1, <2>2, <4>1
      <4>3. g(c - 1, -j) = right(c - 1, -j)
        BY <2>6, <4>2
      <4> QED BY <4>1, <4>3
    <3> QED BY <3>1, <3>2
  <2>8. g(c, k) = g(c - 1, l) /\ right(c, k) = right(c - 1, l)
    BY <1>1, <1>2, <2>4, <2>5
  <2> QED BY <2>3, <2>4, <2>7, <2>8
<1>5. CASE b >= 0
  BY <1>3, <1>5 DEF g, right
<1>6. CASE b < 0
  <2>1. PICK n \in Nat : -n = b
    <3>1. -b \in Nat /\ -(-b) = b
      BY <1>6
    <3> QED BY <3>1
  <2>2. g(a, -n) = right(a, -n)
    BY <1>4
  <2> QED BY <2>1, <2>2 DEF g, right
<1> QED BY <1>5, <1>6

\* The deadline is the same time with its nanoseconds in range, however far the
\* correction has carried it.
LEMMA DeadlineIsNormal ==
  ASSUME NEW S \in Nat \ {0}, NEW a \in Int, NEW b \in Int
  PROVE  Deadline(a, b, S) = Normal(<<a, b>>, S)
<1>1. PICK g : Up(g, S) /\ CarryUp(a, b, S) = g[<<a, b>>]
  <2>1. CarryUp(a, b, S) = (CHOOSE f : Up(f, S))[<<a, b>>]
    BY Zenon DEF CarryUp, Up, Pairs
  <2> QED BY <2>1, UpExists, Zenon
<1>2. CarryUp(a, b, S) = Capped(a, b, S)
  BY <1>1, UpReturns
<1>3. ASSUME NEW c \in Int, NEW d \in Int
      PROVE  CarryDown(c, d, S) = Floored(c, d, S)
  <2>1. PICK h : Down(h, S) /\ CarryDown(c, d, S) = h[<<c, d>>]
    <3>1. CarryDown(c, d, S) = (CHOOSE f : Down(f, S))[<<c, d>>]
      BY Zenon DEF CarryDown, Down, Pairs
    <3> QED BY <3>1, DownExists, Zenon
  <2> QED BY <2>1, DownReturns
<1>4. CASE b >= S
  <2>1. PICK c \in Int, d \in 0 .. S - 1 : Normal(<<a, b>>, S) = <<c, d>>
    <3>1. b \div S \in Int /\ b % S \in 0 .. S - 1
      BY DivInt
    <3> QED BY <3>1 DEF Normal
  <2>2. Deadline(a, b, S) = CarryDown(c, d, S)
    BY <1>2, <1>4, <2>1 DEF Deadline, Capped
  <2> QED BY <1>3, <2>1, <2>2 DEF Floored
<1>5. CASE b < S
  <2>1. Deadline(a, b, S) = CarryDown(a, b, S)
    BY <1>2, <1>5 DEF Deadline, Capped
  <2>2. Deadline(a, b, S) = Floored(a, b, S)
    BY <1>3, <2>1
  <2>3. b >= 0 => Normal(<<a, b>>, S) = <<a, b>>
    BY <1>5, NormalUnchanged
  <2> QED BY <2>2, <2>3 DEF Floored
<1> QED BY <1>4, <1>5

LEMMA DeadlineHolds == ASSUME x \in Int PROVE DeadlineRight
<1> SUFFICES ASSUME NEW nsec \in Nanos
             PROVE  LET sum == nsec + Cycle + (x - 1600) * 20000
                        t == Deadline(0, sum, Second)
                    IN  /\ 0 <= t[2] /\ t[2] < Second
                        /\ t[1] * Second + t[2] = sum
  BY DEF DeadlineRight
<1>1. Second \in Nat \ {0}
  BY DEF Second
<1>2. PICK sum \in Int : sum = nsec + Cycle + (x - 1600) * 20000
  BY RangesAssumption, DcAssumption
<1>3. PICK q \in Int, r \in 0 .. Second - 1 :
        q = sum \div Second /\ r = sum % Second /\ sum = q * Second + r
  BY <1>1, DivInt
<1>4. Deadline(0, sum, Second) = <<q, r>>
  <2>1. Deadline(0, sum, Second) = Normal(<<0, sum>>, Second)
    BY <1>1, DeadlineIsNormal
  <2>2. <<0, sum>>[1] = 0 /\ <<0, sum>>[2] = sum /\ 0 + q = q
    OBVIOUS
  <2> QED BY <1>3, <2>1, <2>2 DEF Normal
<1>5. LET t == <<q, r>>
      IN  0 <= t[2] /\ t[2] < Second /\ t[1] * Second + t[2] = sum
  BY <1>1, <1>3
<1> QED BY <1>2, <1>4, <1>5

-----------------------------------------------------------------------------
(* The bytes of an SDO *)

\* The equations of the two byte loops.
Shifted(f, v, size) ==
  f = [i \in 0 .. size - 1 |-> IF i = 0 THEN v ELSE f[i - 1] \div 256]
Above(f, buf, size) ==
  f = [i \in 1 .. size + 1 |-> IF i > size THEN 0 ELSE buf[i] + 256 * f[i + 1]]

LEMMA ShiftedExists ==
  ASSUME NEW v \in Int, NEW size \in 1 .. 3
  PROVE  \E f : Shifted(f, v, size)
<1> DEFINE f == [i \in 0 .. size - 1 |-> IF i = 0 THEN v
                                         ELSE IF i = 1 THEN v \div 256
                                         ELSE (v \div 256) \div 256]
           g == [i \in 0 .. size - 1 |-> IF i = 0 THEN v ELSE f[i - 1] \div 256]
<1>1. ASSUME NEW i \in 0 .. size - 1 PROVE f[i] = g[i]
  <2>1. i \in {0, 1, 2}
    OBVIOUS
  <2>2. i # 0 => i - 1 \in 0 .. size - 1
    OBVIOUS
  <2> QED BY <2>1, <2>2
<1>2. f = g
  BY <1>1
<1> QED BY <1>2 DEF Shifted

LEMMA AboveExists ==
  ASSUME NEW buf, NEW size \in 1 .. 3
  PROVE  \E f : Above(f, buf, size)
<1> DEFINE one(i) == buf[i] + 256 * 0
           two(i) == buf[i] + 256 * one(i + 1)
           three(i) == buf[i] + 256 * two(i + 1)
           f == [i \in 1 .. size + 1 |-> IF i > size THEN 0
                                         ELSE IF i = size THEN one(i)
                                         ELSE IF i = size - 1 THEN two(i)
                                         ELSE three(i)]
           g == [i \in 1 .. size + 1 |-> IF i > size THEN 0
                                         ELSE buf[i] + 256 * f[i + 1]]
<1>1. ASSUME NEW i \in 1 .. size + 1 PROVE f[i] = g[i]
  <2>1. i \in {size - 2, size - 1, size, size + 1} /\ i \in Int /\ size \in Int
    OBVIOUS
  <2>2. i # size + 1 => i + 1 \in 1 .. size + 1
    OBVIOUS
  <2> QED BY <2>1, <2>2
<1>2. f = g
  BY <1>1
<1> QED BY <1>2 DEF Above

\* The value of the lowest bytes, at most three of them.
Lowest(v, size) ==
  LET q == v \div 256
      r == q \div 256
  IN  IF size = 1 THEN v % 256
      ELSE IF size = 2 THEN (v % 256) + 256 * (q % 256)
      ELSE (v % 256) + 256 * ((q % 256) + 256 * (r % 256))

\* An SDO value is read back from its lowest bytes.
LEMMA ReadBack ==
  ASSUME NEW v \in Int, NEW size \in 1 .. 3
  PROVE  Value(Bytes(v, size), size) = Lowest(v, size)
<1> DEFINE q == v \div 256
           r == q \div 256
<1>1. q \in Int /\ r \in Int
  BY DivInt
<1>2. PICK b : b = Bytes(v, size)
  OBVIOUS
<1>3. PICK f : Shifted(f, v, size) /\ b = [i \in 1 .. size |-> f[i - 1] % 256]
  <2>1. b = [i \in 1 .. size |-> (CHOOSE f : Shifted(f, v, size))[i - 1] % 256]
    BY <1>2, Zenon DEF Bytes, Shifted
  <2> QED BY <2>1, ShiftedExists, Zenon
<1>4. /\ b[1] = v % 256
      /\ size >= 2 => b[2] = q % 256
      /\ size >= 3 => b[3] = r % 256
  <2>1. f[0] = v
    BY <1>3 DEF Shifted
  <2>2. size >= 2 => f[1] = q
    BY <1>3, <2>1 DEF Shifted
  <2>3. size >= 3 => f[2] = r
    BY <1>3, <2>2 DEF Shifted
  <2> QED BY <1>3, <2>1, <2>2, <2>3
<1>5. PICK g : Above(g, b, size) /\ Value(b, size) = g[1]
  <2>1. Value(b, size) = (CHOOSE g : Above(g, b, size))[1]
    BY Zenon DEF Value, Above
  <2> QED BY <2>1, AboveExists, Zenon
<1>6. ASSUME NEW i \in 1 .. size + 1
      PROVE  g[i] = IF i > size THEN 0 ELSE b[i] + 256 * g[i + 1]
  BY <1>5 DEF Above
<1> HIDE DEF q, r
<1>7. CASE size = 1
  <2>1. g[2] = 0 /\ g[1] = b[1] + 256 * g[2]
    BY <1>6, <1>7
  <2> QED BY <1>2, <1>4, <1>5, <1>7, <2>1 DEF Lowest
<1>8. CASE size = 2
  <2>1. g[3] = 0 /\ g[2] = b[2] + 256 * g[3] /\ g[1] = b[1] + 256 * g[2]
    BY <1>6, <1>8
  <2> QED BY <1>1, <1>2, <1>4, <1>5, <1>8, <2>1 DEF q, Lowest
<1>9. CASE size = 3
  <2>1. /\ g[4] = 0 /\ g[3] = b[3] + 256 * g[4]
        /\ g[2] = b[2] + 256 * g[3] /\ g[1] = b[1] + 256 * g[2]
    BY <1>6, <1>9
  <2> QED BY <1>1, <1>2, <1>4, <1>5, <1>9, <2>1 DEF q, r, Lowest
<1> QED BY <1>7, <1>8, <1>9

LEMMA BytesHold == ASSUME x \in Int PROVE BytesRoundTrip
<1> SUFFICES ASSUME NEW size \in 1 .. 3
             PROVE  LET v == 25 * x
                        back == Value(Bytes(v, size), size)
                    IN  (back = v) <=> (v \in 0 .. 256 ^ size - 1)
  BY DEF BytesRoundTrip
<1>1. PICK v \in Int : v = 25 * x
  OBVIOUS
<1>2. PICK q \in Int, c \in 0 .. 255 :
        q = v \div 256 /\ c = v % 256 /\ v = 256 * q + c
  OBVIOUS
<1>3. PICK r \in Int, d \in 0 .. 255 :
        r = q \div 256 /\ d = q % 256 /\ q = 256 * r + d
  OBVIOUS
<1>4. PICK s \in Int, e \in 0 .. 255 :
        s = r \div 256 /\ e = r % 256 /\ r = 256 * s + e
  OBVIOUS
<1> DEFINE back == Value(Bytes(v, size), size)
<1>5. /\ size = 1 => back = c
      /\ size = 2 => back = c + 256 * d
      /\ size = 3 => back = c + 256 * (d + 256 * e)
  <2>1. back = Lowest(v, size)
    BY ReadBack
  <2> HIDE DEF back
  <2> QED BY <1>2, <1>3, <1>4, <2>1 DEF Lowest
<1> HIDE DEF back
<1>6. size = 1 => ((back = v) <=> (v \in 0 .. 256 ^ 1 - 1))
  BY <1>2, <1>5
<1>7. size = 2 => ((back = v) <=> (v \in 0 .. 256 ^ 2 - 1))
  BY <1>2, <1>3, <1>5
<1>8. size = 3 => ((back = v) <=> (v \in 0 .. 256 ^ 3 - 1))
  BY <1>2, <1>3, <1>4, <1>5
<1>9. (back = v) <=> (v \in 0 .. 256 ^ size - 1)
  <2>1. CASE size = 1
    BY <1>6, <2>1, Zenon
  <2>2. CASE size = 2
    BY <1>7, <2>2, Zenon
  <2>3. CASE size = 3
    BY <1>8, <2>3, Zenon
  <2>4. size = 1 \/ size = 2 \/ size = 3
    OBVIOUS
  <2> QED BY <2>1, <2>2, <2>3, <2>4, Zenon
<1> QED BY <1>1, <1>9 DEF back

-----------------------------------------------------------------------------
(* Theorems *)

\* The counter is a number.
LEMMA CounterIsInt == Spec => [](x \in Int)
<1>1. Init => x \in Int
  BY RangesAssumption DEF Init, First
<1>2. x \in Int /\ [Count \/ Clock]_<<x, dcVars>> => (x \in Int)'
  BY DEF Count, Clock
<1> QED BY <1>1, <1>2, PTL DEF Spec

\* Both conversions of step_math.h are right for every motor, every angle of a
\* revolution, every step count and every limit.
THEOREM ConversionsRight == Spec => []AxisConversions
<1>1. x \in Int => AxisConversions
  BY NearestHolds, RoundTripHolds, ReportHolds DEF AxisConversions
<1> QED BY <1>1, CounterIsInt, PTL

\* The sweep, the two pulses, the deadline and the SDO bytes are right, for every
\* set of periods and start values, at each input of MasterFunctions: times in
\* steps of 10 ms, corrections in steps of 20 us, pulses up to 1000 degrees,
\* values in multiples of 25 in objects of one to three bytes.
THEOREM FunctionsRight == Spec => []MasterFunctions
<1>1. x \in Int => MasterFunctions
  BY SweepHolds, PulseHolds, DeadlineHolds, BytesHold DEF MasterFunctions
<1> QED BY <1>1, CounterIsInt, PTL

=============================================================================
