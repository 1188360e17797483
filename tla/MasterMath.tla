---------------------------- MODULE MasterMath ----------------------------
(***************************************************************************)
(* The master's arithmetic: angles and the sweep (master/src/angle.c), the *)
(* deadline of the cyclic loop (cycle_sleep), the bytes of an SDO (ecat.c) *)
(* and the pulse of the servo, which the slave computes on its own         *)
(* (firmware/src/servo.c).  Times are whole milliseconds or nanoseconds    *)
(* where the code has a double; its last-bit rounding is not modelled.     *)
(***************************************************************************)
EXTENDS Integers

ANGLE_MIN == 0
ANGLE_MAX == 180

angle_clamp(value) ==
  IF value < ANGLE_MIN THEN ANGLE_MIN
  ELSE IF value > ANGLE_MAX THEN ANGLE_MAX ELSE value

\* lround of a quotient that is not negative.
Rounded(a, b) == (2 * a + b) \div (2 * b)

\* Mutant: a sawtooth, without the falling half.
SweepSaw(t, period) ==
  IF period <= 0 THEN ANGLE_MIN
  ELSE angle_clamp(Rounded((t % period) * ANGLE_MAX, period))

\* A triangle: up in the first half of the period, down in the second.
angle_sweep_position(t, period) ==
  IF period <= 0 THEN ANGLE_MIN
  ELSE LET r == t % period
           up == IF 2 * r < period THEN 2 * r ELSE 2 * (period - r)
       IN  angle_clamp(Rounded(up * ANGLE_MAX, period))

\* 180 times the pulse in nanoseconds, which is a whole number.
angle_to_pulse(angle) == 180 * 500000 + 2000000 * angle_clamp(angle)

\* servo_set_angle.
ServoPulse(degrees, min, max) ==
  LET d == IF degrees > ANGLE_MAX THEN ANGLE_MAX ELSE degrees
  IN  min + ((max - min) * d) \div ANGLE_MAX

\* cycle_sleep and cycle_sleep_ns, for seconds of S nanoseconds: the two loops
\* that bring tv_nsec into range.
CarryUp(sec, nsec, S) ==
  LET up[t \in Int \X Int] ==
        IF t[2] >= S THEN up[<<t[1] + 1, t[2] - S>>] ELSE t
  IN  up[<<sec, nsec>>]
CarryDown(sec, nsec, S) ==
  LET down[t \in Int \X Int] ==
        IF t[2] < 0 THEN down[<<t[1] - 1, t[2] + S>>] ELSE t
  IN  down[<<sec, nsec>>]
Deadline(sec, nsec, S) ==
  LET t == CarryUp(sec, nsec, S) IN CarryDown(t[1], t[2], S)

\* ecat_sdo_write: the low size bytes of the value, the lowest first.
Bytes(value, size) ==
  LET shifted[i \in 0 .. size - 1] ==
        IF i = 0 THEN value ELSE shifted[i - 1] \div 256
  IN  [i \in 1 .. size |-> shifted[i - 1] % 256]

\* ecat_sdo_read: what came back, without a sign.
Value(buf, size) ==
  LET above[i \in 1 .. size + 1] ==
        IF i > size THEN 0 ELSE buf[i] + 256 * above[i + 1]
  IN  above[1]

=============================================================================
