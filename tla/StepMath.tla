------------------------------ MODULE StepMath ------------------------------
(***************************************************************************)
(* Degrees to microsteps and back (firmware/src/step_math.h).  The C code  *)
(* computes in 32 bits; the arguments here are at most 360 degrees and     *)
(* 65535 steps per revolution, whose products stay far below 2^32.         *)
(***************************************************************************)
EXTENDS Integers

STEP_MATH_DEGREES_PER_REV == 360

\* Mutant: rounds down.
angle_to_steps_down(degrees, steps_per_rev) ==
  (degrees * steps_per_rev) \div STEP_MATH_DEGREES_PER_REV

\* Rounds to the nearest step.
angle_to_steps(degrees, steps_per_rev) ==
  (degrees * steps_per_rev + STEP_MATH_DEGREES_PER_REV \div 2)
    \div STEP_MATH_DEGREES_PER_REV

\* Mutant: rounds down.
steps_to_angle_down(steps, steps_per_rev, max_angle) ==
  IF steps <= 0 \/ steps_per_rev = 0 THEN 0
  ELSE LET deg == (steps * STEP_MATH_DEGREES_PER_REV) \div steps_per_rev
       IN  IF deg > max_angle THEN max_angle ELSE deg

\* The inverse, 0 below the reference position, clamped to max_angle.
steps_to_angle(steps, steps_per_rev, max_angle) ==
  IF steps <= 0 \/ steps_per_rev = 0 THEN 0
  ELSE LET deg == (steps * STEP_MATH_DEGREES_PER_REV + steps_per_rev \div 2)
                    \div steps_per_rev
       IN  IF deg > max_angle THEN max_angle ELSE deg

=============================================================================
