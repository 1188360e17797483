----------------------------- MODULE StepperMC ------------------------------
(***************************************************************************)
(* Small instances of the axis: targets and limits around 0, around the    *)
(* rounding of a step, and above every limit; one interval out of bounds   *)
(* on each side.                                                           *)
(***************************************************************************)
EXTENDS Stepper

MCAngles == {0, 1, 3, 5, 9}
MCLimits == {0, 2, 9, 361}
MCIntervals == {199999, 200000, 2500000, 50000001}
=============================================================================
