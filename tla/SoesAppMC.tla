----------------------------- MODULE SoesAppMC ------------------------------
(***************************************************************************)
(* Small instances of the SOES node: targets and limits around 0 and above *)
(* every limit, the sentinel sent as a target, an interval on the boundary *)
(* and one beyond it.                                                      *)
(***************************************************************************)
EXTENDS SoesApp

MCNoAngle == 65535
MCAngles == {0, 1, 3, 5, MCNoAngle}
MCLimits == {0, 2, 5, 361}
MCIntervals == {199999, 200000, 2500000}
=============================================================================
