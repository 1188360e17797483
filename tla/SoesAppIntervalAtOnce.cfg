SPECIFICATION SoesSpec
CONSTANTS
  STEPS_PER_REV = 400
  STEPPER_ANGLE_MAX = 3
  STEP_INTERVAL_NS = 2500000
  Angles <- MCAngles
  Limits <- MCLimits
  Intervals <- MCIntervals
  MaxFaults = 0
  NO_ANGLE_APPLIED <- MCNoAngle
INVARIANTS
  IntervalAtOnce
CHECK_DEADLOCK FALSE
