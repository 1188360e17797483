SPECIFICATION FairSpec
CONSTANTS
  STEPS_PER_REV = 200
  STEPPER_ANGLE_MAX = 5
  STEP_INTERVAL_NS = 2500000
  Angles <- MCAngles
  Limits <- MCLimits
  Intervals <- MCIntervals
  MaxFaults = 0
PROPERTIES
  Converges
CHECK_DEADLOCK FALSE
