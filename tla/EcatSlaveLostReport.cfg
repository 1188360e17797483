SPECIFICATION Spec
CONSTANTS
  MaxAngle = 1
  OutCfgs <- MCGoodOut
  InCfgs <- MCGoodIn
  Requests <- MCRequests
  RegisterWord = 1
  HasActuator = TRUE
  MaxSpiFaults = 1
  MaxApplyFaults = 0
  MaxRestarts = 0
PROPERTIES
  MotionOnlyInVisibleOp
CHECK_DEADLOCK FALSE
