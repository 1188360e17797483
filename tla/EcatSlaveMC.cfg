SPECIFICATION Spec
CONSTRAINT OneFault
CONSTANTS
  MaxAngle = 1
  OutCfgs <- MCOutCfgs
  InCfgs <- MCInCfgs
  Requests <- MCAllRequests
  RegisterWord = 1
  HasActuator = TRUE
  MaxSpiFaults = 1
  MaxApplyFaults = 1
  MaxRestarts = 1
INVARIANTS
  ErrorHasReason
  SafeOpValidated
  SpellDelivered
  EchoIsAccepted
PROPERTIES
  MotionSeenAsOp
  StopRequestStops
  GateSpec
CHECK_DEADLOCK FALSE
