SPECIFICATION LiveSpec
CONSTANTS
  Tries = 2
  RungTries = 2
  CycleMs = 10
  ReturnMs = 2
  SafeopMs = 8000
  UpMs = 50
  DownMs = 10
  WD_MISSED_CYCLES = 10
  MaxLost = 2
  MaxUpsets = 1
  Park = 2
  Limit = 3
  Feed = 2
INVARIANTS
  LeftInInit
  WillingSlaveServed
  FedInOp
  QuietWhenLeft
PROPERTIES
  NeverClimbs
  KeptOp
  CommandEnds
CHECK_DEADLOCK FALSE
