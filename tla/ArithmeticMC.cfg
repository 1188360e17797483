SPECIFICATION Spec
CONSTANTS
  Sprs = {1, 199, 200, 359, 360, 361, 400, 3200}
  Limits = {1, 180, 360}
  Periods = {0, 7, 600, 1001, 4000}
  Nanos = {0, 1, 500000000, 985000000, 999999999}
  Last = 3201
  Cycle = 10000000
  Lead = 50000
  Phases = {0, 1, 49999, 50000, 1050000, 5050000, 5050001, 9999999}
  Drifts = {0, 3, 100}
  Losses = {0, 3, 200}
INVARIANTS
  AxisConversions
  MasterFunctions
  DcTypeOK
PROPERTIES
  Locks
CHECK_DEADLOCK FALSE
