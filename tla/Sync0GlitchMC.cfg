SPECIFICATION FairSpec
CONSTANTS
  SYNC0_POLL_MS = 1
  SYNC0_LOCKED_TIMEOUT_MS = 25
  SYNC0_LOCK_EDGES = 3
  Cycle = 10
  WorkTimes = {0, 2, 12}
  CountTop = 4
  CountWraps = FALSE
  MaxGlitches = 2
  QuietCap = 75
INVARIANTS
  LockNeedsEvidence
