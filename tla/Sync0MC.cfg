SPECIFICATION FairSpec
CONSTANTS
  SYNC0_POLL_MS = 1
  SYNC0_LOCKED_TIMEOUT_MS = 13
  SYNC0_LOCK_EDGES = 3
  Cycle = 5
  WorkTimes = {0, 1, 6}
  CountTop = 4
  CountWraps = FALSE
  MaxGlitches = 2
  QuietCap = 38
INVARIANTS
  NoBacklog
  PromptLock
  StopNoticed
PROPERTIES
  ClockFollowed
  NoFlap
