SPECIFICATION Spec
CONSTANTS
  Angles = {0, 2, 3}
  Park = 4
  Limit = 5
  Room = 2
  MaxLate = 1
  MaxLost = 2
INVARIANTS
  TypeOK
  ArrivalTrue
  EchoShowsNone
CHECK_DEADLOCK FALSE
