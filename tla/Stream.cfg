SPECIFICATION Spec
CONSTANTS
  Conn = {c1, c2}
  Poll = {q1}
  Loop = Loop
  None = None
  Window = 1
  Capacity = 1
  OfflineAfter = 0
  Known = TRUE
  MaxEvents = 2
INVARIANTS
  TypeOK
  PointsAreFresh
PROPERTIES
  PageCatchesUp
  OpenStreamsFollow
CHECK_DEADLOCK FALSE
