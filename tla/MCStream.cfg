SPECIFICATION StreamSpec
CONSTANTS
  Viewers = {"v1"}
  MaxLogs = 2
  MaxLines = 2
  Buffer = 1
  Backlog = 1
  Restores = {"r1"}
  Size = 2
  MaxBuilds = 3
  MaxBoots = 2
INVARIANT StreamTypeOK
INVARIANT TailHasNoGap
INVARIANT ClosedLogIsWhole
 
PROPERTY TailEnds
PROPERTY PageCatchesUp
CHECK_DEADLOCK FALSE
