SPECIFICATION LogSpec
CONSTANTS
  Viewers = {"v1"}
  MaxLogs = 2
  MaxLines = 2
  Buffer = 1
  Backlog = 1
PROPERTY LogsEnd
CHECK_DEADLOCK FALSE
