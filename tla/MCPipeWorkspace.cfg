SPECIFICATION PipelineSpec
CONSTANTS
  Runs = {"b1","b2"}
  Commits = {"x","y"}
INVARIANT OwnWorkspace
CHECK_DEADLOCK FALSE
