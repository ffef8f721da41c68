SPECIFICATION HandoverSpec
CONSTANTS
  None = None
  Branch = Branch
  Commits = {c1, c2}
  KeepBuilds = 2
  MaxBuilds = 3
  MaxCrashes = 2
  MaxSweeps = 1
  Nobody = Nobody
  Main = Main
  Cancel = Cancel
  Requests = {r1, r2}
  HeadCommits = {h1, h2}
  Flushers = {f1}
  MaxTeardowns = 1
  Shutdown = TRUE
SYMMETRY Symmetry
INVARIANT TypeOK
INVARIANT RestoredIsServed
INVARIANT RestoredUrlsAnswer
 
INVARIANT ReportsTypeOK
INVARIANT NewestKept
INVARIANT ClosedIsDrained
PROPERTY SweepSparesSettled
CHECK_DEADLOCK FALSE
