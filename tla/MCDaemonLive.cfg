SPECIFICATION FairSpec
CONSTANTS
  None = None
  Previews = {p1}
  Workers = {w1, w2}
  Hooks = {h1}
  Closers = {c1}
  Cancellers = {}
  MaxAsks = 2
  MaxTeardowns = 1
PROPERTY BuildsFinish
PROPERTY TeardownReturns
CHECK_DEADLOCK FALSE
