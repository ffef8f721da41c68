SPECIFICATION Spec
CONSTANTS
  None = None
  Previews = {p1}
  Workers = {w1}
  Hooks = {h1}
  Closers = {c1}
  Cancellers = {x1}
  MaxAsks = 1
  MaxTeardowns = 1
SYMMETRY Symmetry
PROPERTY OwnJobSurvives
CHECK_DEADLOCK FALSE
