SPECIFICATION Spec
CONSTANTS
  None = None
  Previews = {p1}
  Workers = {w1, w2}
  Hooks = {h1}
  Closers = {c1}
  Cancellers = {x1}
  MaxAsks = 2
  MaxTeardowns = 1
SYMMETRY Symmetry
PROPERTY NewestWins
CHECK_DEADLOCK FALSE
