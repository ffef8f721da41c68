SPECIFICATION Spec
CONSTANTS
  None = None
  Previews = {p1}
  Workers = {w1, w2}
  Hooks = {h1}
  Closers = {c1}
  Cancellers = {x1}
  MaxAsks = 3
  MaxTeardowns = 1
SYMMETRY Symmetry
INVARIANT TypeOK
INVARIANT CommitExclusion
 
PROPERTY PublishOrder
PROPERTY HandleKept
CHECK_DEADLOCK FALSE
