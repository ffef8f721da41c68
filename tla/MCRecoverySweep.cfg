SPECIFICATION Spec
CONSTANTS
  None = None
  Branch = Branch
  Commits = {c1, c2}
  KeepBuilds = 2
  MaxBuilds = 1
  MaxCrashes = 0
  MaxSweeps = 1
SYMMETRY Symmetry
INVARIANT ReadyRowIsServed
CHECK_DEADLOCK FALSE
