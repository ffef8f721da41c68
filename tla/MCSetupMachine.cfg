SPECIFICATION SetupSpec
CONSTANTS
  Panels = {"q"}
  Cli = "cli"
  EnvIds = {"e1", "e2"}
  OldEnvs = {}
  Forms <- MCForms
  MaxSteps = 4
  MaxFaults = 1
INVARIANT DisableSparesMachine
CHECK_DEADLOCK FALSE
