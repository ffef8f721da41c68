SPECIFICATION GateSpec
CONSTANTS
  Callers = {"c1","c2","c3"}
  Processes = {"p1","p2"}
  ProcOf <- MCProcOf
  Limit = 2
  Window = 2
  Quiet = 2
  MaxAsks = 4
  MaxKills = 1
INVARIANT GateTypeOK
INVARIANT BudgetKept
PROPERTY QuietIsKept
CHECK_DEADLOCK FALSE
PROPERTY EveryoneIsServed
