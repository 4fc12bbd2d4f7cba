SPECIFICATION Spec
CONSTANTS
  q1 = q1
  petr4 = petr4
  Fields <- TwoFields
  Foreign = {"foreign"}
  Query = q1
  Symbol = petr4
  None = None
  Budget = 1
  SocketTimeout = 1
  Chunk = 2
  MaxSent = 3
  MaxTime = 3
INVARIANT BudgetKept
