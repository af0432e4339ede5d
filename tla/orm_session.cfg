SPECIFICATION Spec
CONSTANTS
  Tables = {t1, t2}
  None = None
  MaxValues = 2
  MaxDepth = 2
  MaxSteps = 4
CHECK_DEADLOCK FALSE
INVARIANTS OwnClauses SessionIsClean TransactionIsAtomic
