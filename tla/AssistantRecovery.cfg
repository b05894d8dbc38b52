SPECIFICATION FairSpec
CONSTANTS
  q1 = q1
  q2 = q2
  None = None
  Requests = {q1}
  MaxConcurrent = 2
  Budgets = {2}
  MaxForgets = 1
  MaxCrashes = 1
  MaxRecoveries = 2
PROPERTIES
  RecoveryCompletes
CHECK_DEADLOCK FALSE
