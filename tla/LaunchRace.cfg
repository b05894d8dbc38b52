SPECIFICATION LedgerSpec
CONSTANTS
  t1 = t1
  t2 = t2
  s1 = s1
  s2 = s2
  n1 = n1
  None = None
  Tokens = {t1, t2}
  Sessions = {s1, s2}
  Wrappers = {w1}
  Generations = {g1}
  Names = {n1}
  NameOf <- OneName
  Intent <- ResumeIntent
  Codes = {1}
  MaxTime = 1
INVARIANTS
  NamesReservedOnce
  ReceiptBelongsToAttempt
  RecoveryBacked
  OneHomePerLaunch
CHECK_DEADLOCK FALSE
