SPECIFICATION TurnFleetSpec
CONSTANTS
  q1 = q1
  q2 = q2
  k2 = k2
  None = None
  Requests = {q1, q2}
  MaxConcurrent = 2
  Budgets = {2}
  MaxForgets = 1
  MaxCrashes = 1
  MaxRecoveries = 1
  Exchanges = {r1, r2, r3}
  Keepers = {k1, k2}
  MaxRemovals = 1
  Absent = Absent
  Jobs = {r1, r2, r3}
  Shipped = shipped
  Versions = {1, 2, 3}
  MaxLosses = 1
  Missing = Missing
SYMMETRY ProcessSymmetry
INVARIANTS
  AtMostOnce
  RecoveryClears
  ThreadHoldsOneMemory
  NoOverlapInThread
  ForgottenTextGone
  ErrorIsNewer
  CacheMatchesManifest
  LauncherRuns
PROPERTIES
  SendsCharged
  SendsUnderCurrentMemory
  SameTrustNewerWins
  ActivatesInOrder
CHECK_DEADLOCK FALSE
