SPECIFICATION MaintenanceSpec
CONSTANTS
  MaxRecords = 2
  MaxPending = 1
  PageSize = 1
  MaxRoots = 2
  MaxCalls = 2
  MaxDecisions = 0
  MaxFaults = 1
INVARIANTS
  BookkeepingFinishes
CHECK_DEADLOCK FALSE
