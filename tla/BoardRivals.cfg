SPECIFICATION Spec
CONSTANTS
  o1 = o1
  o2 = o2
  None = None
  Owners = {o1, o2}
  Rivals = TRUE
  Readings = {"never", "newer"}
  MaxTime = 4
  MaxFlight = 2
SYMMETRY OwnerSymmetry
INVARIANTS
  NoLostResult
  RowProjectsEvidence
  RunningTurnShown
CHECK_DEADLOCK FALSE
