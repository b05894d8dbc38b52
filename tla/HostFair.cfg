SPECIFICATION HostSpec
CONSTANTS
  l1 = l1
  l2 = l2
  l3 = l3
  c1 = c1
  p1 = p1
  p2 = p2
  Nobody = Nobody
  Launchers = {l1, l2, l3}
  Conversations = {c1}
  Target <- OneTarget
  PidOf <- ReusedPids
  Stages = {}
  o1 = o1
  o2 = o2
  None = None
  Owners = {o1, o2}
  Rivals = TRUE
  Readings = {"never"}
  MaxTime = 3
  MaxFlight = 2
INVARIANTS
  LaneHeld
PROPERTIES
  StaleLaneReclaimed
  DeadStopsWorking
  RivalWarningEnds
CHECK_DEADLOCK FALSE
