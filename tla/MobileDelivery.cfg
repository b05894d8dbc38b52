SPECIFICATION MobileSpec
CONSTANTS
  Sends = {m1}
  NativeSends = {}
  Answers = {}
  Creations = {}
  Servers = {x1}
  MaxSends = 2
  MaxLaunches = 2
  Nothing = Nothing
INVARIANTS
  RejectedIsUndispatched
CHECK_DEADLOCK FALSE
