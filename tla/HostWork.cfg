SPECIFICATION HostSpec
CONSTANTS
  Conversations = {e1}
  Runs = {p1, p2}
  MaxTurns = 2
  MaxCycles = 2
  MaxUntracks = 1
  Sends = {m1}
  NativeSends = {m2}
  Answers = {m3}
  Creations = {m4, m5}
  Servers = {x1, x2}
  MaxSends = 2
  MaxLaunches = 2
  Nothing = Nothing
  MaxRecords = 2
  MaxPending = 1
  PageSize = 1
  MaxRoots = 2
  MaxCalls = 2
  MaxDecisions = 1
  MaxFaults = 1
INVARIANTS
  AttemptedOnce
  ClaimsWhatItSaw
  DispatchedOnce
  SettledTruly
  OneConversationPerName
  ReviewedOnce
  NoSourceLost
  SentIsCharged
CHECK_DEADLOCK FALSE
