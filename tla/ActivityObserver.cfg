SPECIFICATION FairObserverSpec
CONSTANTS
  v1 = v1
  v2 = v2
  Sources = {v1, v2}
  MaxCommits = 1
  MaxReadErrors = 1
  NotWatching = NotWatching
INVARIANTS
  OneObserver
PROPERTIES
  ProjectionAdvances
  ShownEventually
CHECK_DEADLOCK FALSE
