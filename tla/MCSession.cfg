SPECIFICATION FairSpec
CONSTANTS
  Frontends <- BothFrontends
  Faults <- AllFaults
  MaxSignals = 3
INVARIANTS
  WorkerHasContext
  WatchedCanBeStopped
  MenuIsQuiet
PROPERTIES
  RunEndsWhenAsked
CHECK_DEADLOCK FALSE
