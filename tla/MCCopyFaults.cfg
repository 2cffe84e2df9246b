SPECIFICATION Spec
CONSTANTS
  EndLba = 4
  SectorsAtOnce = 2
  IndivisibleZone = 4
  MaxZones = 2
  SkipBlocks = 0
  IntLimit = 64
  Strategies = {"smart", "skipfail"}
  Faults = {"ioctl", "lost", "write", "journal", "dstopen", "power"}
  Destinations = {"device", "file"}
  DstDevice <- ShortDevice
  Lost <- HalfLost
  MaxRuns = 2
INVARIANTS
  CompleteCopy
  SpaceRespected
  RecordedWithReason
PROPERTIES
  IdealSpec
CHECK_DEADLOCK FALSE
