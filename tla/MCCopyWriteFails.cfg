SPECIFICATION Spec
CONSTANTS
  EndLba = 5
  SectorsAtOnce = 2
  IndivisibleZone = 4
  MaxZones = 3
  SkipBlocks = 1
  IntLimit = 64
  Strategies = {"smart"}
  Faults = {"write"}
  Destinations = {"device"}
  DstDevice <- DeviceAlone
  Lost = {}
  MaxRuns = 1
INVARIANT
  CopiedBeforeRecorded
CHECK_DEADLOCK FALSE
