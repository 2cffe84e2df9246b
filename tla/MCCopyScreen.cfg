SPECIFICATION ScreenSpec
CONSTANTS
  EndLba = 11
  SectorsAtOnce = 3
  IndivisibleZone = 6
  MaxZones = 3
  SkipBlocks = 1
  IntLimit = 64
  Strategies <- AlignedStrategies
  Faults = {"ioctl", "lost"}
  Destinations = {"device"}
  DstDevice <- DeviceAlone
  Lost = {}
  MaxRuns = 2
  BlocksPerVis = 2
  UintLimit = 1000
  QueueBound = 2
INVARIANTS
  CellsTruthful
  CountsAgree
CHECK_DEADLOCK FALSE
