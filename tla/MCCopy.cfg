SPECIFICATION FairSpec
CONSTANTS
  EndLba = 9
  SectorsAtOnce = 2
  IndivisibleZone = 4
  MaxZones = 3
  SkipBlocks = 1
  IntLimit = 64
  Strategies <- AllStrategies
  Faults = {}
  Destinations = {"device"}
  DstDevice <- DeviceAlone
  Lost = {}
  MaxRuns = 2
INVARIANTS
  TypeOK
  TableSound
  TableMatchesJournal
  ProgressExact
  DefectFlagsJustified
  RefusedIsFresh
  ReadaheadExplained
  AvoidsDefects
  StopsForAReason
  NoAbort
PROPERTIES
  RunEnds
CHECK_DEADLOCK FALSE
