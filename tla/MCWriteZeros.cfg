SPECIFICATION FairSpec
CONSTANTS
    EndLba = 10
    SectorsAtOnce = 3
    Starts <- StartsInside
    UintLimit = 16
INVARIANTS
    InStep
    AllTold
PROPERTIES
    ScanSpec
    RunEnds
