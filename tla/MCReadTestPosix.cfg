SPECIFICATION Spec
CONSTANTS
    EndLba = 10
    SectorsAtOnce = 3
    Starts <- AnyStart
    Apis = {"posix"}
    Faults = {}
INVARIANT ReadsNextBlock
