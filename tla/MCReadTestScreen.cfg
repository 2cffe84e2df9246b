SPECIFICATION ScreenSpec
CONSTANTS
    EndLba = 10
    SectorsAtOnce = 3
    Starts <- AnyStart
    Apis = {"ata", "posix"}
    Faults = {"ioctl", "lost"}
    Durations <- Times
    StatsEvery = 2
    UintLimit = 1000000
INVARIANTS
    CountsAgree
    AllTold
    OneBlockBehind
    ReadaheadRestored
    ScreenAccounts
    EtaSound
