SPECIFICATION FairSpec
CONSTANTS
    Slots = 3
    MaxBacklog = 3
    MaxReports <- TwoTurns
    InOrder = FALSE
PROPERTY
    Ends
CHECK_DEADLOCK FALSE
