SPECIFICATION Spec
CONSTANTS
    Slots = 4
    MaxBacklog = 3
    MaxReports <- TwoTurns
    InOrder = TRUE
INVARIANTS
    DrawnFaithfully
PROPERTIES
    QueueSpec
CHECK_DEADLOCK FALSE
