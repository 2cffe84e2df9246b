SPECIFICATION CountersSpec
CONSTANTS
    Base = 2
    Addresses <- TellBytesApart
    Counts <- SomeCounts
    Formats = {"descriptor", "fixed"}
    Faults = {"host timeout"}
    MaxReports = 2
CHECK_DEADLOCK FALSE
INVARIANTS
    AddressCarried
    DefectsTold
    BytesWithin
