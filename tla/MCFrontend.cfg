SPECIFICATION Spec
CONSTANTS
    hpaDisk = hpaDisk
    plainDisk = plainDisk
    usbStick = usbStick
    Programs = {"cui", "cli"}
    Devices = {hpaDisk, plainDisk, usbStick}
    Ata = {hpaDisk, plainDisk}
    Hpa = {hpaDisk}
    LongerNames <- Prefixes
    Mountable = {hpaDisk, usbStick}
    NativeSize = 3
    LbaLimit = 4
    MaxLbas <- Addresses
    Failing = {hpaDisk}
    Misread = {1}
    Faults = {"setmax"}
INVARIANTS
    InvasiveAgreed
    CliListFresh
PROPERTIES
    ReachExplained
