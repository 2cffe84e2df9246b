---------------------------- MODULE AtaPassThrough ---------------------------
(* One ATA command after another: prepare_ata_command (libdevcheck/ata.c)     *)
(* splits its address and count over the task's ports, scsi.c moves them into *)
(* a SCSI command and makes a block status of the answer.  What the device    *)
(* and the kernel do in between is external: it follows the layout of ATA     *)
(* PASS-THROUGH (16).                                                         *)
EXTENDS Integers

CONSTANTS
    Base,             \* values of a byte, 256 in the code
    Addresses,        \* the addresses that are asked for
    Counts,           \* the counts of sectors that are asked for
    Formats,          \* a subset of {"descriptor", "fixed"}: of the sense data
    Faults            \* {"host timeout"} when the kernel may give up a command

(* Values of the six bytes of an address and of the two of a count. *)
AddressLimit == Base * (Base * (Base * (Base * (Base * Base))))
CountLimit == Base * Base

ASSUME AtaPassThroughAssumption ==
    /\ Base \in Nat \ {0, 1}
    /\ Addresses \subseteq 0 .. AddressLimit - 1
    /\ Counts \subseteq 0 .. CountLimit - 1
    /\ Formats \subseteq {"descriptor", "fixed"}
    /\ Faults \subseteq {"host timeout"}

VARIABLES
    phase,            \* "idle", "sent", "answered"
    lba, count,       \* what was asked for
    ckCond,           \* the CK_COND bit of its byte 2
    cdb,              \* bytes 5 to 12 of the SCSI command
    truth,            \* what came of the command at the device
    answer,           \* sg_io_hdr and sense data
    status            \* blk_status

vars == <<phase, lba, count, ckCond, cdb, truth, answer, status>>

(* DC_BlockStatus *)
eOk == 0
eError == 1
eTimeout == 2
eUnc == 3
eIdnf == 4
eAbrt == 5
eAmnf == 6

(* The six low bytes of a number, the lowest first, and the number they make. *)
Bytes(n) ==
    LET n1 == n \div Base
        n2 == n1 \div Base
        n3 == n2 \div Base
        n4 == n3 \div Base
        n5 == n4 \div Base
    IN  <<n % Base, n1 % Base, n2 % Base, n3 % Base, n4 % Base, n5 % Base>>

OfBytes(b) == b[1] + Base * (b[2] + Base * (b[3] + Base * (b[4] + Base * (b[5] + Base * b[6]))))

-----------------------------------------------------------------------------
(* The ports of a 48-bit command: the low halves in io_ports, the high ones   *)
(* in hob_ports.                                                              *)
AtaCommand(address, n) ==
    LET a == Bytes(address) IN
    [io  |-> [sectorCount |-> n % Base,
              sectorNumber |-> a[1], lowCylinder |-> a[2], highCylinder |-> a[3]],
     hob |-> [sectorCount |-> (n \div Base) % Base,
              sectorNumber |-> a[4], lowCylinder |-> a[5], highCylinder |-> a[6]]]

(* prepare_scsi_command_from_ata, bytes 5 to 12. *)
ScsiCommand(ata) ==
    <<ata.hob.sectorCount, ata.io.sectorCount, ata.hob.sectorNumber, ata.io.sectorNumber,
      ata.hob.lowCylinder, ata.io.lowCylinder, ata.hob.highCylinder, ata.io.highCylinder>>

(* What the device takes from these bytes; a count of 0 is the largest one.   *)
DeviceCount(c) == IF c[1] = 0 /\ c[2] = 0 THEN CountLimit ELSE Base * c[1] + c[2]
DeviceLba(c) == OfBytes(<<c[4], c[6], c[8], c[3], c[5], c[7]>>)

(* The address in a return descriptor, bytes 6 to 11, as the device puts it   *)
(* and as fill_scsi_ata_return_descriptor reads it.                           *)
ReturnedBytes(address) ==
    LET a == Bytes(address) IN <<a[4], a[1], a[5], a[2], a[6], a[3]>>

(* mutant: the bytes are taken in order *)
ReturnedLbaInOrder(b) == OfBytes(b)
ReturnedLba(b) == OfBytes(<<b[2], b[4], b[6], b[1], b[3], b[5]>>)

-----------------------------------------------------------------------------
(* The answers that the device and the kernel give for what happened: the     *)
(* SCSI status, the sense key, the bits of ATA status and error, the address, *)
(* and whether the command took longer than its timeout.                      *)
Truths == {"done", "slow", "unc", "idnf", "abrt", "amnf", "err", "df", "busy"}
ErrorBit == [unc |-> "UNC", idnf |-> "IDNF", abrt |-> "ABRT", amnf |-> "AMNF", err |-> "MC"]
SenseKey == [done |-> 1, slow |-> 1, unc |-> 3, idnf |-> 5, abrt |-> 11, amnf |-> 3,
             err |-> 4, df |-> 4]
CheckCondition == 2

(* An answer without sense data. *)
Silent(scsiStatus, late) ==
    [scsiStatus |-> scsiStatus, format |-> "none", key |-> 0, ata |-> {}, error |-> {},
     lba |-> ReturnedBytes(0), late |-> late]

(* With the bit CK_COND a command that was done has sense data too.           *)
Answer(t, format) ==
    IF t = "busy" THEN Silent(8, FALSE)
    ELSE IF t \in {"done", "slow"} /\ ~ckCond THEN Silent(0, t = "slow")
    ELSE [scsiStatus |-> CheckCondition, format |-> format, key |-> SenseKey[t],
          ata |-> (IF t \in DOMAIN ErrorBit THEN {"ERR"} ELSE {})
                      \cup (IF t = "df" THEN {"DF"} ELSE {}),
          error |-> IF t \in DOMAIN ErrorBit THEN {ErrorBit[t]} ELSE {},
          lba |-> ReturnedBytes(lba), late |-> t = "slow"]

(* The kernel gave up: the device's status is 0 and the host's is not.        *)
GivenUp == Silent(0, TRUE)

(* get_sense_key_from_sense_buffer knows both formats.                        *)
SenseKeyOf(a) == IF a.format \in {"descriptor", "fixed"} THEN a.key ELSE -1

(* fill_scsi_ata_return_descriptor knows one: in fixed sense data the bytes   *)
(* where it looks for status and address hold neither, and are 0.             *)
AtaReturn(a) ==
    IF a.format = "descriptor"
    THEN [status |-> a.ata, error |-> a.error, lba |-> ReturnedLba(a.lba)]
    ELSE [status |-> {}, error |-> {}, lba |-> 0]

(* mutant: the sense key goes before the registers *)
CheckKeyFirst(a) ==
    IF a.scsiStatus = 0 THEN eOk
    ELSE IF a.scsiStatus # CheckCondition THEN eError
    ELSE IF SenseKeyOf(a) > 1 THEN (IF SenseKeyOf(a) = 11 THEN eAbrt ELSE eError)
    ELSE IF a.late THEN eTimeout
    ELSE eOk

(* scsi_ata_check_return_status. *)
CheckReturnStatus(a) ==
    LET r == AtaReturn(a) IN
    IF a.scsiStatus = 0 THEN eOk
    ELSE IF a.scsiStatus # CheckCondition THEN eError
    ELSE IF "ERR" \in r.status
    THEN IF "UNC" \in r.error THEN eUnc
         ELSE IF "IDNF" \in r.error THEN eIdnf
         ELSE IF "ABRT" \in r.error THEN eAbrt
         ELSE IF "AMNF" \in r.error THEN eAmnf
         ELSE eError
    ELSE IF "DF" \in r.status THEN eError
    ELSE IF SenseKeyOf(a) > 1 THEN (IF SenseKeyOf(a) = 11 THEN eAbrt ELSE eError)
    ELSE IF a.late THEN eTimeout
    ELSE eOk

-----------------------------------------------------------------------------
Init ==
    /\ phase = "idle"
    /\ lba = 0 /\ count = 0 /\ ckCond = TRUE
    /\ cdb = ScsiCommand(AtaCommand(0, 0))
    /\ truth = "done"
    /\ answer = GivenUp
    /\ status = eOk

(* copy clears the bit, the other procedures leave it set.                    *)
Send ==
    /\ phase = "idle"
    /\ phase' = "sent"
    /\ lba' \in Addresses
    /\ count' \in Counts
    /\ ckCond' \in BOOLEAN
    /\ cdb' = ScsiCommand(AtaCommand(lba', count'))
    /\ UNCHANGED <<truth, answer, status>>

(* The device does the command; the procedure makes a status of the answer.   *)
Answered ==
    /\ phase = "sent"
    /\ phase' = "answered"
    /\ \E t \in Truths, f \in Formats :
          /\ truth' = t
          /\ answer' = Answer(t, f)
    /\ status' = CheckReturnStatus(answer')
    /\ UNCHANGED <<lba, count, ckCond, cdb>>

NotAnswered ==
    /\ phase = "sent"
    /\ "host timeout" \in Faults
    /\ phase' = "answered"
    /\ truth' = "lost"
    /\ answer' = GivenUp
    /\ status' = CheckReturnStatus(GivenUp)
    /\ UNCHANGED <<lba, count, ckCond, cdb>>

(* The status is reported, if the command was for a block, and the next       *)
(* command may follow.                                                        *)
Done ==
    /\ phase = "answered"
    /\ phase' = "idle"
    /\ UNCHANGED <<lba, count, ckCond, cdb, truth, answer, status>>

Next == Send \/ Answered \/ NotAnswered \/ Done

Spec == Init /\ [][Next]_vars

-----------------------------------------------------------------------------
(* The device is asked for the address and count that the procedure meant,    *)
(* and the address that is read out of a descriptor is the one the device put *)
(* there.                                                                     *)
AddressCarried ==
    /\ phase = "sent" =>
          DeviceLba(cdb) = lba /\ DeviceCount(cdb) = (IF count = 0 THEN CountLimit ELSE count)
    /\ phase = "answered" /\ answer.format = "descriptor" => AtaReturn(answer).lba = lba

Named == [done |-> eOk, slow |-> eTimeout, unc |-> eUnc, idnf |-> eIdnf, abrt |-> eAbrt,
          amnf |-> eAmnf, err |-> eError, df |-> eError, busy |-> eError]

(* A command that the device answered is told as done exactly when it was,    *)
(* whichever format the sense data has; and in descriptor format each kind of *)
(* failure is told by its name in the legend (vis.c:60-82).  That a command   *)
(* was done late is only told with the bit CK_COND, so never of a copy's.     *)
DefectsTold ==
    phase = "answered" /\ truth # "lost" =>
        IF truth = "slow" /\ ~ckCond
          THEN status = eOk
          ELSE /\ status = eOk <=> truth = "done"
               /\ answer.format # "fixed" => status = Named[truth]
=============================================================================
