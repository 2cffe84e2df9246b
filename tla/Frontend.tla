------------------------------- MODULE Frontend ------------------------------
(* The menus of whdd (cui/main.c) and whdd-cli (cli/main.c): the list of      *)
(* devices (libdevcheck.c, utils.c), the choice of a device and a procedure,  *)
(* the questions before an invasive one, and the opening of the procedure.    *)
(* hpa_set does its whole work when it is opened, with two commands that      *)
(* change how far the device reaches; the others run and come back.  Devices  *)
(* are mounted and unmounted meanwhile, and the program may die at any point. *)
EXTENDS Integers

CONSTANTS
    Programs,         \* a subset of {"cui", "cli"}
    Devices,
    Ata,              \* the disks among them, which answer IDENTIFY
    Hpa,              \* those of them that have the host protected area
    LongerNames,      \* the devices whose name begins with a device's name
    Mountable,        \* bound: the devices that somebody mounts
    NativeSize,       \* sectors of a device
    LbaLimit,         \* 2^48 in the code: what a command's six bytes can say
    MaxLbas,          \* what the user may enter as max_lba
    Failing,          \* the disks that may fail a command the list asks them
    Misread,          \* the capacities that such a command is read as
    Faults            \* {"setmax"} when a device may refuse to SET MAX

ASSUME FrontendAssumption ==
    /\ Programs \subseteq {"cui", "cli"}
    /\ Hpa \subseteq Ata /\ Ata \subseteq Devices
    /\ LongerNames \in [Devices -> SUBSET Devices]
    /\ Mountable \subseteq Devices
    /\ LbaLimit \in Nat \ {0}
    /\ NativeSize \in 1 .. LbaLimit
    /\ MaxLbas \subseteq Int
    /\ Failing \subseteq Ata
    /\ Misread \subseteq 0 .. LbaLimit
    /\ Faults \subseteq {"setmax"}

VARIABLES
    program,
    at,               \* what the program does next
    size,             \* sectors a device lets be reached
    mounted,          \* the devices that are mounted
    entries,          \* the device list: what was found of each device
    unknown,          \* the disks that failed a command it asked them
    dev, proc,        \* chosen_dev and act
    maxLba,           \* the option max_lba
    yes               \* the questions the user said yes to since the choice

world == <<size, mounted>>
list == <<entries, unknown>>
vars == <<program, at, world, list, dev, proc, maxLba, yes>>

Procedures == {"hpa_set", "posix_write_zeros", "copy", "read_test", "smart_show"}
Invasive(p) == p \in {"hpa_set", "posix_write_zeros"}
RequiresAta(p) == p = "hpa_set"
HasPerform(p) == p \notin {"hpa_set", "smart_show"}

(* dev_list_build: /proc/partitions counts pairs of sectors. *)
PartitionsCapacity(d) == 2 * (size[d] \div 2)

(* A line of /etc/mtab that begins with the device's path is about one of its *)
(* partitions, or about a device with a longer name.                          *)
FoundMounted(d) == mounted \cap ({d} \cup LongerNames[d]) # {}

Entry(d, ata, capacity, native) ==
    [ata |-> ata, capacity |-> capacity, native |-> native, mounted |-> FoundMounted(d)]

Unidentified(d) == Entry(d, FALSE, PartitionsCapacity(d), 0)

(* IDENTIFY is asked for twice, to see that the device is a disk and for its  *)
(* capacity.  When the second fails, what /proc/partitions has stays; when it *)
(* never came, the capacity is made of a buffer that nothing was put into.    *)
CapacityRead(d, failed) ==
    {size[d]} \cup (IF d \in failed THEN {PartitionsCapacity(d)} \cup Misread ELSE {})

(* READ NATIVE MAX gives the address the answer holds, without a look at its  *)
(* status: one that reports an error, or that never came, is read as whatever *)
(* it holds, 0 as a rule, which makes a capacity of 1 sector.  When the ioctl *)
(* fails the capacity stays 0.  A disk that does not know the command fails   *)
(* it each time.                                                              *)
NativeRead(d, failed) ==
    (IF d \in Hpa THEN {NativeSize} ELSE {})
        \cup (IF d \in Hpa \ failed THEN {} ELSE {0} \cup Misread)

Capacities(failed) ==
    {c \in [Ata -> Misread \cup (0 .. NativeSize)] :
        \A d \in Ata : c[d] \in CapacityRead(d, failed)}

Natives(failed) ==
    {n \in [Ata -> Misread \cup {0, NativeSize}] :
        \A d \in Ata : n[d] \in NativeRead(d, failed)}

(* dev_list_fill_info; the disks in blind failed the first IDENTIFY. *)
Listed(blind, capacity, native) ==
    [d \in Devices |-> IF d \in Ata \ blind
                         THEN Entry(d, TRUE, capacity[d], native[d])
                         ELSE Unidentified(d)]

Init ==
    /\ program \in Programs
    /\ at = "list"
    /\ size = [d \in Devices |-> NativeSize]
    /\ mounted = {}
    /\ entries = [d \in Devices |-> Unidentified(d)] /\ unknown = Ata
    /\ dev \in Devices /\ proc = "smart_show"
    /\ maxLba = 0
    /\ yes = {}

-----------------------------------------------------------------------------
(* dc_dev_list.  whdd calls it once, whdd-cli each time it asks for a device. *)
List ==
    /\ at = "list"
    /\ at' = "menu"
    /\ unknown' \in SUBSET Failing
    /\ \E blind \in SUBSET unknown', c \in Capacities(unknown'), n \in Natives(unknown') :
          entries' = Listed(blind, c, n)
    /\ UNCHANGED <<program, world, dev, proc, maxLba, yes>>

(* mutant: the list is kept *)
BackToMenu == "menu"

(* The head of the loop over the menus. *)
Back == IF program = "cui" THEN "menu" ELSE "list"

ChooseDevice ==
    /\ at = "menu"
    /\ at' = "procedure"
    /\ dev' \in Devices
    /\ yes' = {}
    /\ UNCHANGED <<program, world, list, proc, maxLba>>

Quit ==
    /\ at = "menu" \/ (program = "cli" /\ at = "procedure")
    /\ at' = "exit"
    /\ UNCHANGED <<program, world, list, dev, proc, maxLba, yes>>

(* whdd's menu has no procedure that the device cannot take. *)
Offered(p) == RequiresAta(p) => program = "cli" \/ entries[dev].ata

ChooseProcedure ==
    /\ at = "procedure"
    /\ \E p \in Procedures :
          /\ Offered(p)
          /\ proc' = p
          /\ at' = IF Invasive(p) THEN "sure" ELSE "options"
    /\ UNCHANGED <<program, world, list, dev, maxLba, yes>>

(* mutant: any answer will do *)
SureAnyAnswer ==
    /\ at = "sure"
    /\ \E answer \in {{}, {"sure"}} :
          /\ yes' = yes \cup answer
          /\ at' = IF entries[dev].mounted THEN "surer" ELSE "options"
    /\ UNCHANGED <<program, world, list, dev, proc, maxLba>>

(* "This operation is invasive" *)
Sure ==
    /\ at = "sure"
    /\ yes' = yes \cup {"sure"}
    /\ at' = IF entries[dev].mounted THEN "surer" ELSE "options"
    /\ UNCHANGED <<program, world, list, dev, proc, maxLba>>

(* "This disk is mounted" *)
Surer ==
    /\ at = "surer"
    /\ yes' = yes \cup {"surer"}
    /\ at' = "options"
    /\ UNCHANGED <<program, world, list, dev, proc, maxLba>>

(* An answer that is not yes, a cancelled option, one that is no number and a *)
(* procedure that its Open refuses all lead back.                             *)
GoBack ==
    /\ \/ at \in {"sure", "surer", "options", "open"}
       \/ at = "procedure" /\ program = "cui"
    /\ at' = Back
    /\ UNCHANGED <<program, world, list, dev, proc, maxLba, yes>>

(* hpa_set has one option, an address; all of the device is suggested.        *)
Suggested == entries[dev].native - 1

(* ask_option_value: a value that ~/.whddrc has, one that is typed, or the    *)
(* suggestion when nothing is.                                                *)
Answers == IF proc = "hpa_set" THEN MaxLbas \cup {Suggested} ELSE {maxLba}

AnswerOptions ==
    /\ at = "options"
    /\ at' = "open"
    /\ maxLba' \in Answers
    /\ UNCHANGED <<program, world, list, dev, proc, yes>>

(* dc_procedure_open; smart_show does its work there and performs nothing.    *)
Open ==
    /\ at = "open"
    /\ at' = IF proc = "hpa_set" THEN "unlock"
             ELSE IF HasPerform(proc) THEN "perform" ELSE Back
    /\ UNCHANGED <<program, world, list, dev, proc, maxLba, yes>>

(* What the command says of an address: its low six bytes.                    *)
Sent(lba) == lba % LbaLimit

(* A device takes an address it has, if it knows the command and does not     *)
(* refuse it.                                                                 *)
Accepts(lba) == dev \in Hpa /\ lba < NativeSize

(* dc_dev_set_max_lba                                                         *)
SetMax(lba) ==
    \/ Accepts(Sent(lba)) /\ size' = [size EXCEPT ![dev] = Sent(lba) + 1]
    \/ (~Accepts(Sent(lba)) \/ "setmax" \in Faults) /\ UNCHANGED size

(* hpa_set's Open: the whole device first, *)
Unlock ==
    /\ at = "unlock"
    /\ at' = "limit"
    /\ SetMax(entries[dev].native - 1)
    /\ UNCHANGED <<program, mounted, list, dev, proc, maxLba, yes>>

(* mutant: the address is taken for a count *)
LimitByCount ==
    /\ at = "limit"
    /\ at' = Back
    /\ SetMax(maxLba - 1)
    /\ UNCHANGED <<program, mounted, list, dev, proc, maxLba, yes>>

(* and then what was asked for; that it failed is logged only. *)
Limit ==
    /\ at = "limit"
    /\ at' = Back
    /\ SetMax(maxLba)
    /\ UNCHANGED <<program, mounted, list, dev, proc, maxLba, yes>>

(* The run of a procedure that has one (module Session). *)
Run ==
    /\ at = "perform"
    /\ at' = Back
    /\ UNCHANGED <<program, world, list, dev, proc, maxLba, yes>>

(* The program is killed, or the user starts it again. *)
Die ==
    /\ at # "exit"
    /\ at' = "exit"
    /\ UNCHANGED <<program, world, list, dev, proc, maxLba, yes>>

Start ==
    /\ at = "exit"
    /\ at' = "list"
    /\ program' \in Programs
    /\ UNCHANGED <<world, list, dev, proc, maxLba, yes>>

(* Somebody mounts or unmounts a device. *)
Mount ==
    /\ \E d \in Mountable :
          mounted' = IF d \in mounted THEN mounted \ {d} ELSE mounted \cup {d}
    /\ UNCHANGED <<program, at, size, list, dev, proc, maxLba, yes>>

Next ==
    \/ List \/ ChooseDevice \/ Quit \/ ChooseProcedure \/ Sure \/ Surer \/ GoBack
    \/ AnswerOptions \/ Open \/ Unlock \/ Limit \/ Run \/ Die \/ Start \/ Mount

Spec == Init /\ [][Next]_vars

-----------------------------------------------------------------------------
(* "HPA enabled" (ui_mutual.c:21) *)
Warned(d) ==
    entries[d].ata /\ entries[d].native > 0 /\ entries[d].native # entries[d].capacity

Working == at \in {"unlock", "limit", "perform"}

(* Nothing invasive begins on a device without the user's yes given for it,   *)
(* a second one if the list has it as mounted.                                *)
InvasiveAgreed ==
    Working /\ Invasive(proc) =>
        "sure" \in yes /\ (entries[dev].mounted => "surer" \in yes)

(* A device reaches further or less far only by an hpa_set that was agreed to *)
(* for that device, and then to all it has or to the address that was asked,  *)
(* of which the device was told the low six bytes.  If the device failed a    *)
(* command that the list was built from, hpa_set's first step makes what was  *)
(* read for the native capacity its reach.                                    *)
ReachExplained ==
    [][\A d \in Devices : size'[d] # size[d] =>
          /\ d = dev /\ proc = "hpa_set" /\ "sure" \in yes
          /\ \/ size'[d] \in {NativeSize, Sent(maxLba) + 1}
             \/ at = "unlock" /\ d \in unknown /\ size'[d] = entries[d].native]_vars

(* whdd-cli chooses from a list that shows how far a device reaches, and that *)
(* says "HPA enabled" of a device with a host protected area exactly when it  *)
(* keeps sectors back, after any sequence of changes; unless the device       *)
(* failed a command that the list was built from.                             *)
CliListFresh ==
    at = "menu" /\ program = "cli" =>
        /\ \A d \in Ata \ unknown : entries[d].capacity = size[d]
        /\ \A d \in Hpa \ unknown : Warned(d) <=> size[d] < NativeSize
=============================================================================
