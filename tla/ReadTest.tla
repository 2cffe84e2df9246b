------------------------------ MODULE ReadTest -------------------------------
(* The procedure read_test (libdevcheck/read_test.c), run by                  *)
(* dc_procedure_perform_loop.  With the api "ata" each block is verified by a *)
(* command that names its sectors; with "posix" it is read through a file     *)
(* descriptor that has a position of its own.  A block's verification may     *)
(* fail; Faults adds that the ioctl itself fails, and the device is not asked,*)
(* and that the kernel gives up a command without a failing ioctl.            *)
EXTENDS Integers

CONSTANTS
    EndLba,           \* sectors of the device, capacity / 512
    SectorsAtOnce,    \* SECTORS_AT_ONCE, 256 in the code
    Starts,           \* the values of the option start_lba
    Apis,             \* the values of the option api that the device can serve
    Faults            \* a subset of {"ioctl", "lost"}

ASSUME ReadTestAssumption ==
    /\ EndLba \in Nat
    /\ SectorsAtOnce \in Nat \ {0}
    /\ Starts \subseteq Nat
    /\ Apis \subseteq {"ata", "posix"}
    /\ Faults \subseteq {"ioctl", "lost"}

VARIABLES
    pc,               \* "closed", "loop", "closing"
    api,              \* api
    startLba,         \* start_lba
    currentLba,       \* current_lba
    lbaToProcess,     \* lba_to_process
    num, den,         \* progress
    stop,             \* perform returned an error
    interrupt,        \* ctx->interrupt
    position,         \* the descriptor's position, in sectors
    oldReadahead,     \* old_readahead
    readahead,        \* the device's readahead setting
    fate,             \* what the device did at each sector in this run; "lost"
                      \* where the kernel gave up the command
    told              \* what the reports said of it

run == <<api, startLba, den, oldReadahead>>
vars == <<pc, run, currentLba, lbaToProcess, num, stop, interrupt, position,
          readahead, fate, told>>

Lba == 0 .. EndLba - 1
Untried == [s \in Lba |-> "untried"]
Mark(f, lba, n, o) == [s \in Lba |-> IF lba <= s /\ s < lba + n THEN o ELSE f[s]]

(* mutant: the rest of the last block is forgotten *)
BlocksFloor(a) == a \div SectorsAtOnce

Blocks(a) == a \div SectorsAtOnce + (IF a % SectorsAtOnce # 0 THEN 1 ELSE 0)

Init ==
    /\ pc = "closed"
    /\ api \in Apis
    /\ startLba = 0 /\ currentLba = 0 /\ lbaToProcess = EndLba
    /\ num = 0 /\ den = 0
    /\ stop = FALSE /\ interrupt = FALSE
    /\ position = 0
    /\ oldReadahead = "on" /\ readahead = "on"
    /\ fate = Untried /\ told = Untried

-----------------------------------------------------------------------------
(* Open refuses a start at the device's end or behind it.                     *)
Open ==
    /\ pc = "closed"
    /\ pc' = "loop"
    /\ api' \in Apis
    /\ startLba' \in Starts
    /\ EndLba - startLba' > 0
    /\ currentLba' = startLba'
    /\ lbaToProcess' = EndLba - startLba'
    /\ num' = 0
    /\ den' = Blocks(EndLba - startLba')
    /\ stop' = FALSE /\ interrupt' = FALSE
    /\ position' = startLba'
    /\ oldReadahead' = readahead
    /\ readahead' = "off"
    /\ fate' = Untried /\ told' = Untried

LoopEnds ==
    /\ pc = "loop"
    /\ interrupt \/ stop \/ num >= den
    /\ pc' = "closing"
    /\ UNCHANGED <<run, currentLba, lbaToProcess, num, stop, interrupt, position,
                   readahead, fate, told>>

-----------------------------------------------------------------------------
Size == IF lbaToProcess < SectorsAtOnce THEN lbaToProcess ELSE SectorsAtOnce

(* mutant: the block's report counts, its sectors do not *)
AdvanceByBlock ==
    /\ pc = "loop" /\ ~interrupt /\ ~stop /\ num < den
    /\ num' = num + 1
    /\ lbaToProcess' = lbaToProcess - Size
    /\ currentLba' = currentLba + SectorsAtOnce
    /\ UNCHANGED <<pc, run, interrupt, readahead>>

(* What Perform does whatever the device answered. *)
Advance ==
    /\ pc = "loop" /\ ~interrupt /\ ~stop /\ num < den
    /\ num' = num + 1
    /\ lbaToProcess' = lbaToProcess - Size
    /\ currentLba' = currentLba + Size
    /\ UNCHANGED <<pc, run, interrupt, readahead>>

(* mutant: the report is filled in when current_lba has moved on *)
ReportedAfter(o) == told' = Mark(told, currentLba', Size, o)

(* The report that Perform fills in of the block. *)
Reported(o) == told' = Mark(told, currentLba, Size, o)

(* READ VERIFY EXT of the block. *)
Verify ==
    /\ api = "ata"
    /\ Advance
    /\ \E o \in {"good", "bad"} :
          /\ fate' = Mark(fate, currentLba, Size, o)
          /\ Reported(o)
    /\ UNCHANGED <<stop, position>>

(* The ioctl fails.  The report's status is first an error, and then what the *)
(* untouched command says, which is a success; the error is only returned.    *)
VerifyFails ==
    /\ "ioctl" \in Faults
    /\ api = "ata"
    /\ Advance
    /\ Reported("good")
    /\ stop' = TRUE
    /\ UNCHANGED <<position, fate>>

(* The kernel gives up the command, for a host or driver error: the ioctl     *)
(* returns 0 and the SCSI status, which alone is looked at, says it is fine.  *)
VerifyLost ==
    /\ "lost" \in Faults
    /\ api = "ata"
    /\ Advance
    /\ fate' = Mark(fate, currentLba, Size, "lost")
    /\ Reported("good")
    /\ UNCHANGED <<stop, position>>

(* read() of the block at the descriptor's position. *)
ReadDone ==
    /\ api = "posix"
    /\ Advance
    /\ fate' = Mark(fate, position, Size, "good")
    /\ Reported("good")
    /\ position' = position + Size
    /\ UNCHANGED stop

(* mutant: the position is not put right *)
ReadFailsNoSeek ==
    /\ api = "posix"
    /\ Advance
    /\ fate' = Mark(fate, position, Size, "bad")
    /\ Reported("bad")
    /\ \E k \in 0 .. Size - 1 : position' = position + k
    /\ UNCHANGED stop

(* It fails, or is short: the lseek goes to current_lba before that moves on. *)
ReadFails ==
    /\ api = "posix"
    /\ Advance
    /\ fate' = Mark(fate, position, Size, "bad")
    /\ Reported("bad")
    /\ position' = currentLba
    /\ UNCHANGED stop

Perform == Verify \/ VerifyFails \/ VerifyLost \/ ReadDone \/ ReadFails

Interrupt ==
    /\ pc = "loop"
    /\ ~interrupt
    /\ interrupt' = TRUE
    /\ UNCHANGED <<pc, run, currentLba, lbaToProcess, num, stop, position,
                   readahead, fate, told>>

(* mutant: the readahead stays off *)
CloseOnly ==
    /\ pc = "closing"
    /\ pc' = "closed"
    /\ UNCHANGED <<run, currentLba, lbaToProcess, num, stop, interrupt, position,
                   readahead, fate, told>>

Close ==
    /\ pc = "closing"
    /\ pc' = "closed"
    /\ readahead' = oldReadahead
    /\ UNCHANGED <<run, currentLba, lbaToProcess, num, stop, interrupt, position,
                   fate, told>>

Next == Open \/ LoopEnds \/ Perform \/ Interrupt \/ Close

Spec == Init /\ [][Next]_vars

-----------------------------------------------------------------------------
(* The loop's count of blocks, the sectors left and the next sector tell the  *)
(* same: the blocks run out exactly when the device does.                     *)
CountsAgree ==
    pc = "loop" =>
        /\ currentLba + lbaToProcess = EndLba
        /\ num < den <=> lbaToProcess > 0
        /\ num < den => currentLba = startLba + num * SectorsAtOnce

(* A run that nothing stopped told of every sector from its start to the      *)
(* device's end ("Verifies entire device with reading", read_test.c:182).     *)
(* With the api "ata" every run told of each sector what the device did       *)
(* there, but where it told "good" of a command the kernel gave up, or of the *)
(* block whose ioctl failed and stopped the run.                              *)
ToldAs(f) == IF f = "lost" THEN "good" ELSE f

InLastBlock(s) == s >= startLba + (num - 1) * SectorsAtOnce

AllTold ==
    pc = "closing" =>
        /\ ~interrupt /\ ~stop => \A s \in Lba : s >= startLba => told[s] # "untried"
        /\ api = "ata" =>
              \A s \in Lba : \/ told[s] = ToldAs(fate[s])
                             \/ stop /\ InLastBlock(s) /\ told[s] = "good"

(* Through a descriptor the read may be one block behind the report, never    *)
(* more, however many reads failed; and never ahead.                          *)
OneBlockBehind ==
    pc = "loop" /\ num < den /\ api = "posix" =>
        \/ position = currentLba
        \/ num > 0 /\ position = startLba + (num - 1) * SectorsAtOnce

(* A run leaves the device's readahead as it was. *)
ReadaheadRestored == pc = "closed" => readahead = "on"

(* After a failed read the descriptor stands at the block that is to be read  *)
(* next, as the comment before the lseek says (read_test.c:146).              *)
ReadsNextBlock == pc = "loop" /\ api = "posix" => position = currentLba
=============================================================================
