----------------------------- MODULE WriteZeros ------------------------------
(* The procedure posix_write_zeros (libdevcheck/posix_write_zeros.c), run by  *)
(* dc_procedure_perform_loop: it writes zeros block by block through a file   *)
(* descriptor whose position it has to put right after a failed write.  The   *)
(* device answers each write in full, or in part with an error; the position  *)
(* then follows what was written.                                             *)
EXTENDS Integers

CONSTANTS
    EndLba,           \* sectors of the device, capacity / 512
    SectorsAtOnce,    \* SECTORS_AT_ONCE, 256 in the code
    Starts,           \* the values of the option start_lba
    UintLimit         \* 2^64: an unsigned progress.den holds 0 .. UintLimit - 1

ASSUME WriteZerosAssumption ==
    /\ EndLba \in Nat
    /\ SectorsAtOnce \in Nat \ {0}
    /\ Starts \subseteq Int
    /\ UintLimit \in Nat \ {0}

VARIABLES
    pc,               \* "closed", "loop", "closing"
    startLba,         \* start_lba
    toProcess,        \* lba_to_process
    blkIndex,         \* blk_index
    position,         \* the descriptor's position, in sectors
    num, den,         \* progress
    interrupt,        \* ctx->interrupt
    fate,             \* what the device did at each sector in this run
    told              \* what the reports said of it

vars == <<pc, startLba, toProcess, blkIndex, position, num, den, interrupt,
          fate, told>>

Lba == 0 .. EndLba - 1
Untried == [s \in Lba |-> "untried"]
Mark(f, lba, n, o) == [s \in Lba |-> IF lba <= s /\ s < lba + n THEN o ELSE f[s]]

(* C divides towards zero, and an unsigned counter takes what comes of it.    *)
Quotient(a) == IF a >= 0 THEN a \div SectorsAtOnce ELSE -((-a) \div SectorsAtOnce)
HasRest(a) == (IF a >= 0 THEN a ELSE -a) % SectorsAtOnce # 0

(* mutant: the rest of the last block is forgotten *)
BlocksFloor(a) == Quotient(a) % UintLimit

Blocks(a) == (Quotient(a) + (IF HasRest(a) THEN 1 ELSE 0)) % UintLimit

Init ==
    /\ pc = "closed"
    /\ startLba = 0 /\ toProcess = EndLba /\ blkIndex = 0
    /\ position = 0
    /\ num = 0 /\ den = 0
    /\ interrupt = FALSE
    /\ fate = Untried /\ told = Untried

-----------------------------------------------------------------------------
(* Open.  An lseek before the device's first sector fails and leaves the      *)
(* position at 0; start_lba is not compared with the device's end.            *)
Open ==
    /\ pc = "closed"
    /\ pc' = "loop"
    /\ startLba' \in Starts
    /\ toProcess' = EndLba - startLba'
    /\ blkIndex' = 0
    /\ num' = 0
    /\ den' = Blocks(EndLba - startLba')
    /\ position' = IF startLba' < 0 THEN 0 ELSE startLba'
    /\ interrupt' = FALSE
    /\ fate' = Untried /\ told' = Untried

(* mutant: the loop looks at the interrupt only *)
LoopUntilInterrupted ==
    /\ pc = "loop"
    /\ interrupt
    /\ pc' = "closing"
    /\ UNCHANGED <<startLba, toProcess, blkIndex, position, num, den, interrupt>>
    /\ UNCHANGED <<fate, told>>

LoopEnds ==
    /\ pc = "loop"
    /\ interrupt \/ num >= den
    /\ pc' = "closing"
    /\ UNCHANGED <<startLba, toProcess, blkIndex, position, num, den, interrupt>>
    /\ UNCHANGED <<fate, told>>

(* sectors_to_write; a negative lba_to_process makes a size the kernel        *)
(* refuses.                                                                   *)
Size == IF toProcess < SectorsAtOnce THEN toProcess ELSE SectorsAtOnce

(* What a write of Size sectors at the descriptor's position may come to.     *)
CanWriteAll == Size = 0 \/ (Size > 0 /\ position + Size <= EndLba)
Partial == {k \in 0 .. SectorsAtOnce : k < Size /\ position + k <= EndLba} \cup {0}

(* mutant: back to the start of the block that failed *)
NextBlockSame == startLba + SectorsAtOnce * blkIndex

(* The position the failed write is followed by an lseek to. *)
NextBlock == startLba + SectorsAtOnce * (blkIndex + 1)

(* Perform and the loop's callback.                                           *)
Performed(o) ==
    /\ pc = "loop" /\ ~interrupt /\ num < den
    /\ blkIndex' = blkIndex + 1
    /\ num' = num + 1
    /\ toProcess' = toProcess - Size
    /\ fate' = Mark(fate, position, Size, o)
    /\ told' = Mark(told, startLba + SectorsAtOnce * blkIndex, Size, o)
    /\ UNCHANGED <<pc, startLba, den, interrupt>>

WriteDone ==
    /\ CanWriteAll
    /\ Performed("good")
    /\ position' = position + Size

WriteFails ==
    /\ Size # 0
    /\ Performed("bad")
    /\ \E k \in Partial :
          position' = IF NextBlock < 0 THEN position + k ELSE NextBlock

Perform == WriteDone \/ WriteFails

Interrupt ==
    /\ pc = "loop"
    /\ ~interrupt
    /\ interrupt' = TRUE
    /\ UNCHANGED <<pc, startLba, toProcess, blkIndex, position, num, den>>
    /\ UNCHANGED <<fate, told>>

Close ==
    /\ pc = "closing"
    /\ pc' = "closed"
    /\ UNCHANGED <<startLba, toProcess, blkIndex, position, num, den, interrupt>>
    /\ UNCHANGED <<fate, told>>

Next == Open \/ LoopEnds \/ Perform \/ Interrupt \/ Close

Spec == Init /\ [][Next]_vars

(* The procedure's thread is scheduled and each write returns. *)
FairSpec == Spec /\ WF_vars(LoopEnds \/ Perform \/ Close)

-----------------------------------------------------------------------------
(* Types of the variables, with the count of blocks within its total.         *)
TypeOK ==
    /\ pc \in {"closed", "loop", "closing"}
    /\ startLba \in Int /\ toProcess \in Int /\ position \in Nat
    /\ den \in 0 .. UintLimit - 1 /\ num \in 0 .. den
    /\ blkIndex \in Nat
    /\ interrupt \in BOOLEAN
    /\ fate \in [Lba -> {"untried", "good", "bad"}]
    /\ told \in [Lba -> {"untried", "good", "bad"}]

(* While there is something to write the descriptor stands where the next     *)
(* report will say, whatever failed before; and the loop's count of blocks    *)
(* ends with the device.                                                      *)
InStep ==
    pc = "loop" =>
        /\ toProcess > 0 => /\ position = startLba + SectorsAtOnce * blkIndex
                            /\ position = EndLba - toProcess
        /\ num < den <=> toProcess > 0

(* A run that was not interrupted told of every sector from its start to the  *)
(* device's end.                                                              *)
AllTold ==
    pc = "closing" /\ ~interrupt =>
        \A s \in Lba : s >= startLba => told[s] # "untried"

(* Every run ends. *)
RunEnds == pc = "loop" ~> pc = "closed"

Scan == INSTANCE BlockScan WITH
    phase <- IF pc = "closed" THEN "idle" ELSE "scan",
    next <- EndLba - toProcess

(* Whatever fails, the sector that is written is the one that is reported:    *)
(* the procedure implements BlockScan.                                        *)
ScanSpec == Scan!Spec
=============================================================================
