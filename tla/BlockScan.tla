------------------------------ MODULE BlockScan ------------------------------
(* What a procedure that goes over the device block by block promises: from   *)
(* where it was told to start it tries every sector once, in order, and tells *)
(* of each block what the device answered.  It may be stopped at any block.   *)
EXTENDS Integers

CONSTANTS
    EndLba,           \* sectors of the device
    SectorsAtOnce     \* sectors of a block

VARIABLES
    phase,            \* "idle", "scan"
    next,             \* the first sector that was not tried
    fate,             \* what the device did at each sector
    told              \* what was told of it

vars == <<phase, next, fate, told>>

Lba == 0 .. EndLba - 1
Outcome == {"good", "bad"}
Untried == [s \in Lba |-> "untried"]
BlockSize(lba) == IF EndLba - lba < SectorsAtOnce THEN EndLba - lba ELSE SectorsAtOnce
Mark(f, lba, n, o) == [s \in Lba |-> IF lba <= s /\ s < lba + n THEN o ELSE f[s]]

Init ==
    /\ phase = "idle"
    /\ next = 0
    /\ fate = Untried /\ told = Untried

Begin ==
    /\ phase = "idle"
    /\ phase' = "scan"
    /\ next' \in 0 .. EndLba
    /\ fate' = Untried /\ told' = Untried

TryBlock ==
    /\ phase = "scan"
    /\ next < EndLba
    /\ next' = next + BlockSize(next)
    /\ \E o \in Outcome :
          /\ fate' = Mark(fate, next, BlockSize(next), o)
          /\ told' = Mark(told, next, BlockSize(next), o)
    /\ UNCHANGED phase

End ==
    /\ phase = "scan"
    /\ phase' = "idle"
    /\ UNCHANGED <<next, fate, told>>

Next == Begin \/ TryBlock \/ End

Spec == Init /\ [][Next]_vars
=============================================================================
