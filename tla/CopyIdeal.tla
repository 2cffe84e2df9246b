------------------------------ MODULE CopyIdeal ------------------------------
(* What copying a device promises, whatever the order in which it is read,    *)
(* however often it is stopped and resumed: every sector has one fate, told   *)
(* once and for good, and "copied" is only told of a sector that was handed   *)
(* to a destination before.                                                   *)
EXTENDS Integers

CONSTANTS
    EndLba, SectorsAtOnce,
    Forgetful      \* TRUE where the power may fail, which makes fates unknown

VARIABLES
    fate,      \* of every sector: "unread", "copied" or "failed"
    handed     \* the sectors whose data a destination holds, or lost to a failure
               \* that nobody is told of

vars == <<fate, handed>>

Lba == 0 .. EndLba - 1
Blocks == {lba .. lba + n - 1 : lba \in Lba, n \in 1 .. SectorsAtOnce}

Init ==
    /\ fate = [s \in Lba |-> "unread"]
    /\ handed = {}

HandOver(block) ==
    /\ handed' = handed \cup block
    /\ UNCHANGED fate

Tell(block, f) ==
    /\ \A s \in block : fate[s] = "unread"
    /\ f = "copied" => block \subseteq handed
    /\ fate' = [s \in Lba |-> IF s \in block THEN f ELSE fate[s]]
    /\ UNCHANGED handed

Forget ==
    /\ Forgetful
    /\ fate' \in [Lba -> {"unread", "copied", "failed"}]
    /\ \A s \in Lba : fate'[s] \in {fate[s], "unread"}
    /\ UNCHANGED handed

Next ==
    \/ \E block \in Blocks :
          /\ block \subseteq Lba
          /\ HandOver(block) \/ \E f \in {"copied", "failed"} : Tell(block, f)
    \/ Forget

Spec == Init /\ [][Next]_vars
=============================================================================
