----------------------------- MODULE ReportQueue -----------------------------
(* What the screen of a procedure promises: every block report handed to the  *)
(* renderer is shown once, in the order of the reports, and the renderer does *)
(* not end before the last one is.                                            *)
EXTENDS Naturals, Sequences

VARIABLES
    handed,     \* how many reports the procedure has handed over
    shown,      \* the reports shown, each by its number
    phase       \* "running", "closing", "closed"

Init ==
    /\ handed = 0
    /\ shown = << >>
    /\ phase = "running"

HandOver ==
    /\ phase = "running"
    /\ handed' = handed + 1
    /\ UNCHANGED <<shown, phase>>

Show ==
    /\ Len(shown) < handed
    /\ shown' = Append(shown, Len(shown) + 1)
    /\ UNCHANGED <<handed, phase>>

StopAsked ==
    /\ phase = "running"
    /\ phase' = "closing"
    /\ UNCHANGED <<handed, shown>>

End ==
    /\ phase = "closing"
    /\ Len(shown) = handed
    /\ phase' = "closed"
    /\ UNCHANGED <<handed, shown>>

Next == HandOver \/ Show \/ StopAsked \/ End

Spec == Init /\ [][Next]_<<handed, shown, phase>>
=============================================================================
