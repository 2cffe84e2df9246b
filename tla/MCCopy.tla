------------------------------- MODULE MCCopy --------------------------------
(* The copy procedure for TLC: every strategy with a destination device that  *)
(* is large enough, or one that is a sector short and a file beside it.       *)
EXTENDS Copy

AllStrategies == {"plain"} \cup SmartStrategies \cup SkipfailStrategies

DeviceAlone == [device |-> EndLba]
ShortDevice == [device |-> EndLba - 1, file |-> 0]

(* A power loss takes nothing, or what was not written back of the first half. *)
HalfLost == {{}, {s \in Lba : s < EndLba \div 2}}
=============================================================================
