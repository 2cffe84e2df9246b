---------------------------- MODULE MCCopyScreen -----------------------------
(* The copy procedure's screen for TLC, under the strategies whose blocks     *)
(* keep to the display blocks: smart reads the end of the device backward,    *)
(* from an end that need not be one of a display block.                       *)
EXTENDS CopyScreen

AlignedStrategies == {"plain", "smart_noreverse"} \cup SkipfailStrategies
DeviceAlone == [device |-> EndLba]
=============================================================================
