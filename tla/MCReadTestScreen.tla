--------------------------- MODULE MCReadTestScreen ---------------------------
(* A device of ten sectors, tested three sectors at a time, from any start,   *)
(* the device's end and one behind it included; commands that are quick, just *)
(* at a limit of the legend, or take twenty seconds.                          *)
EXTENDS ReadTestScreen

AnyStart == 0 .. EndLba + 1
Times == {2999, 3000, 20000000}
=============================================================================
