----------------------------- MODULE MCReadTest -------------------------------
(* A device of ten sectors, tested three sectors at a time, from any start, *)
(* the device's end and one behind it included.                               *)
EXTENDS ReadTest

AnyStart == 0 .. EndLba + 1
=============================================================================
