---------------------------- MODULE MCWriteZeros ------------------------------
(* A device of ten sectors, written three sectors at a time, from every start *)
(* on the device, its end included.                                           *)
EXTENDS WriteZeros

StartsInside == 0 .. EndLba
=============================================================================
