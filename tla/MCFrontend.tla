----------------------------- MODULE MCFrontend -------------------------------
(* Devices of three sectors, of each of the three sorts, and commands whose   *)
(* addresses are taken modulo four.                                           *)
EXTENDS Frontend

CONSTANTS hpaDisk, plainDisk, usbStick

(* The name of the disk with a protected area begins the name of the stick.   *)
Prefixes ==
    [d \in Devices |-> IF d = hpaDisk THEN {usbStick} ELSE {}]

(* None, the first, the last, the one behind it and one that is cut to the     *)
(* second.                                                                    *)
Addresses == {-1, 0, NativeSize - 1, NativeSize, LbaLimit + 1}
=============================================================================
