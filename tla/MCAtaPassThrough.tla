-------------------------- MODULE MCAtaPassThrough ----------------------------
(* Bytes of two values.  The bytes are moved about whole: of the three        *)
(* addresses no two bytes are the same in all, so each shows where it goes.   *)
EXTENDS WholeSpaceCounters

TellBytesApart ==
    {OfBytes(<<1, 0, 1, 0, 1, 0>>), OfBytes(<<0, 1, 1, 0, 0, 1>>), OfBytes(<<0, 0, 0, 1, 1, 1>>)}
SomeCounts == {0, 1, Base}
=============================================================================
