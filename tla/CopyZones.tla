------------------------------ MODULE CopyZones ------------------------------
(* The copy procedure's table of unread zones (libdevcheck/copy.h, the open   *)
(* handler of libdevcheck/copy.c and the read strategies) as operators on     *)
(* sets of zones, and the journal they are rebuilt from.                      *)
(*                                                                            *)
(* The code keeps the table as a linked list.  Every operation on it (the     *)
(* scan of the journal, a split, a removal) keeps the list in the order of    *)
(* the zones' addresses, and zones are disjoint and not empty, so a set of    *)
(* zones and the order of their first sectors says the same.                  *)
EXTENDS Integers, FiniteSets

CONSTANTS
    EndLba,            \* sectors of the source device (CopyPriv.end_lba)
    SectorsAtOnce,     \* SECTORS_AT_ONCE, 256 in the code
    IndivisibleZone,   \* INDIVISIBLE_DEFECT_ZONE_SIZE_SECTORS, 1000*1000
    MaxZones,          \* the 1000 of smart_get_task
    SkipBlocks,        \* the option skip_blocks, 5000 by default
    IntLimit           \* 2^31: an int holds -IntLimit .. IntLimit - 1

ASSUME SizeAssumption ==
    /\ EndLba \in Nat \ {0}
    /\ SectorsAtOnce \in Nat \ {0}
    /\ IndivisibleZone \in Nat
    /\ IndivisibleZone >= 2 * SectorsAtOnce
    /\ MaxZones \in Nat \ {0}
    /\ SkipBlocks \in Int
    /\ IntLimit \in Nat \ {0}

Lba == 0 .. EndLba - 1

(* The bytes of the journal file, one for each sector. *)
ErrorStatus == {"BlockReadError", "SectorReadError"}
SectorStatus == {"Unread", "ReadOk"} \cup ErrorStatus

Zone == [begin : Lba, end : 1 .. EndLba, bdef : BOOLEAN, edef : BOOLEAN]
NoZone == [begin |-> 0, end |-> 0, bdef |-> FALSE, edef |-> FALSE]

Length(z) == z.end - z.begin
Block(lba, n) == lba .. lba + n - 1
Sectors(z) == z.begin .. z.end - 1
Covered(zs) == UNION {Sectors(z) : z \in zs}

First(zs) == CHOOSE z \in zs : \A y \in zs : z.begin <= y.begin
IsLast(zs, z) == \A y \in zs : y.begin <= z.begin

(* find_largest_zone keeps the earliest of the longest zones. *)
LargestZone(zs) == First({z \in zs : \A y \in zs : Length(y) <= Length(z)})

Disjoint(y, z) == y.end <= z.begin \/ z.end <= y.begin
WellFormed(zs) ==
    /\ zs \subseteq Zone
    /\ \A z \in zs : z.begin < z.end
    /\ \A y, z \in zs : y # z => Disjoint(y, z)

-----------------------------------------------------------------------------
(* The zones the scan of a complete journal finds: the longest runs of unread *)
(* sectors, an end next to a failed sector marked defective.                  *)
UnreadSectors(j) == {s \in Lba : j[s] = "Unread"}

IsRun(j, b, e) ==
    /\ b < e
    /\ \A s \in b .. e - 1 : j[s] = "Unread"
    /\ b > 0 => j[b - 1] # "Unread"
    /\ e < EndLba => j[e] # "Unread"

RunZone(j, b, e) ==
    [begin |-> b, end |-> e,
     bdef |-> b > 0 /\ j[b - 1] \in ErrorStatus,
     edef |-> e < EndLba /\ j[e] \in ErrorStatus]

(* mutant: a run that reaches the end of the device is not closed *)
ParseWithoutTail(j) == {RunZone(j, p[1], p[2]) :
    p \in {q \in Lba \X (1 .. EndLba - 1) : IsRun(j, q[1], q[2])}}

Parse(j) == {RunZone(j, p[1], p[2]) :
                p \in {q \in Lba \X (1 .. EndLba) : IsRun(j, q[1], q[2])}}

(* The one zone of a run that has no journal to resume from. *)
WholeDevice == {[begin |-> 0, end |-> EndLba, bdef |-> FALSE, edef |-> FALSE]}

-----------------------------------------------------------------------------
(* A split keeps the outer flags; the two new ends are not defective. *)
Lower(z, m) == [begin |-> z.begin, end |-> m, bdef |-> z.bdef, edef |-> FALSE]
UpperKeepsFlag(z, m) == [z EXCEPT !.begin = m]      \* mutant
Upper(z, m) == [begin |-> m, end |-> z.end, bdef |-> FALSE, edef |-> z.edef]
Inside(z, m) == z.begin < m /\ m < z.end
Split(zs, z, m) == (zs \ {z}) \cup {Lower(z, m), Upper(z, m)}

AlignDown(lba) == lba - (lba % SectorsAtOnce)

MiddleOfLength(z) == AlignDown(Length(z) \div 2)       \* mutant
Middle(z) == AlignDown(z.begin + Length(z) \div 2)

(* skip_blocks is an int, and so is its product with SECTORS_AT_ONCE. *)
WrapInt(x) == ((x + IntLimit) % (2 * IntLimit)) - IntLimit
JumpSectors == WrapInt(SkipBlocks * SectorsAtOnce)
JumpTarget(z) == AlignDown(z.begin + JumpSectors)

(* What is left of a zone when n sectors of it were tried from one end. *)
Shrunk(z, reverse, n, failed) ==
    IF reverse
      THEN [begin |-> z.begin, end |-> z.end - n, bdef |-> z.bdef, edef |-> failed]
      ELSE [begin |-> z.begin + n, end |-> z.end, bdef |-> failed, edef |-> z.edef]

ReplacedByAny(zs, z, left) == (zs \ {z}) \cup {left}     \* mutant

(* A zone leaves the table when nothing is left of it. *)
Replaced(zs, z, left) ==
    IF left.begin = left.end THEN zs \ {z} ELSE (zs \ {z}) \cup {left}
=============================================================================
