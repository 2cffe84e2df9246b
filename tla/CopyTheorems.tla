---------------------------- MODULE CopyTheorems -----------------------------
(* Theorems about Copy for every device, block, zone and destination size:    *)
(* lemmas on the table of zones, the inductive invariant and what follows     *)
(* from it; then what the strategies choose, why a run stops and what it      *)
(* leaves in its destinations, whatever calls fail, processes die or power is *)
(* lost.                                                                      *)
EXTENDS Copy, FiniteSetTheorems, TLAPS

(* A set of naturals that is not empty has a least element. *)
LEMMA LeastNat ==
  ASSUME NEW S \in SUBSET Nat, S # {}
  PROVE  \E m \in S : \A n \in S : m <= n
<1>1. PICK m \in S : \A n \in S : ~ (<<n, m>> \in OpToRel(<, Nat))
  BY NatLessThanWellFounded, WFMin
<1>2. \A n \in S : ~ (n < m)
  BY <1>1 DEF OpToRel
<1>. QED
  BY <1>2

(* A bounded set of naturals that is not empty has a greatest element. *)
LEMMA GreatestNat ==
  ASSUME NEW S \in SUBSET Nat, S # {}, NEW b \in Nat, \A n \in S : n <= b
  PROVE  \E m \in S : \A n \in S : n <= m
<1>. DEFINE T == {n \in 0 .. b : b - n \in S}
<1>1. T \in SUBSET Nat
  OBVIOUS
<1>2. T # {}
  <2>1. PICK n \in S : TRUE
    OBVIOUS
  <2>2. b - n \in T
    BY <2>1
  <2>. QED
    BY <2>2
<1>3. PICK m \in T : \A n \in T : m <= n
  BY <1>1, <1>2, LeastNat
<1>4. b - m \in S
  OBVIOUS
<1>5. \A n \in S : n <= b - m
  <2>. TAKE n \in S
  <2>1. b - n \in T
    OBVIOUS
  <2>2. m <= b - n
    BY <2>1, <1>3
  <2>3. m \in Int /\ n \in Int /\ b \in Int
    BY <1>1
  <2>. HIDE DEF T
  <2>. QED
    BY <2>2, <2>3
<1>. QED
  BY <1>4, <1>5

-----------------------------------------------------------------------------
(* The head of a list of zones is a zone of the list. *)
LEMMA FirstIsFirst ==
  ASSUME NEW zs \in SUBSET Zone, zs # {}
  PROVE  First(zs) \in zs /\ \A y \in zs : First(zs).begin <= y.begin
<1>. DEFINE B == {n \in Lba : \E z \in zs : z.begin = n}
<1>1. B \in SUBSET Nat
  BY SizeAssumption DEF Lba
<1>2. B # {}
  BY DEF Zone
<1>3. PICK m \in B : \A n \in B : m <= n
  BY <1>1, <1>2, LeastNat
<1>4. PICK z \in zs : z.begin = m
  BY <1>3
<1>5. \A y \in zs : z.begin <= y.begin
  <2>. TAKE y \in zs
  <2>1. y.begin \in B
    BY DEF Zone
  <2>. QED
    BY <2>1, <1>3, <1>4
<1>. QED
  BY <1>4, <1>5 DEF First

(* find_largest_zone returns a zone of the list, and no other is longer. *)
LEMMA LargestIsLargest ==
  ASSUME NEW zs \in SUBSET Zone, zs # {}, \A z \in zs : z.begin < z.end
  PROVE  /\ LargestZone(zs) \in zs
         /\ \A y \in zs : Length(y) <= Length(LargestZone(zs))
<1>. DEFINE L == {n \in 0 .. EndLba : \E z \in zs : Length(z) = n}
            M == {z \in zs : \A y \in zs : Length(y) <= Length(z)}
<1>1. \A z \in zs : Length(z) \in 0 .. EndLba
  BY SizeAssumption DEF Zone, Lba, Length
<1>2. L \in SUBSET Nat /\ L # {} /\ \A n \in L : n <= EndLba
  BY <1>1, SizeAssumption
<1>3. PICK m \in L : \A n \in L : n <= m
  BY <1>2, SizeAssumption, GreatestNat
<1>4. PICK z \in zs : Length(z) = m
  BY <1>3
<1>5. z \in M
  BY <1>1, <1>3, <1>4
<1>6. First(M) \in M
  BY <1>5, FirstIsFirst
<1>. QED
  BY <1>6 DEF LargestZone

(* The table of zones is finite: different zones begin at different sectors. *)
LEMMA WellFormedFinite ==
  ASSUME NEW zs, WellFormed(zs)
  PROVE  IsFiniteSet(zs)
<1>. DEFINE f == [z \in zs |-> z.begin]
<1>1. IsFiniteSet(Lba)
  BY FS_Interval, SizeAssumption DEF Lba
<1>2. f \in [zs -> Lba]
  BY DEF WellFormed, Zone
<1>3. \A y, z \in zs : f[y] = f[z] => y = z
  BY SizeAssumption DEF WellFormed, Disjoint, Zone, Lba
<1>4. f \in Injection(zs, Lba)
  BY <1>2, <1>3 DEF Injection, IsInjective
<1>. QED
  BY <1>1, <1>4, FS_Injection

-----------------------------------------------------------------------------
(* A split keeps the table well formed and its sectors, and adds one zone. *)
LEMMA SplitZones ==
  ASSUME NEW zs, WellFormed(zs), NEW z \in zs, NEW m \in Int, Inside(z, m)
  PROVE  /\ WellFormed(Split(zs, z, m))
         /\ Covered(Split(zs, z, m)) = Covered(zs)
         /\ Cardinality(Split(zs, z, m)) = Cardinality(zs) + 1
         /\ Lower(z, m) \in Split(zs, z, m)
         /\ Upper(z, m) \in Split(zs, z, m)
<1>. DEFINE lo == Lower(z, m)
            up == Upper(z, m)
            rest == zs \ {z}
<1>1. z \in Zone /\ z.begin \in Int /\ z.end \in Int
  BY SizeAssumption DEF WellFormed, Zone, Lba
<1>2. /\ lo \in Zone /\ lo.begin = z.begin /\ lo.end = m
      /\ up \in Zone /\ up.begin = m /\ up.end = z.end
  BY <1>1, SizeAssumption DEF Zone, Lba, Lower, Upper, Inside
<1>3. \A y \in rest : Disjoint(y, z) /\ y \in Zone /\ y.begin < y.end
                     /\ y.begin \in Int /\ y.end \in Int
  BY SizeAssumption DEF WellFormed, Zone, Lba, Disjoint
<1>4. \A y \in rest : /\ Disjoint(y, lo) /\ Disjoint(y, up)
                      /\ Disjoint(lo, y) /\ Disjoint(up, y)
  BY <1>1, <1>2, <1>3 DEF Disjoint, Inside
<1>5. Disjoint(lo, up) /\ Disjoint(up, lo)
  BY <1>1, <1>2 DEF Disjoint
<1>6. Split(zs, z, m) = rest \cup {lo, up}
  BY DEF Split
<1>7. WellFormed(rest \cup {lo, up})
  <2>1. rest \cup {lo, up} \subseteq Zone
    BY <1>2, <1>3
  <2>2. \A y \in rest \cup {lo, up} : y.begin < y.end
    BY <1>2, <1>3 DEF Inside
  <2>3. \A x, y \in rest : x # y => Disjoint(x, y)
    BY DEF WellFormed
  <2>4. \A x, y \in rest \cup {lo, up} : x # y => Disjoint(x, y)
    <3>. HIDE DEF lo, up, rest
    <3>. QED
      BY <2>3, <1>4, <1>5
  <2>. QED
    BY <2>1, <2>2, <2>4 DEF WellFormed
<1>8. Covered(rest \cup {lo, up}) = Covered(zs)
  <2>1. Sectors(lo) \cup Sectors(up) = Sectors(z)
    BY <1>1, <1>2 DEF Sectors, Inside
  <2>2. Covered(rest \cup {lo, up}) = Covered(rest) \cup Sectors(lo) \cup Sectors(up)
    BY DEF Covered
  <2>3. Covered(zs) = Covered(rest) \cup Sectors(z)
    BY DEF Covered
  <2>. QED
    BY <2>1, <2>2, <2>3
<1>9. Cardinality(rest \cup {lo, up}) = Cardinality(zs) + 1
  <2>1. IsFiniteSet(zs) /\ Cardinality(zs) \in Nat
    BY WellFormedFinite, FS_CardinalityType
  <2>2. IsFiniteSet(rest) /\ Cardinality(rest) = Cardinality(zs) - 1
    BY <2>1, FS_RemoveElement
  <2>3. lo \notin rest /\ up \notin rest /\ lo # up
    BY <1>1, <1>2, <1>3 DEF Disjoint, Inside
  <2>4. /\ IsFiniteSet(rest \cup {lo})
        /\ Cardinality(rest \cup {lo}) = Cardinality(rest) + 1
    BY <2>2, <2>3, FS_AddElement
  <2>5. Cardinality((rest \cup {lo}) \cup {up}) = Cardinality(rest \cup {lo}) + 1
    <3>1. up \notin rest \cup {lo}
      BY <2>3
    <3>. QED
      BY <2>4, <3>1, FS_AddElement
  <2>6. (rest \cup {lo}) \cup {up} = rest \cup {lo, up}
    OBVIOUS
  <2>. QED
    BY <2>1, <2>2, <2>4, <2>5, <2>6
<1>. QED
  BY <1>6, <1>7, <1>8, <1>9

-----------------------------------------------------------------------------
(* The sectors of a zone tried from one end leave the table, and no other. *)
LEMMA ShrinkZone ==
  ASSUME NEW zs, WellFormed(zs), NEW z \in zs, NEW rev \in BOOLEAN,
         NEW n \in 1 .. Length(z), NEW failed \in BOOLEAN,
         NEW w, w = Shrunk(z, rev, n, failed)
  PROVE  /\ WellFormed(Replaced(zs, z, w))
         /\ Covered(Replaced(zs, z, w))
              = Covered(zs) \ Block(IF rev THEN z.end - n ELSE z.begin, n)
         /\ Block(IF rev THEN z.end - n ELSE z.begin, n) \subseteq Covered(zs)
         /\ Cardinality(Replaced(zs, z, w))
              = IF w.begin = w.end THEN Cardinality(zs) - 1 ELSE Cardinality(zs)
         /\ w \in [begin : Int, end : Int, bdef : BOOLEAN, edef : BOOLEAN]
<1>. DEFINE block == Block(IF rev THEN z.end - n ELSE z.begin, n)
            rest == zs \ {z}
            left == IF w.begin = w.end THEN rest ELSE rest \cup {w}
<1>1. z \in Zone /\ z.begin \in Int /\ z.end \in Int /\ z.begin < z.end
  BY SizeAssumption DEF WellFormed, Zone, Lba
<1>2. n \in Int /\ 1 <= n /\ n <= z.end - z.begin
  BY <1>1 DEF Length
<1>3. /\ w \in [begin : Int, end : Int, bdef : BOOLEAN, edef : BOOLEAN]
      /\ w.begin = IF rev THEN z.begin ELSE z.begin + n
      /\ w.end = IF rev THEN z.end - n ELSE z.end
      /\ w.begin # w.end => w \in Zone /\ w.begin < w.end
  BY <1>1, <1>2, SizeAssumption DEF Shrunk, Zone, Lba
<1>4. \A y \in rest : Disjoint(y, z) /\ y \in Zone /\ y.begin < y.end
                     /\ y.begin \in Int /\ y.end \in Int
  BY SizeAssumption DEF WellFormed, Zone, Lba, Disjoint
<1>5. Sectors(w) = Sectors(z) \ block /\ block \subseteq Sectors(z)
  BY <1>1, <1>2, <1>3 DEF Sectors, Block
<1>6. \A y \in rest : Sectors(y) \cap Sectors(z) = {}
  BY <1>1, <1>4 DEF Sectors, Disjoint
<1>7. WellFormed(left)
  <2>1. WellFormed(rest)
    BY DEF WellFormed
  <2>2. CASE w.begin = w.end
    BY <2>1, <2>2
  <2>3. CASE w.begin # w.end
    <3>1. \A y \in rest : Disjoint(y, w) /\ Disjoint(w, y)
      BY <1>1, <1>2, <1>3, <1>4 DEF Disjoint
    <3>2. WellFormed(rest \cup {w})
      BY <2>1, <2>3, <3>1, <1>3 DEF WellFormed
    <3>. QED
      BY <3>2, <2>3
  <2>. QED
    BY <2>2, <2>3
<1>8. Covered(left) = Covered(zs) \ block
  <2>1. Covered(zs) = Covered(rest) \cup Sectors(z)
    BY DEF Covered
  <2>2. Covered(rest) \cap Sectors(z) = {}
    BY <1>6 DEF Covered
  <2>3. Covered(left) = Covered(rest) \cup Sectors(w)
    <3>1. CASE w.begin = w.end
      <4>1. Sectors(w) = {}
        BY <3>1, <1>3 DEF Sectors
      <4>. QED
        BY <3>1, <4>1
    <3>2. CASE w.begin # w.end
      BY <3>2 DEF Covered
    <3>. QED
      BY <3>1, <3>2
  <2>. QED
    BY <2>1, <2>2, <2>3, <1>5
<1>9. block \subseteq Covered(zs)
  BY <1>5 DEF Covered
<1>10. Cardinality(left) = IF w.begin = w.end THEN Cardinality(zs) - 1
                                             ELSE Cardinality(zs)
  <2>1. IsFiniteSet(zs) /\ Cardinality(zs) \in Nat
    BY WellFormedFinite, FS_CardinalityType
  <2>2. IsFiniteSet(rest) /\ Cardinality(rest) = Cardinality(zs) - 1
    BY <2>1, FS_RemoveElement
  <2>3. CASE w.begin = w.end
    BY <2>2, <2>3
  <2>4. CASE w.begin # w.end
    <3>1. w \notin rest
      BY <1>1, <1>2, <1>3, <1>4, <2>4 DEF Disjoint
    <3>2. Cardinality(rest \cup {w}) = Cardinality(rest) + 1
      BY <2>2, <3>1, FS_AddElement
    <3>. QED
      BY <2>1, <2>2, <2>4, <3>2
  <2>. QED
    BY <2>3, <2>4
<1>. QED
  BY <1>3, <1>7, <1>8, <1>9, <1>10 DEF Replaced

-----------------------------------------------------------------------------
(* Two runs of unread sectors that overlap are the same run. *)
LEMMA RunsDisjoint ==
  ASSUME NEW j, NEW b \in Lba, NEW e \in 1 .. EndLba, IsRun(j, b, e),
         NEW c \in Lba, NEW d \in 1 .. EndLba, IsRun(j, c, d),
         b < d, c < e
  PROVE  b = c /\ e = d
<1>1. /\ b \in Int /\ e \in Int /\ c \in Int /\ d \in Int
      /\ 0 <= b /\ 0 <= c /\ e <= EndLba /\ d <= EndLba /\ EndLba \in Int
  BY SizeAssumption DEF Lba
<1>2. ~ (b < c)
  <2>. SUFFICES ASSUME b < c PROVE FALSE
    OBVIOUS
  <2>1. c - 1 \in b .. e - 1 /\ c > 0
    BY <1>1
  <2>. QED
    BY <2>1 DEF IsRun
<1>3. ~ (c < b)
  <2>. SUFFICES ASSUME c < b PROVE FALSE
    OBVIOUS
  <2>1. b - 1 \in c .. d - 1 /\ b > 0
    BY <1>1
  <2>. QED
    BY <2>1 DEF IsRun
<1>4. ~ (e < d)
  <2>. SUFFICES ASSUME e < d PROVE FALSE
    OBVIOUS
  <2>1. e \in c .. d - 1 /\ e < EndLba
    BY <1>1
  <2>. QED
    BY <2>1 DEF IsRun
<1>5. ~ (d < e)
  <2>. SUFFICES ASSUME d < e PROVE FALSE
    OBVIOUS
  <2>1. d \in b .. e - 1 /\ d < EndLba
    BY <1>1
  <2>. QED
    BY <2>1 DEF IsRun
<1>. QED
  BY <1>1, <1>2, <1>3, <1>4, <1>5

(* Every unread sector lies in a run. *)
LEMMA RunAround ==
  ASSUME NEW j, NEW s \in UnreadSectors(j)
  PROVE  \E b \in Lba, e \in 1 .. EndLba : IsRun(j, b, e) /\ b <= s /\ s < e
<1>. DEFINE B == {n \in 0 .. s : \A t \in n .. s : j[t] = "Unread"}
            E == {n \in 1 .. EndLba : s < n /\ \A t \in s .. n - 1 : j[t] = "Unread"}
<1>1. s \in Int /\ 0 <= s /\ s < EndLba /\ EndLba \in Int /\ j[s] = "Unread"
  BY SizeAssumption DEF UnreadSectors, Lba
<1>2. PICK b \in B : \A n \in B : b <= n
  <2>1. s \in B /\ B \in SUBSET Nat
    BY <1>1
  <2>. QED
    BY <2>1, LeastNat
<1>3. PICK e \in E : \A n \in E : n <= e
  <2>1. s + 1 \in E /\ E \in SUBSET Nat /\ EndLba \in Nat
    BY <1>1
  <2>2. \A n \in E : n <= EndLba
    BY <1>1
  <2>. QED
    BY <2>1, <2>2, GreatestNat
<1>4. b \in Lba /\ b <= s /\ b \in Int
  BY <1>1, <1>2 DEF Lba
<1>5. e \in 1 .. EndLba /\ s < e /\ e \in Int
  BY <1>3
<1>6. \A t \in b .. e - 1 : j[t] = "Unread"
  <2>. TAKE t \in b .. e - 1
  <2>1. t \in b .. s \/ t \in s .. e - 1
    BY <1>1, <1>4, <1>5
  <2>. QED
    BY <2>1, <1>2, <1>3
<1>7. b > 0 => j[b - 1] # "Unread"
  <2>. SUFFICES ASSUME b > 0, j[b - 1] = "Unread" PROVE FALSE
    OBVIOUS
  <2>1. \A t \in b - 1 .. s : t = b - 1 \/ t \in b .. s
    BY <1>1, <1>4
  <2>2. \A t \in b - 1 .. s : j[t] = "Unread"
    BY <2>1, <1>2
  <2>3. b - 1 \in B
    BY <2>2, <1>1, <1>4
  <2>4. b <= b - 1
    BY <2>3, <1>2
  <2>. QED
    BY <2>4, <1>4
<1>8. e < EndLba => j[e] # "Unread"
  <2>. SUFFICES ASSUME e < EndLba, j[e] = "Unread" PROVE FALSE
    OBVIOUS
  <2>1. \A t \in s .. (e + 1) - 1 : t = e \/ t \in s .. e - 1
    BY <1>1, <1>5
  <2>2. \A t \in s .. (e + 1) - 1 : j[t] = "Unread"
    BY <2>1, <1>3
  <2>3. e + 1 \in E
    BY <2>2, <1>1, <1>5
  <2>4. e + 1 <= e
    BY <2>3, <1>3
  <2>. QED
    BY <2>4, <1>5
<1>9. b < e
  BY <1>1, <1>4, <1>5
<1>. HIDE DEF B, E
<1>10. IsRun(j, b, e)
  BY <1>6, <1>7, <1>8, <1>9 DEF IsRun
<1>. QED
  BY <1>4, <1>5, <1>10

(* The scan of a journal gives a well formed table of exactly the unread      *)
(* sectors, whose flags say what the bytes next to a zone say.                *)
LEMMA ParseZones ==
  ASSUME NEW j
  PROVE  /\ WellFormed(Parse(j))
         /\ Covered(Parse(j)) = UnreadSectors(j)
         /\ \A z \in Parse(j) :
               /\ z.bdef => z.begin - 1 \in Lba /\ j[z.begin - 1] \in ErrorStatus
               /\ z.edef => z.end \in Lba /\ j[z.end] \in ErrorStatus
<1>1. \A z \in Parse(j) :
         /\ z \in Zone /\ z.begin < z.end /\ IsRun(j, z.begin, z.end)
         /\ z = RunZone(j, z.begin, z.end)
  <2>. SUFFICES ASSUME NEW b \in Lba, NEW e \in 1 .. EndLba, IsRun(j, b, e),
                       NEW z, z = RunZone(j, b, e)
                PROVE  /\ z \in Zone /\ z.begin < z.end /\ IsRun(j, z.begin, z.end)
                       /\ z = RunZone(j, z.begin, z.end)
    BY DEF Parse
  <2>1. z.begin = b /\ z.end = e
    BY DEF RunZone
  <2>2. z \in Zone
    BY DEF RunZone, Zone
  <2>3. b < e
    BY DEF IsRun
  <2>. QED
    BY <2>1, <2>2, <2>3
<1>2. WellFormed(Parse(j))
  <2>1. \A y, z \in Parse(j) : y # z => Disjoint(y, z)
    <3>. SUFFICES ASSUME NEW y \in Parse(j), NEW z \in Parse(j), ~Disjoint(y, z)
                  PROVE  y = z
      OBVIOUS
    <3>1. /\ y.begin \in Lba /\ y.end \in 1 .. EndLba
          /\ z.begin \in Lba /\ z.end \in 1 .. EndLba
      BY <1>1 DEF Zone
    <3>2. y.begin < z.end /\ z.begin < y.end
      BY <3>1, SizeAssumption DEF Disjoint, Lba
    <3>3. y.begin = z.begin /\ y.end = z.end
      BY <1>1, <3>1, <3>2, RunsDisjoint
    <3>. QED
      BY <1>1, <3>3
  <2>. QED
    BY <1>1, <2>1 DEF WellFormed
<1>3. Covered(Parse(j)) \subseteq UnreadSectors(j)
  <2>. SUFFICES ASSUME NEW z \in Parse(j), NEW s \in Sectors(z)
                PROVE  s \in UnreadSectors(j)
    BY DEF Covered
  <2>1. z.begin \in Lba /\ z.end \in 1 .. EndLba
    BY <1>1 DEF Zone
  <2>2. s \in Lba
    BY <2>1, SizeAssumption DEF Sectors, Lba
  <2>. QED
    BY <1>1, <2>2 DEF UnreadSectors, IsRun, Sectors
<1>4. UnreadSectors(j) \subseteq Covered(Parse(j))
  <2>. SUFFICES ASSUME NEW s \in UnreadSectors(j)
                PROVE  s \in Covered(Parse(j))
    OBVIOUS
  <2>1. PICK b \in Lba, e \in 1 .. EndLba : IsRun(j, b, e) /\ b <= s /\ s < e
    BY RunAround
  <2>2. RunZone(j, b, e) \in Parse(j)
    <3>1. <<b, e>> \in {q \in Lba \X (1 .. EndLba) : IsRun(j, q[1], q[2])}
      BY <2>1
    <3>. QED
      BY <3>1 DEF Parse
  <2>3. s \in Sectors(RunZone(j, b, e))
    BY <2>1, SizeAssumption DEF Sectors, RunZone, Lba, UnreadSectors
  <2>. QED
    BY <2>2, <2>3 DEF Covered
<1>5. \A z \in Parse(j) :
         /\ z.bdef => z.begin - 1 \in Lba /\ j[z.begin - 1] \in ErrorStatus
         /\ z.edef => z.end \in Lba /\ j[z.end] \in ErrorStatus
  <2>. TAKE z \in Parse(j)
  <2>1. /\ z.bdef = (z.begin > 0 /\ j[z.begin - 1] \in ErrorStatus)
        /\ z.edef = (z.end < EndLba /\ j[z.end] \in ErrorStatus)
    BY <1>1 DEF RunZone
  <2>2. z.begin \in Lba /\ z.end \in 1 .. EndLba
    BY <1>1 DEF Zone
  <2>3. (z.begin > 0 => z.begin - 1 \in Lba) /\ (z.end < EndLba => z.end \in Lba)
    BY <2>2, SizeAssumption DEF Lba
  <2>. QED
    BY <2>1, <2>3
<1>. QED
  BY <1>2, <1>3, <1>4, <1>5

-----------------------------------------------------------------------------
(* A zone longer than INDIVISIBLE_DEFECT_ZONE_SIZE_SECTORS is cut inside. *)
LEMMA MiddleInside ==
  ASSUME NEW z \in Zone, Length(z) > IndivisibleZone
  PROVE  Middle(z) \in Int /\ Inside(z, Middle(z))
<1>. DEFINE half == z.begin + Length(z) \div 2
<1>1. /\ z.begin \in Int /\ z.end \in Int /\ Length(z) = z.end - z.begin
      /\ 0 <= z.begin
  BY SizeAssumption DEF Zone, Lba, Length
<1>2. SectorsAtOnce \in Int /\ SectorsAtOnce > 0 /\ Length(z) > 2 * SectorsAtOnce
  BY <1>1, SizeAssumption
<1>3. half \in Int /\ half >= z.begin + SectorsAtOnce /\ half < z.end
  BY <1>1, <1>2
<1>. HIDE DEF half
<1>4. half % SectorsAtOnce \in 0 .. SectorsAtOnce - 1
  BY <1>2, <1>3
<1>5. Middle(z) = half - (half % SectorsAtOnce)
  BY DEF Middle, AlignDown, half
<1>. QED
  BY <1>1, <1>2, <1>3, <1>4, <1>5 DEF Inside

(* A jump of at least one block that fits an int lands inside a zone that is  *)
(* longer than the jump.                                                      *)
LEMMA JumpInside ==
  ASSUME NEW z \in Zone, JumpSectors \in Int, JumpSectors >= SectorsAtOnce,
         Length(z) > JumpSectors
  PROVE  JumpTarget(z) \in Int /\ Inside(z, JumpTarget(z))
<1>. DEFINE to == z.begin + JumpSectors
<1>1. z.begin \in Int /\ z.end \in Int /\ Length(z) = z.end - z.begin
  BY SizeAssumption DEF Zone, Lba, Length
<1>2. SectorsAtOnce \in Int /\ SectorsAtOnce > 0
  BY SizeAssumption
<1>3. to \in Int /\ to >= z.begin + SectorsAtOnce /\ to < z.end
  BY <1>1, <1>2
<1>. HIDE DEF to
<1>4. to % SectorsAtOnce \in 0 .. SectorsAtOnce - 1
  BY <1>2, <1>3
<1>5. JumpTarget(z) = to - (to % SectorsAtOnce)
  BY DEF JumpTarget, AlignDown, to
<1>. QED
  BY <1>1, <1>2, <1>3, <1>4, <1>5 DEF Inside

-----------------------------------------------------------------------------
(* The task is the block at the end of the current zone that is read next. *)
TaskAtEnd ==
    pc \in {"read", "write", "journal", "use"} =>
        /\ cur \in zones
        /\ task = [lba |-> TaskLba(cur, reverse), n |-> TaskSize(cur)]

(* Once the journal has a block's fate, none of its sectors is unread. *)
FateTold ==
    pc = "use" /\ useJournal => TaskSectors \cap UnreadSectors(journal) = {}

(* Only a journal that was filled to its size is written to. *)
JournalInUse ==
    Running /\ useJournal /\ pc \notin {"filling", "syncing"} => JournalAccepted
JournalFresh ==
    /\ journalFile = "absent" => UnreadSectors(journal) = Lba
    /\ "power" \notin Faults => RefusedIsFresh
JournalWritten == pc = "journal" => useJournal

IdleTable ==
    pc = "closed" => zones = {} /\ nbZones = 0 /\ cur = NoZone

IInv ==
    /\ TypeOK
    /\ TableSound
    /\ TaskAtEnd
    /\ FateTold
    /\ TableMatchesJournal
    /\ ProgressExact
    /\ JournalInUse
    /\ JournalFresh
    /\ JournalWritten
    /\ IdleTable

-----------------------------------------------------------------------------
(* What a well formed table covers lies on the device. *)
LEMMA CoveredFinite ==
  ASSUME NEW zs, WellFormed(zs)
  PROVE  /\ Covered(zs) \subseteq Lba
         /\ IsFiniteSet(Covered(zs))
         /\ Cardinality(Covered(zs)) \in Nat
<1>1. Covered(zs) \subseteq Lba
  BY SizeAssumption DEF Covered, Sectors, WellFormed, Zone, Lba
<1>2. IsFiniteSet(Lba)
  BY FS_Interval, SizeAssumption DEF Lba
<1>. QED
  BY <1>1, <1>2, FS_Subset, FS_CardinalityType

(* A block of n sectors has n sectors. *)
LEMMA BlockSize ==
  ASSUME NEW lba \in Int, NEW n \in Nat
  PROVE  IsFiniteSet(Block(lba, n)) /\ Cardinality(Block(lba, n)) = n
<1>1. /\ IsFiniteSet(lba .. lba + n - 1)
      /\ Cardinality(lba .. lba + n - 1) =
            IF lba > lba + n - 1 THEN 0 ELSE (lba + n - 1) - lba + 1
  <2>1. lba + n - 1 \in Int
    OBVIOUS
  <2>. QED
    BY <2>1, FS_Interval
<1>. QED
  BY <1>1 DEF Block

(* The table of a run that has nothing to resume. *)
LEMMA WholeDeviceTable ==
  /\ WellFormed(WholeDevice)
  /\ Cardinality(WholeDevice) = 1
  /\ Covered(WholeDevice) = Lba
  /\ Cardinality(Lba) = EndLba
<1>1. WellFormed(WholeDevice)
  BY SizeAssumption DEF WellFormed, WholeDevice, Zone, Lba
<1>2. Cardinality(WholeDevice) = 1
  BY FS_Singleton DEF WholeDevice
<1>3. Covered(WholeDevice) = Lba
  BY DEF Covered, WholeDevice, Sectors, Lba
<1>4. Cardinality(Lba) = EndLba
  BY FS_Interval, SizeAssumption DEF Lba
<1>. QED
  BY <1>1, <1>2, <1>3, <1>4

(* The block of a task lies at one end of its zone. *)
LEMMA TaskInZone ==
  ASSUME NEW zs, WellFormed(zs), NEW z \in zs, NEW rev \in BOOLEAN
  PROVE  /\ TaskSize(z) \in 1 .. Length(z)
         /\ TaskSize(z) \in Nat
         /\ TaskLba(z, rev) = IF rev THEN z.end - TaskSize(z) ELSE z.begin
         /\ TaskLba(z, rev) \in Int
         /\ Block(TaskLba(z, rev), TaskSize(z)) \subseteq Covered(zs)
<1>1. z.begin \in Int /\ z.end \in Int /\ z.begin < z.end
  BY SizeAssumption DEF WellFormed, Zone, Lba
<1>2. TaskSize(z) \in 1 .. Length(z) /\ TaskSize(z) \in Nat
  BY <1>1, SizeAssumption DEF TaskSize, Length
<1>3. TaskLba(z, rev) = (IF rev THEN z.end - TaskSize(z) ELSE z.begin)
  BY DEF TaskLba
<1>4. Block(TaskLba(z, rev), TaskSize(z)) \subseteq Sectors(z)
  BY <1>1, <1>2, <1>3 DEF Block, Sectors, Length
<1>. QED
  BY <1>1, <1>2, <1>3, <1>4 DEF Covered

(* The loop asks for a task only while the table has a zone. *)
LEMMA TaskHasZone ==
  ASSUME IInv, LoopGoesOn
  PROVE  zones # {}
<1>. SUFFICES ASSUME zones = {} PROVE FALSE
  OBVIOUS
<1>1. progress.den - progress.num = Cardinality(Covered(zones))
  BY DEF IInv, ProgressExact, Running, LoopGoesOn
<1>2. Covered(zones) = {}
  BY DEF Covered
<1>3. progress.den - progress.num = 0
  BY <1>1, <1>2, FS_EmptySet
<1>4. progress.num \in Nat /\ progress.den \in Nat /\ progress.num < progress.den
  BY DEF IInv, TypeOK, TypeTable, LoopGoesOn
<1>. QED
  BY <1>3, <1>4

-----------------------------------------------------------------------------
(* Init. *)
LEMMA InitIInv == Init => IInv
<1>. SUFFICES ASSUME Init PROVE IInv
  OBVIOUS
<1>1. TypeOK
  <2>1. TypeRun
    BY DEF Init, TypeRun
  <2>2. TypeFlags
    BY Zenon DEF Init, TypeFlags
  <2>3. TypeTable
    BY DEF Init, TypeTable
  <2>4. TypePerform
    BY DEF Init, TypePerform, NoTask, NoReport
  <2>5. TypeDisk
    BY CopyAssumption DEF Init, TypeDisk, SectorStatus
  <2>6. TypeHistory
    BY DEF Init, TypeHistory
  <2>. QED
    BY <2>1, <2>2, <2>3, <2>4, <2>5, <2>6 DEF TypeOK
<1>2. TableSound
  BY FS_EmptySet DEF Init, TableSound, WellFormed
<1>3. JournalFresh
  BY DEF Init, JournalFresh, RefusedIsFresh, UnreadSectors
<1>. QED
  BY <1>1, <1>2, <1>3
     DEF Init, IInv, TaskAtEnd, FateTold, TableMatchesJournal, ProgressExact,
         JournalInUse, JournalWritten, IdleTable, Running

(* An end of the process, of whatever kind. *)
LEMMA IdleIInv ==
  ASSUME IInv, Idle, TypeDisk', TypeHistory', JournalFresh'
  PROVE  IInv'
<1>1. TypeOK'
  <2>1. TypeRun'
    BY DEF IInv, TypeOK, Idle, TypeRun
  <2>2. TypeFlags'
    BY Zenon DEF Idle, TypeFlags
  <2>3. TypeTable'
    BY DEF Idle, TypeTable
  <2>4. TypePerform'
    BY DEF Idle, TypePerform, NoTask, NoReport
  <2>. QED
    BY <2>1, <2>2, <2>3, <2>4 DEF TypeOK
<1>2. TableSound'
  BY FS_EmptySet DEF Idle, TableSound, WellFormed
<1>. QED
  BY <1>1, <1>2
     DEF Idle, IInv, TaskAtEnd, FateTold, TableMatchesJournal, ProgressExact,
         JournalInUse, JournalWritten, IdleTable, Running

-----------------------------------------------------------------------------
(* A step between two blocks that leaves the table, the journal and the       *)
(* progress alone.                                                            *)
LEMMA QuietIInv ==
  ASSUME IInv, pc \in {"filling", "syncing", "loop", "callback"},
         pc' \in {"syncing", "loop", "callback", "closing", "aborted"},
         TypeOK', JournalInUse', JournalFresh',
         UNCHANGED <<table, cur, progress, useJournal, journal>>
  PROVE  IInv'
<1>1. TableSound'
  BY DEF IInv, TableSound, table
<1>2. TaskAtEnd' /\ FateTold' /\ JournalWritten' /\ IdleTable'
  BY DEF TaskAtEnd, FateTold, JournalWritten, IdleTable
<1>3. TableMatchesJournal'
  BY DEF IInv, TableMatchesJournal, Running, table
<1>4. ProgressExact'
  BY DEF IInv, ProgressExact, Running, table
<1>. QED
  BY <1>1, <1>2, <1>3, <1>4 DEF IInv

LEMMA FillJournalIInv == IInv /\ (FillJournal \/ SyncJournal) => IInv'
<1>. SUFFICES ASSUME IInv, FillJournal \/ SyncJournal PROVE IInv'
  OBVIOUS
<1>0. /\ pc \in {"filling", "syncing"} /\ pc' \in {"syncing", "loop"}
      /\ journalFile' \in {"filled", "synced"}
      /\ UNCHANGED <<process, interrupt, journal, dst, dstSize, readahead, history>>
  BY DEF FillJournal, SyncJournal
<1>1. TypeOK'
  BY <1>0 DEF IInv, TypeOK, TypeRun, TypeFlags, TypeTable, TypePerform, TypeDisk,
         TypeHistory, process, settings, table, choice, perform, history
<1>2. JournalInUse' /\ JournalFresh'
  BY <1>0 DEF JournalInUse, JournalFresh, JournalAccepted, RefusedIsFresh
<1>. QED
  BY <1>0, <1>1, <1>2, QuietIInv DEF process, settings, choice

LEMMA LoopEndsIInv == IInv /\ LoopEnds => IInv'
<1>. SUFFICES ASSUME IInv, LoopEnds PROVE IInv'
  OBVIOUS
<1>1. TypeOK'
  BY DEF IInv, TypeOK, TypeRun, TypeFlags, TypeTable, TypePerform, TypeDisk, TypeHistory,
         LoopEnds, process, settings, table, choice, perform, disk, history
<1>2. JournalInUse' /\ JournalFresh'
  BY DEF IInv, LoopEnds, JournalInUse, JournalAccepted, JournalFresh, RefusedIsFresh, Running, process, settings, disk
<1>. QED
  BY <1>1, <1>2, QuietIInv DEF LoopEnds, process, settings, choice, disk

LEMMA CallbackIInv == IInv /\ Callback => IInv'
<1>. SUFFICES ASSUME IInv, Callback PROVE IInv'
  OBVIOUS
<1>1. TypeOK'
  BY DEF IInv, TypeOK, TypeRun, TypeFlags, TypeTable, TypePerform, TypeDisk, TypeHistory,
         Callback, process, settings, table, choice, perform, disk, history
<1>2. JournalInUse' /\ JournalFresh'
  BY DEF IInv, Callback, JournalInUse, JournalAccepted, JournalFresh, RefusedIsFresh, Running, process, settings, disk
<1>. QED
  BY <1>1, <1>2, QuietIInv DEF Callback, process, settings, choice, disk

LEMMA GivesUpIInv == IInv /\ SkipfailGivesUp => IInv'
<1>. SUFFICES ASSUME IInv, SkipfailGivesUp PROVE IInv'
  OBVIOUS
<1>. USE DEF SkipfailGivesUp, ChooseZone, LoopGoesOn
<1>1. TypeOK'
  BY DEF IInv, TypeOK, TypeRun, TypeFlags, TypeTable, TypePerform, TypeDisk, TypeHistory,
         settings, table, choice, disk, history
<1>2. JournalInUse' /\ JournalFresh'
  BY DEF IInv, JournalInUse, JournalAccepted, JournalFresh, RefusedIsFresh, Running, settings, disk
<1>. QED
  BY <1>1, <1>2, QuietIInv DEF settings, choice, disk

LEMMA SplitAbortsIInv == IInv /\ SplitAborts => IInv'
<1>. SUFFICES ASSUME IInv, SplitAborts PROVE IInv'
  OBVIOUS
<1>. USE DEF SplitAborts, ChooseZone, LoopGoesOn
<1>1. TypeOK'
  BY DEF IInv, TypeOK, TypeRun, TypeFlags, TypeTable, TypePerform, TypeDisk, TypeHistory,
         process, settings, table, choice, perform, disk, history
<1>2. JournalInUse' /\ JournalFresh'
  BY DEF IInv, JournalInUse, JournalAccepted, JournalFresh, RefusedIsFresh, Running, disk
<1>. QED
  BY <1>1, <1>2, QuietIInv DEF process, settings, choice, disk

LEMMA InterruptIInv == IInv /\ Interrupt => IInv'
<1>. SUFFICES ASSUME IInv, Interrupt PROVE IInv'
  OBVIOUS
<1>1. UNCHANGED <<pc, process, disk, history>> /\ interrupt' = TRUE
  BY DEF Interrupt
<1>2. TypeOK'
  BY <1>1 DEF IInv, TypeOK, TypeRun, TypeFlags, TypeTable, TypePerform, TypeDisk, TypeHistory,
         process, settings, table, choice, perform, disk, history
<1>. QED
  BY <1>1, <1>2 DEF IInv, TableSound, TaskAtEnd, FateTold, TableMatchesJournal,
     ProgressExact, JournalInUse, JournalAccepted, JournalFresh, RefusedIsFresh, JournalWritten, IdleTable, Running, TaskSectors,
     process, settings, table, choice, perform, disk, history

-----------------------------------------------------------------------------
(* Every way to choose a task ends in Proceed with a zone of the table. *)
LEMMA ProceedIInv ==
  ASSUME IInv, pc = "loop", WellFormed(zones'), nbZones' = Cardinality(zones'),
         Covered(zones') = Covered(zones), stage' \in {0, 1},
         NEW z \in zones', NEW rev \in BOOLEAN, Proceed(z, rev)
  PROVE  IInv'
<1>. DEFINE lba == TaskLba(z, rev)
            n == TaskSize(z)
<1>1. n \in Nat /\ lba \in Int /\ z \in Zone
  BY TaskInZone DEF WellFormed
<1>2. /\ cur' = z /\ reverse' = rev /\ task' = [lba |-> lba, n |-> n]
      /\ pc' \in {"read", "callback"} /\ ret' \in {0, 1}
      /\ report' = report \/ report' = [lba |-> lba, n |-> n, status |-> "ok"]
      /\ errorFlag' = FALSE /\ buf' = "stale"
      /\ UNCHANGED <<settings, progress, interrupt, disk, history>>
  BY DEF Proceed
<1>3. TypeOK'
  <2>1. TypeRun'
    BY <1>2 DEF IInv, TypeOK, TypeRun, settings
  <2>2. TypeFlags'
    BY <1>2, Zenon DEF IInv, TypeOK, TypeFlags, settings
  <2>3. TypeTable'
    <3>1. nbZones' \in Int
      BY WellFormedFinite, FS_CardinalityType
    <3>. QED
      BY <1>1, <1>2, <3>1 DEF IInv, TypeOK, TypeTable, WellFormed
  <2>4. TypePerform'
    BY <1>1, <1>2 DEF IInv, TypeOK, TypePerform
  <2>5. TypeDisk'
    BY <1>2 DEF IInv, TypeOK, TypeDisk, disk
  <2>6. TypeHistory'
    BY <1>2 DEF IInv, TypeOK, TypeHistory, history
  <2>. QED
    BY <2>1, <2>2, <2>3, <2>4, <2>5, <2>6 DEF TypeOK
<1>4. TableSound'
  BY <1>2 DEF TableSound
<1>5. TaskAtEnd' /\ FateTold' /\ JournalWritten' /\ IdleTable'
  BY <1>2 DEF TaskAtEnd, FateTold, JournalWritten, IdleTable, TaskLba, TaskSize
<1>6. TableMatchesJournal'
  BY <1>2 DEF IInv, TableMatchesJournal, Running, settings, disk
<1>7. ProgressExact'
  BY <1>2 DEF IInv, ProgressExact, Running
<1>8. JournalInUse' /\ JournalFresh'
  BY <1>2 DEF IInv, JournalInUse, JournalAccepted, JournalFresh, RefusedIsFresh, Running, settings, disk
<1>. QED
  BY <1>3, <1>4, <1>5, <1>6, <1>7, <1>8 DEF IInv

(* A task in a zone of the table as it is. *)
LEMMA TakeZoneIInv ==
  ASSUME IInv, pc = "loop", UNCHANGED table, stage' \in {0, 1},
         NEW z \in zones, NEW rev \in BOOLEAN, Proceed(z, rev)
  PROVE  IInv'
<1>1. WellFormed(zones') /\ nbZones' = Cardinality(zones') /\ z \in zones'
  BY DEF IInv, TableSound, table
<1>. QED
  BY <1>1, ProceedIInv DEF table

(* A strategy that does not cut a zone chooses one of the table as it is, and *)
(* but for plain and the last stage of smart an end of it that is sound, or   *)
(* the one it is at.                                                          *)
SoundEnd(z, rev) == IF rev THEN ~z.edef ELSE ~z.bdef

LEMMA ChosenZone ==
  ASSUME IInv,
         PlainTask \/ KeepZone \/ SmartTakeZone \/ SmartReadTheRest \/ SkipfailTakeZone
  PROVE  /\ pc = "loop" /\ UNCHANGED table /\ stage' \in {0, 1}
         /\ \E z \in zones, rev \in BOOLEAN :
               /\ Proceed(z, rev)
               /\ \/ strategy = "plain" \/ stage' = 1
                  \/ cur # NoZone /\ stage' = stage /\ z = cur /\ rev = reverse
                  \/ SoundEnd(z, rev)
<1>1. /\ zones \in SUBSET Zone /\ stage \in {0, 1} /\ reverse \in BOOLEAN
      /\ cur # NoZone => cur \in zones
  BY DEF IInv, TypeOK, TypeTable, TypeFlags, TableSound
<1>2. CASE PlainTask
  <2>1. First(zones) \in zones
    BY <1>1, <1>2, TaskHasZone, FirstIsFirst DEF PlainTask
  <2>. QED
    BY <1>1, <1>2, <2>1 DEF PlainTask, LoopGoesOn
<1>3. CASE KeepZone
  BY <1>1, <1>3 DEF KeepZone, LoopGoesOn
<1>4. CASE SmartTakeZone
  <2>. DEFINE S == {y \in zones : SmartProcessable(y)}
  <2>1. First(S) \in S
    <3>1. S # {} /\ S \in SUBSET Zone
      BY <1>1, <1>4 DEF SmartTakeZone
    <3>. QED
      BY <3>1, FirstIsFirst
  <2>2. ReadsBackward(First(S)) \in BOOLEAN
    BY DEF ReadsBackward
  <2>3. Proceed(First(S), ReadsBackward(First(S))) /\ UNCHANGED <<table, stage>>
    BY <1>4 DEF SmartTakeZone
  <2>4. pc = "loop"
    BY <1>4 DEF SmartTakeZone, ChooseZone, LoopGoesOn
  <2>5. SoundEnd(First(S), ReadsBackward(First(S)))
    BY <2>1 DEF SoundEnd, SmartProcessable, ReadsBackward
  <2>. QED
    BY <1>1, <2>1, <2>2, <2>3, <2>4, <2>5
<1>5. CASE SmartReadTheRest
  <2>1. First(zones) \in zones
    BY <1>1, <1>5, TaskHasZone, FirstIsFirst DEF SmartReadTheRest, ChooseZone
  <2>. QED
    BY <1>5, <2>1 DEF SmartReadTheRest, ChooseZone, LoopGoesOn
<1>6. CASE SkipfailTakeZone
  <2>. DEFINE z == First(SkipfailChoices)
  <2>1. z \in SkipfailChoices
    <3>1. SkipfailChoices # {} /\ SkipfailChoices \in SUBSET Zone
      BY <1>1, <1>6 DEF SkipfailTakeZone, SkipfailChoices
    <3>. QED
      BY <3>1, FirstIsFirst
  <2>2. z \in zones
    BY <2>1 DEF SkipfailChoices
  <2>3. SkipfailBackward(z) \in BOOLEAN
    BY DEF SkipfailBackward
  <2>4. /\ Proceed(z, SkipfailBackward(z)) /\ (~z.bdef \/ SkipfailBackward(z))
        /\ UNCHANGED <<table, stage>> /\ pc = "loop"
    BY <1>6 DEF SkipfailTakeZone, ChooseZone, LoopGoesOn
  <2>5. SoundEnd(z, SkipfailBackward(z))
    BY <2>4 DEF SoundEnd, SkipfailBackward
  <2>. QED
    BY <1>1, <2>2, <2>3, <2>4, <2>5
<1>. QED
  BY <1>2, <1>3, <1>4, <1>5, <1>6

LEMMA ChooseTaskIInv ==
  IInv /\ (PlainTask \/ KeepZone \/ SmartTakeZone \/ SmartReadTheRest \/ SkipfailTakeZone)
     => IInv'
BY ChosenZone, TakeZoneIInv

(* A zone that is cut is a zone of the table, at an address. *)
LEMMA CutsInTable ==
  ASSUME IInv, NEW c \in Cuts
  PROVE  c.zone \in zones /\ c.at \in Int
<1>1. c.zone \in zones /\ (c.at = Middle(c.zone) \/ c.at = JumpTarget(c.zone))
  <2>1. SmartCut \subseteq zones /\ SkipfailCut \subseteq zones
    BY DEF SmartCut, SkipfailCut, SkipfailChoices
  <2>2. \/ \E z \in SmartCut : c = [zone |-> z, at |-> Middle(z)]
        \/ \E z \in SkipfailCut : c = [zone |-> z, at |-> JumpTarget(z)]
    BY DEF Cuts
  <2>. QED
    BY <2>1, <2>2
<1>2. c.zone.begin \in Int /\ c.zone.end \in Int
  BY <1>1, SizeAssumption DEF IInv, TypeOK, TypeTable, Zone, Lba
<1>3. SectorsAtOnce \in Int /\ SectorsAtOnce > 0
  BY SizeAssumption
<1>4. \A x \in Int : AlignDown(x) \in Int
  BY <1>3 DEF AlignDown
<1>5. Middle(c.zone) \in Int
  <2>1. c.zone.begin + Length(c.zone) \div 2 \in Int
    BY <1>2 DEF Length
  <2>. QED
    BY <1>4, <2>1 DEF Middle
<1>6. JumpTarget(c.zone) \in Int
  <2>1. JumpSectors \in Int
    <3>1. SkipBlocks * SectorsAtOnce \in Int
      BY SizeAssumption
    <3>2. \A x \in Int : WrapInt(x) \in Int
      BY SizeAssumption DEF WrapInt
    <3>. QED
      BY <3>1, <3>2 DEF JumpSectors
  <2>2. c.zone.begin + JumpSectors \in Int
    BY <1>2, <2>1
  <2>. QED
    BY <1>4, <2>2 DEF JumpTarget
<1>. QED
  BY <1>1, <1>5, <1>6

LEMMA SplitZoneIInv == IInv /\ SplitZone => IInv'
<1>. SUFFICES ASSUME IInv, SplitZone PROVE IInv'
  OBVIOUS
<1>1. PICK c \in Cuts :
        /\ Inside(c.zone, c.at)
        /\ zones' = Split(zones, c.zone, c.at)
        /\ IF strategy \in {"smart", "skipfail"}
             THEN Proceed(Lower(c.zone, c.at), TRUE)
             ELSE Proceed(Upper(c.zone, c.at), FALSE)
  BY DEF SplitZone
<1>2. pc = "loop" /\ nbZones' = nbZones + 1 /\ UNCHANGED stage
  BY DEF SplitZone, ChooseZone, LoopGoesOn
<1>3. c.zone \in zones /\ c.at \in Int
  BY CutsInTable
<1>4. WellFormed(zones) /\ nbZones = Cardinality(zones) /\ stage \in {0, 1}
  BY DEF IInv, TableSound, TypeOK, TypeTable
<1>5. /\ WellFormed(zones') /\ Covered(zones') = Covered(zones)
      /\ nbZones' = Cardinality(zones')
      /\ Lower(c.zone, c.at) \in zones' /\ Upper(c.zone, c.at) \in zones'
  BY <1>1, <1>2, <1>3, <1>4, SplitZones
<1>. QED
  BY <1>1, <1>2, <1>4, <1>5, ProceedIInv

-----------------------------------------------------------------------------
(* The block under way. *)
LEMMA TaskFacts ==
  ASSUME IInv, pc \in {"read", "write", "journal", "use"}
  PROVE  /\ cur \in zones /\ WellFormed(zones) /\ reverse \in BOOLEAN
         /\ task = [lba |-> TaskLba(cur, reverse), n |-> TaskSize(cur)]
         /\ task.n \in 1 .. Length(cur) /\ task.n \in Nat /\ task.lba \in Int
         /\ TaskSectors = Block(IF reverse THEN cur.end - task.n ELSE cur.begin, task.n)
         /\ TaskSectors \subseteq Covered(zones)
         /\ IsFiniteSet(TaskSectors) /\ Cardinality(TaskSectors) = task.n
<1>1. /\ cur \in zones /\ WellFormed(zones) /\ reverse \in BOOLEAN
      /\ task = [lba |-> TaskLba(cur, reverse), n |-> TaskSize(cur)]
  BY DEF IInv, TaskAtEnd, TableSound, TypeOK, TypeFlags
<1>2. task.lba = TaskLba(cur, reverse) /\ task.n = TaskSize(cur)
  BY <1>1
<1>3. TaskSectors = Block(TaskLba(cur, reverse), TaskSize(cur))
  BY <1>2 DEF TaskSectors
<1>. QED
  BY <1>1, <1>2, <1>3, TaskInZone, BlockSize

LEMMA ReadIInv == IInv /\ Read => IInv'
<1>. SUFFICES ASSUME IInv, Read PROVE IInv'
  OBVIOUS
<1>1. /\ pc = "read" /\ pc' = "write"
      /\ UNCHANGED <<settings, table, choice, progress, task, interrupt, disk, history>>
  BY DEF Read
<1>2. TypeOK'
  <2>1. TypeRun'
    BY <1>1 DEF IInv, TypeOK, TypeRun, settings
  <2>2. TypeFlags'
    <3>1. errorFlag' \in BOOLEAN
      BY Zenon DEF IInv, TypeOK, TypeFlags, Read, ReadGood, ReadBad, IoctlFails, ReadLost
    <3>. QED
      BY <1>1, <3>1, Zenon DEF IInv, TypeOK, TypeFlags, settings, choice
  <2>3. TypeTable'
    BY <1>1 DEF IInv, TypeOK, TypeTable, table, choice
  <2>4. TypePerform'
    BY <1>1 DEF IInv, TypeOK, TypePerform, Read, ReadGood, ReadBad, IoctlFails, ReadLost
  <2>5. TypeDisk'
    BY <1>1 DEF IInv, TypeOK, TypeDisk, disk
  <2>6. TypeHistory'
    BY <1>1 DEF IInv, TypeOK, TypeHistory, history
  <2>. QED
    BY <2>1, <2>2, <2>3, <2>4, <2>5, <2>6 DEF TypeOK
<1>. QED
  BY <1>1, <1>2 DEF IInv, TableSound, TaskAtEnd, FateTold, TableMatchesJournal,
     ProgressExact, JournalInUse, JournalAccepted, JournalFresh, RefusedIsFresh, JournalWritten, IdleTable, Running,
     settings, table, choice, disk, TaskLba, TaskSize

LEMMA WriteIInv == IInv /\ Write => IInv'
<1>. SUFFICES ASSUME IInv, Write PROVE IInv'
  OBVIOUS
<1>1. /\ pc = "write" /\ pc' = IF useJournal THEN "journal" ELSE "use"
      /\ UNCHANGED <<settings, table, choice, progress, task, errorFlag, ret, buf>>
      /\ UNCHANGED <<interrupt, journal, journalFile, readahead>>
      /\ UNCHANGED <<runs, recordedTo, lapsed>>
  BY DEF Write
<1>2. TypeOK'
  <2>1. TypeRun'
    BY <1>1 DEF IInv, TypeOK, TypeRun, settings
  <2>2. TypeFlags'
    BY <1>1, Zenon DEF IInv, TypeOK, TypeFlags, settings, choice
  <2>3. TypeTable'
    BY <1>1 DEF IInv, TypeOK, TypeTable, table, choice
  <2>4. TypePerform'
    BY <1>1 DEF IInv, TypeOK, TypePerform, Write, WriteSkipped, WriteDone, WriteFails
  <2>5. TypeDisk'
    <3>1. ASSUME NEW k \in Nat, WriteSectors(k)
          PROVE  /\ dst' \in [Destinations -> [Lba -> {"none", "source", "stale"}]]
                 /\ dstSize' \in [Destinations -> Nat]
      <4>1. /\ task.lba \in Int /\ buf \in {"source", "stale"}
            /\ dst \in [Destinations -> [Lba -> {"none", "source", "stale"}]]
            /\ dstSize \in [Destinations -> Nat]
        BY <1>1, TaskFacts DEF IInv, TypeOK, TypeDisk, TypePerform
      <4>2. dst' \in [Destinations -> [Lba -> {"none", "source", "stale"}]]
        BY <3>1, <4>1 DEF WriteSectors
      <4>3. dstSize' \in [Destinations -> Nat]
        <5>1. dstSize' = [dstSize EXCEPT ![dest] =
                 IF DstDevice[dest] = 0 /\ k > 0 /\ task.lba + k > @
                   THEN task.lba + k ELSE @]
          BY <3>1 DEF WriteSectors
        <5>2. CASE dest \in Destinations
          <6>1. dstSize[dest] \in Nat
            BY <4>1, <5>2
          <6>2. task.lba + k > dstSize[dest] => task.lba + k \in Nat
            BY <4>1, <6>1
          <6>. QED
            BY <4>1, <5>1, <6>1, <6>2
        <5>3. CASE dest \notin Destinations
          BY <4>1, <5>1, <5>3
        <5>. QED
          BY <5>2, <5>3
      <4>. QED
        BY <4>2, <4>3
    <3>2. task.n \in Nat
      BY <1>1, TaskFacts
    <3>3. /\ dst' \in [Destinations -> [Lba -> {"none", "source", "stale"}]]
          /\ dstSize' \in [Destinations -> Nat]
      <4>1. CASE WriteSkipped
        BY <4>1 DEF WriteSkipped, IInv, TypeOK, TypeDisk
      <4>2. CASE WriteDone
        BY <4>2, <3>1, <3>2 DEF WriteDone
      <4>3. CASE WriteFails
        <5>1. PICK k \in 0 .. task.n - 1 : WriteSectors(k)
          BY <4>3 DEF WriteFails
        <5>. QED
          BY <5>1, <3>1, <3>2
      <4>. QED
        BY <4>1, <4>2, <4>3 DEF Write
    <3>. QED
      BY <1>1, <3>3 DEF IInv, TypeOK, TypeDisk
  <2>6. TypeHistory'
    <3>1. Missed \subseteq Lba
      <4>1. TaskSectors \subseteq Lba
        BY <1>1, TaskFacts, CoveredFinite
      <4>. QED
        BY <4>1 DEF Missed
    <3>2. missed \in [Destinations -> SUBSET Lba] /\ unnoted \in [Destinations -> SUBSET Lba]
      BY DEF IInv, TypeOK, TypeHistory
    <3>3. /\ \/ missed' = [missed EXCEPT ![dest] = @ \cup Missed]
             \/ missed' = [missed EXCEPT ![dest] = @ \ TaskSectors]
          /\ \/ unnoted' = [unnoted EXCEPT ![dest] = @ \cup Missed]
             \/ unnoted' = [unnoted EXCEPT ![dest] = @ \ TaskSectors]
             \/ unnoted' = unnoted
      BY DEF Write, WriteSkipped, WriteDone, WriteFails, Miss, MissUnnoted, MissNothing
    <3>4. /\ missed' \in [Destinations -> SUBSET Lba]
          /\ unnoted' \in [Destinations -> SUBSET Lba]
      BY <3>1, <3>2, <3>3
    <3>. QED
      BY <1>1, <3>4 DEF IInv, TypeOK, TypeHistory
  <2>. QED
    BY <2>1, <2>2, <2>3, <2>4, <2>5, <2>6 DEF TypeOK
<1>3. FateTold'
  BY <1>1 DEF FateTold, settings
<1>4. TableMatchesJournal'
  BY <1>1 DEF IInv, TableMatchesJournal, Running, settings, table
<1>. QED
  BY <1>1, <1>2, <1>3, <1>4 DEF IInv, TableSound, TaskAtEnd,
     ProgressExact, JournalInUse, JournalAccepted, JournalFresh, RefusedIsFresh, JournalWritten, IdleTable, Running,
     settings, table, choice, TaskLba, TaskSize

LEMMA WriteJournalIInv == IInv /\ WriteJournal => IInv'
<1>. SUFFICES ASSUME IInv, WriteJournal PROVE IInv'
  OBVIOUS
<1>1. /\ pc = "journal" /\ pc' = "use"
      /\ journal' = [s \in Lba |-> IF s \in TaskSectors THEN TaskFate ELSE journal[s]]
      /\ UNCHANGED <<process, interrupt, journalFile, dst, dstSize, readahead, history>>
  BY DEF WriteJournal
<1>2. TaskFate \in {"ReadOk", "BlockReadError", "SectorReadError"}
  BY DEF TaskFate
<1>3. TypeOK'
  <2>1. journal' \in [Lba -> SectorStatus]
    BY <1>1, <1>2 DEF IInv, TypeOK, TypeDisk, SectorStatus, ErrorStatus
  <2>. QED
    BY <1>1, <2>1 DEF IInv, TypeOK, TypeRun, TypeFlags, TypeTable, TypePerform, TypeDisk, TypeHistory,
       process, settings, table, choice, perform, history
<1>4. UnreadSectors(journal') = UnreadSectors(journal) \ TaskSectors
  BY <1>1, <1>2 DEF UnreadSectors
<1>5. TaskSectors' = TaskSectors
  BY <1>1 DEF TaskSectors, process, perform
<1>6. FateTold'
  BY <1>4, <1>5 DEF FateTold
<1>7. TableMatchesJournal'
  <2>1. TaskSectors \subseteq Covered(zones)
    BY <1>1, TaskFacts
  <2>. QED
    BY <1>1, <1>4, <1>5, <2>1
       DEF IInv, TableMatchesJournal, Running, process, settings, table
<1>8. JournalFresh'
  <2>1. TaskSectors \subseteq Covered(zones) /\ TaskSectors # {}
    <3>1. Cardinality(TaskSectors) = task.n /\ task.n \in 1 .. Length(cur)
      BY <1>1, TaskFacts
    <3>2. TaskSectors # {}
      BY <3>1, FS_EmptySet
    <3>. QED
      BY <1>1, <3>2, TaskFacts
  <2>2. CASE useJournal
    BY <1>1, <2>2 DEF IInv, JournalInUse, JournalAccepted, JournalFresh, RefusedIsFresh, Running
  <2>3. CASE ~useJournal
    BY <1>1, <2>3 DEF IInv, JournalWritten
  <2>. QED
    BY <2>2, <2>3
<1>. QED
  BY <1>1, <1>3, <1>6, <1>7, <1>8 DEF IInv, TableSound, TaskAtEnd,
     ProgressExact, JournalInUse, JournalAccepted, JournalWritten, IdleTable, Running,
     process, settings, table, choice, perform, TaskLba, TaskSize

LEMMA JournalFailsIInv == IInv /\ JournalFails => IInv'
<1>. SUFFICES ASSUME IInv, JournalFails PROVE IInv'
  OBVIOUS
<1>1. /\ pc \in {"filling", "journal"} /\ pc' = "aborted"
      /\ UNCHANGED <<process, interrupt, journalFile, dst, dstSize, readahead, history>>
      /\ pc = "filling" => journal' = journal
      /\ pc = "journal" => \E k \in 0 .. task.n - 1 :
            journal' = [s \in Lba |-> IF s \in Block(task.lba, k) THEN TaskFate ELSE journal[s]]
  BY DEF JournalFails
<1>2. TaskFate \in SectorStatus
  BY DEF TaskFate, SectorStatus, ErrorStatus
<1>3. TypeOK'
  <2>1. journal' \in [Lba -> SectorStatus]
    BY <1>1, <1>2 DEF IInv, TypeOK, TypeDisk
  <2>. QED
    BY <1>1, <2>1 DEF IInv, TypeOK, TypeRun, TypeFlags, TypeTable, TypePerform, TypeDisk, TypeHistory,
       process, settings, table, choice, perform, history
<1>4. JournalFresh'
  <2>1. CASE pc = "filling"
    BY <1>1, <2>1 DEF IInv, JournalFresh, RefusedIsFresh, UnreadSectors
  <2>2. CASE pc = "journal"
    BY <1>1, <2>2 DEF IInv, JournalFresh, RefusedIsFresh, JournalInUse, JournalAccepted, JournalWritten, Running
  <2>. QED
    BY <1>1, <2>1, <2>2
<1>. QED
  BY <1>1, <1>3, <1>4 DEF IInv, TableSound, TaskAtEnd, FateTold, TableMatchesJournal,
     ProgressExact, JournalInUse, JournalAccepted, JournalWritten, IdleTable, Running,
     process, table, choice

LEMMA UseResultsIInv == IInv /\ UseResults => IInv'
<1>. SUFFICES ASSUME IInv, UseResults PROVE IInv'
  OBVIOUS
<1>1. /\ pc = "use" /\ pc' = "callback" /\ UpdateZones
      /\ cur' = IF ChooseAnew THEN NoZone ELSE ShrunkCur
      /\ ret' \in {0, 1}
      /\ progress' = [progress EXCEPT !.num = @ + task.n]
      /\ UNCHANGED <<settings, reverse, stage, task, report, errorFlag, buf>>
      /\ UNCHANGED <<interrupt, disk, history>>
  BY DEF UseResults, IInv, TypeOK, TypePerform
<1>2. Failed \in BOOLEAN
  BY DEF Failed
<1>3. ShrunkCur = Shrunk(cur, reverse, task.n, Failed)
  BY DEF ShrunkCur
<1>4. /\ zones' = Replaced(zones, cur, ShrunkCur)
      /\ nbZones' = IF ShrunkCur.begin = ShrunkCur.end THEN nbZones - 1 ELSE nbZones
  BY <1>1 DEF UpdateZones
<1>5. /\ WellFormed(zones') /\ Covered(zones') = Covered(zones) \ TaskSectors
      /\ nbZones' = Cardinality(zones')
  <2>1. /\ WellFormed(zones) /\ cur \in zones /\ reverse \in BOOLEAN
        /\ task.n \in 1 .. Length(cur)
        /\ TaskSectors = Block(IF reverse THEN cur.end - task.n ELSE cur.begin, task.n)
    BY <1>1, TaskFacts
  <2>2. nbZones = Cardinality(zones)
    BY DEF IInv, TableSound
  <2>3. /\ WellFormed(Replaced(zones, cur, ShrunkCur))
        /\ Covered(Replaced(zones, cur, ShrunkCur)) = Covered(zones) \ TaskSectors
        /\ Cardinality(Replaced(zones, cur, ShrunkCur))
             = IF ShrunkCur.begin = ShrunkCur.end
                 THEN Cardinality(zones) - 1 ELSE Cardinality(zones)
    BY <2>1, <1>2, <1>3, ShrinkZone
  <2>. QED
    BY <1>4, <2>2, <2>3
<1>6. cur' # NoZone => cur' \in zones'
  BY <1>1, <1>4 DEF ChooseAnew, Replaced
<1>7. TypeOK'
  <2>1. TypeRun'
    BY <1>1 DEF IInv, TypeOK, TypeRun, settings
  <2>2. TypeFlags'
    BY <1>1, Zenon DEF IInv, TypeOK, TypeFlags, settings
  <2>3. TypeTable'
    <3>1. nbZones' \in Int
      BY <1>5, WellFormedFinite, FS_CardinalityType
    <3>2. cur' \in Zone \cup {NoZone} /\ zones' \subseteq Zone
      BY <1>5, <1>6 DEF WellFormed
    <3>3. progress' \in [num : Nat, den : Nat]
      <4>1. task.n \in Nat
        BY <1>1, TaskFacts
      <4>. QED
        BY <1>1, <4>1 DEF IInv, TypeOK, TypeTable
    <3>. QED
      BY <1>1, <3>1, <3>2, <3>3 DEF IInv, TypeOK, TypeTable
  <2>4. TypePerform'
    BY <1>1 DEF IInv, TypeOK, TypePerform
  <2>5. TypeDisk'
    BY <1>1 DEF IInv, TypeOK, TypeDisk, disk
  <2>6. TypeHistory'
    BY <1>1 DEF IInv, TypeOK, TypeHistory, history
  <2>. QED
    BY <2>1, <2>2, <2>3, <2>4, <2>5, <2>6 DEF TypeOK
<1>8. TableMatchesJournal'
  BY <1>1, <1>5 DEF IInv, TableMatchesJournal, FateTold, Running, settings, disk
<1>9. ProgressExact'
  <2>1. /\ TaskSectors \subseteq Covered(zones) /\ IsFiniteSet(TaskSectors)
        /\ Cardinality(TaskSectors) = task.n /\ task.n \in Nat
        /\ WellFormed(zones)
    BY <1>1, TaskFacts
  <2>2. IsFiniteSet(Covered(zones)) /\ Cardinality(Covered(zones)) \in Nat
    BY <2>1, CoveredFinite
  <2>3. Cardinality(Covered(zones) \ TaskSectors) = Cardinality(Covered(zones)) - task.n
    <3>1. Covered(zones) \cap TaskSectors = TaskSectors
      BY <2>1
    <3>2. Cardinality(Covered(zones) \ TaskSectors)
            = Cardinality(Covered(zones)) - Cardinality(Covered(zones) \cap TaskSectors)
      BY <2>1, <2>2, FS_Difference
    <3>3. Cardinality(Covered(zones) \cap TaskSectors) = task.n
      BY <2>1, <3>1
    <3>. QED
      BY <3>2, <3>3, Zenon
  <2>4. /\ progress.num \in Nat /\ progress.den \in Nat
        /\ progress'.num = progress.num + task.n /\ progress'.den = progress.den
    BY <1>1 DEF IInv, TypeOK, TypeTable
  <2>5. progress.den - progress.num = Cardinality(Covered(zones))
    BY <1>1 DEF IInv, ProgressExact, Running
  <2>. QED
    BY <1>5, <2>1, <2>2, <2>3, <2>4, <2>5 DEF ProgressExact
<1>. QED
  BY <1>1, <1>5, <1>6, <1>7, <1>8, <1>9 DEF IInv, TableSound, TaskAtEnd, FateTold,
     JournalInUse, JournalAccepted, JournalFresh, RefusedIsFresh, JournalWritten, IdleTable, Running, settings, disk

-----------------------------------------------------------------------------
(* Open.  Whatever the journal, the new run's table covers what is unread. *)
LEMMA OpenTableIInv ==
  ASSUME IInv, NEW s \in Strategies, NEW j \in BOOLEAN, NEW d \in Destinations,
         OpenContext(s, j, d),
         NEW zs, WellFormed(zs), NEW n, n = Cardinality(zs),
         NEW den, den = Cardinality(Covered(zs)), UseTable(zs, n, den),
         pc' \in {"filling", "loop"},
         journalFile' \in {"partial", journalFile},
         journalFile' = "partial" => UnreadSectors(journal) = Lba \/ journalFile = "partial",
         j => Covered(zs) = UnreadSectors(journal),
         j /\ pc' # "filling" => JournalAccepted'
  PROVE  IInv'
<1>1. /\ pc = "closed" /\ runs' = runs + 1
      /\ strategy' = s /\ useJournal' = j /\ dest' = d /\ dstEnd' = dstSize[d]
      /\ oldReadahead' = readahead /\ readahead' = "off"
      /\ zones' = zs /\ nbZones' = n /\ progress' = [num |-> 0, den |-> den]
      /\ recordedTo' = IF j THEN recordedTo \cup {d} ELSE recordedTo
      /\ UNCHANGED <<choice, perform, interrupt, journal, dst, dstSize>>
      /\ UNCHANGED <<missed, unnoted, lapsed>>
  BY DEF OpenContext, UseTable
<1>2. /\ IsFiniteSet(zs) /\ n \in Nat /\ den \in Nat /\ zs \subseteq Zone
  BY WellFormedFinite, FS_CardinalityType, CoveredFinite DEF WellFormed
<1>3. cur = NoZone
  BY <1>1 DEF IInv, IdleTable
<1>4. TypeOK'
  <2>1. TypeRun'
    <3>1. s \in {"plain"} \cup SmartStrategies \cup SkipfailStrategies
      BY CopyAssumption
    <3>. QED
      BY <1>1, <3>1 DEF IInv, TypeOK, TypeRun, TypeDisk
  <2>2. TypeFlags'
    BY <1>1, Zenon DEF IInv, TypeOK, TypeFlags, choice, perform
  <2>3. TypeTable'
    BY <1>1, <1>2 DEF IInv, TypeOK, TypeTable, choice
  <2>4. TypePerform'
    BY <1>1 DEF IInv, TypeOK, TypePerform, perform
  <2>5. TypeDisk'
    BY <1>1 DEF IInv, TypeOK, TypeDisk
  <2>6. TypeHistory'
    BY <1>1 DEF IInv, TypeOK, TypeHistory
  <2>. QED
    BY <2>1, <2>2, <2>3, <2>4, <2>5, <2>6 DEF TypeOK
<1>5. TableSound'
  BY <1>1, <1>3 DEF TableSound, choice
<1>6. TableMatchesJournal'
  BY <1>1 DEF TableMatchesJournal
<1>7. ProgressExact'
  BY <1>1, <1>2 DEF ProgressExact
<1>8. JournalFresh'
  BY <1>1 DEF IInv, JournalFresh, RefusedIsFresh
<1>9. JournalInUse'
  BY <1>1 DEF JournalInUse, JournalAccepted
<1>. QED
  BY <1>1, <1>4, <1>5, <1>6, <1>7, <1>8, <1>9
     DEF IInv, TaskAtEnd, FateTold, JournalWritten, IdleTable

LEMMA OpenIInv == IInv /\ Open => IInv'
<1>. SUFFICES ASSUME IInv, Open PROVE IInv'
  OBVIOUS
<1>. USE WholeDeviceTable
<1>1. ASSUME NEW s \in Strategies, NEW d \in Destinations, OpenWithoutJournal(s, d)
      PROVE  IInv'
  <2>1. /\ OpenContext(s, FALSE, d) /\ pc' = "loop" /\ journalFile' = journalFile
        /\ UseTable(WholeDevice, 1, EndLba)
    BY <1>1 DEF OpenWithoutJournal
  <2>. QED
    BY <2>1, OpenTableIInv
<1>2. ASSUME NEW s \in Strategies, NEW d \in Destinations, OpenCreateJournal(s, d)
      PROVE  IInv'
  <2>1. /\ OpenContext(s, TRUE, d) /\ pc' = "filling" /\ journalFile' = "partial"
        /\ UseTable(WholeDevice, 1, EndLba) /\ journalFile = "absent"
    BY <1>2 DEF OpenCreateJournal
  <2>2. UnreadSectors(journal) = Lba
    BY <2>1 DEF IInv, JournalFresh
  <2>. QED
    BY <2>1, <2>2, OpenTableIInv
<1>3. ASSUME NEW s \in Strategies, NEW d \in Destinations, OpenResume(s, d)
      PROVE  IInv'
  <2>1. /\ OpenContext(s, TRUE, d) /\ pc' = "loop"
        /\ journalFile' = journalFile /\ JournalAccepted /\ JournalAccepted'
        /\ UseTable(Parse(journal), Cardinality(Parse(journal)),
                    Cardinality(UnreadSectors(journal)))
    BY <1>3 DEF OpenResume, JournalAccepted
  <2>2. WellFormed(Parse(journal)) /\ Covered(Parse(journal)) = UnreadSectors(journal)
    BY ParseZones
  <2>. QED
    BY <2>1, <2>2, OpenTableIInv
<1>4. ASSUME OpenRefused \/ OpenDstFails PROVE IInv'
  <2>1. /\ pc = "closed" /\ pc' \in {"closed", "aborted"}
        /\ runs' = runs + 1 /\ readahead' = "off" /\ lapsed' \in BOOLEAN
        /\ UNCHANGED <<process, interrupt, journal, journalFile, dst, dstSize>>
        /\ UNCHANGED <<recordedTo, missed, unnoted>>
    BY <1>4 DEF IInv, TypeOK, TypeHistory, OpenRefused, OpenDstFails
  <2>2. TypeOK'
    BY <2>1 DEF IInv, TypeOK, TypeRun, TypeFlags, TypeTable, TypePerform, TypeDisk, TypeHistory,
       process, settings, table, choice, perform
  <2>. QED
    BY <2>1, <2>2 DEF IInv, TableSound, TaskAtEnd, FateTold, TableMatchesJournal,
       ProgressExact, JournalInUse, JournalAccepted, JournalFresh, RefusedIsFresh, JournalWritten, IdleTable, Running,
       process, settings, table, choice, perform
<1>. QED
  BY <1>1, <1>2, <1>3, <1>4 DEF Open

-----------------------------------------------------------------------------
LEMMA StepIInv == IInv /\ Step => IInv'
<1>. SUFFICES ASSUME IInv, Step PROVE IInv'
  OBVIOUS
<1>1. CASE FillJournal \/ SyncJournal
  BY <1>1, FillJournalIInv
<1>2. CASE LoopEnds
  BY <1>2, LoopEndsIInv
<1>3. CASE GetTask
  BY <1>3, ChooseTaskIInv, GivesUpIInv, SplitZoneIInv, SplitAbortsIInv DEF GetTask
<1>4. CASE Read
  BY <1>4, ReadIInv
<1>5. CASE Write
  BY <1>5, WriteIInv
<1>6. CASE WriteJournal
  BY <1>6, WriteJournalIInv
<1>7. CASE UseResults
  BY <1>7, UseResultsIInv
<1>8. CASE Callback
  BY <1>8, CallbackIInv
<1>9. CASE Close
  <2>1. /\ Idle /\ readahead' = oldReadahead
        /\ UNCHANGED <<journal, journalFile, dst, dstSize, history>>
    BY <1>9 DEF Close
  <2>2. TypeDisk' /\ TypeHistory'
    BY <2>1 DEF IInv, TypeOK, TypeRun, TypeDisk, TypeHistory, history
  <2>3. JournalFresh'
    BY <2>1 DEF IInv, JournalFresh, RefusedIsFresh
  <2>. QED
    BY <2>1, <2>2, <2>3, IdleIInv
<1>10. CASE JournalFails
  BY <1>10, JournalFailsIInv
<1>. QED
  BY <1>1, <1>2, <1>3, <1>4, <1>5, <1>6, <1>7, <1>8, <1>9, <1>10 DEF Step

(* A power loss takes no more than the process and some sectors. *)
LEMMA PowerLossIInv == IInv /\ PowerLoss => IInv'
<1>. SUFFICES ASSUME IInv, PowerLoss PROVE IInv'
  OBVIOUS
<1>1. /\ Idle /\ readahead' = "on" /\ lapsed' = FALSE /\ journalFile' \in Survives
      /\ recordedTo' \in {{}, recordedTo} /\ UNCHANGED <<dstSize, runs>>
      /\ "power" \in Faults
  BY DEF PowerLoss
<1>2. PICK l \in Lost :
        journal' = [s \in Lba |-> IF journalFile' = "absent" \/ s \in l
                                    THEN "Unread" ELSE journal[s]]
  BY DEF PowerLoss
<1>3. PICK m \in Lost :
        /\ dst' = [d \in Destinations |->
                     [s \in Lba |-> IF s \in m THEN "none" ELSE dst[d][s]]]
        /\ missed' = [d \in Destinations |->
                        missed[d] \cup {s \in m : dst[d][s] = "source"}]
        /\ unnoted' = [d \in Destinations |->
                        unnoted[d] \cup {s \in m : dst[d][s] = "source"}]
  BY DEF PowerLoss
<1>4. m \subseteq Lba
  BY CopyAssumption
<1>5. TypeDisk'
  <2>1. journal' \in [Lba -> SectorStatus]
    BY <1>2 DEF IInv, TypeOK, TypeDisk, SectorStatus
  <2>2. dst' \in [Destinations -> [Lba -> {"none", "source", "stale"}]]
    BY <1>3 DEF IInv, TypeOK, TypeDisk
  <2>3. journalFile' \in {"absent", "partial", "filled", "synced"}
    BY <1>1 DEF Survives, IInv, TypeOK, TypeDisk
  <2>. QED
    BY <1>1, <2>1, <2>2, <2>3 DEF IInv, TypeOK, TypeDisk
<1>6. TypeHistory'
  BY <1>1, <1>3, <1>4 DEF IInv, TypeOK, TypeHistory
<1>7. JournalFresh'
  BY <1>1, <1>2 DEF JournalFresh, UnreadSectors
<1>. QED
  BY <1>1, <1>5, <1>6, <1>7, IdleIInv

LEMMA NextIInv == IInv /\ [Next]_vars => IInv'
<1>. SUFFICES ASSUME IInv, [Next]_vars PROVE IInv'
  OBVIOUS
<1>1. CASE Open
  BY <1>1, OpenIInv
<1>2. CASE Step
  BY <1>2, StepIInv
<1>3. CASE Interrupt
  BY <1>3, InterruptIInv
<1>4. CASE Crash \/ Reboot
  <2>1. /\ Idle /\ readahead' \in {readahead, "on"} /\ lapsed' \in BOOLEAN
        /\ UNCHANGED <<journal, journalFile, dst, dstSize>>
        /\ UNCHANGED <<runs, recordedTo, missed, unnoted>>
    BY <1>4 DEF Crash, Reboot, disk
  <2>2. TypeDisk' /\ TypeHistory'
    BY <2>1 DEF IInv, TypeOK, TypeDisk, TypeHistory
  <2>3. JournalFresh'
    BY <2>1 DEF IInv, JournalFresh, RefusedIsFresh
  <2>. QED
    BY <2>1, <2>2, <2>3, IdleIInv
<1>5. CASE PowerLoss
  BY <1>5, PowerLossIInv
<1>6. CASE UNCHANGED vars
  <2>1. TypeOK'
    BY <1>6 DEF IInv, TypeOK, TypeRun, TypeFlags, TypeTable, TypePerform, TypeDisk, TypeHistory,
       vars, process, settings, table, choice, perform, disk, history
  <2>2. TableSound' /\ TaskAtEnd' /\ IdleTable'
    BY <1>6 DEF IInv, TableSound, TaskAtEnd, IdleTable, TaskLba, TaskSize,
       vars, process, table, choice, perform
  <2>3. FateTold' /\ TableMatchesJournal' /\ ProgressExact'
    BY <1>6 DEF IInv, FateTold, TableMatchesJournal, ProgressExact, Running,
       TaskSectors, vars, process, settings, table, perform, disk
  <2>4. JournalInUse' /\ JournalFresh' /\ JournalWritten'
    BY <1>6 DEF IInv, JournalInUse, JournalAccepted, JournalFresh, RefusedIsFresh, JournalWritten, Running,
       vars, process, settings, disk
  <2>. QED
    BY <2>1, <2>2, <2>3, <2>4 DEF IInv
<1>. QED
  BY <1>1, <1>2, <1>3, <1>4, <1>5, <1>6 DEF Next

(* The inductive invariant holds in every behaviour: no assumption is made on *)
(* what the devices answer, so it holds with every fault of Faults too.       *)
THEOREM Invariance == Spec => []IInv
<1>1. Init => IInv
  BY InitIInv
<1>2. IInv /\ [Next]_vars => IInv'
  BY NextIInv
<1>. QED
  BY <1>1, <1>2, PTL DEF Spec

(* Every variable keeps its type.  *)
THEOREM TypeCorrect == Spec => []TypeOK
<1>1. IInv => TypeOK
  BY DEF IInv
<1>. QED
  BY <1>1, Invariance, PTL

(* The linked list of zones never overlaps itself, nb_zones counts it and     *)
(* current_zone is in it (split_zone, common_update_zones, the open handler). *)
THEOREM TableIsSound == Spec => []TableSound
<1>1. IInv => TableSound
  BY DEF IInv
<1>. QED
  BY <1>1, Invariance, PTL

(* The zones in memory and the journal on disk name the same unread sectors,  *)
(* but between the journal's write and use_results: a process that dies at    *)
(* any step resumes with the sectors it had left.                             *)
THEOREM JournalKeepsTable == Spec => []TableMatchesJournal
<1>1. IInv => TableMatchesJournal
  BY DEF IInv
<1>. QED
  BY <1>1, Invariance, PTL

(* progress.den - progress.num is what is left in the table.  *)
THEOREM ProgressIsExact == Spec => []ProgressExact
<1>1. IInv => ProgressExact
  BY DEF IInv
<1>. QED
  BY <1>1, Invariance, PTL

(* The loop of dc_procedure_perform_loop never asks a strategy to choose from *)
(* an empty list, whose first entry every strategy dereferences.              *)
THEOREM TaskFromTable == Spec => [](LoopGoesOn => zones # {})
<1>1. IInv => (LoopGoesOn => zones # {})
  BY TaskHasZone
<1>. QED
  BY <1>1, Invariance, PTL

(* A journal that every later Open refuses, since the process that filled it  *)
(* died, holds no sector's fate.                                              *)
THEOREM RefusedJournalIsFresh ==
  ASSUME "power" \notin Faults PROVE Spec => []RefusedIsFresh
<1>1. IInv => RefusedIsFresh
  BY DEF IInv, JournalFresh
<1>. QED
  BY <1>1, Invariance, PTL

(* No sector whose fate the journal holds is read again.  *)
ReadOnce ==
    pc = "read" /\ useJournal => TaskSectors \subseteq UnreadSectors(journal)

THEOREM ReadsOnce == Spec => []ReadOnce
<1>1. IInv => ReadOnce
  <2>. SUFFICES ASSUME IInv, pc = "read", useJournal
                PROVE  TaskSectors \subseteq UnreadSectors(journal)
    BY DEF ReadOnce
  <2>1. TaskSectors \subseteq Covered(zones)
    BY TaskFacts
  <2>2. Covered(zones) = UnreadSectors(journal)
    BY DEF IInv, TableMatchesJournal, Running
  <2>. QED
    BY <2>1, <2>2
<1>. QED
  BY <1>1, Invariance, PTL

-----------------------------------------------------------------------------
(* However a task is chosen, it is one of the table as it then is, and a      *)
(* choice marks no end of a zone defective that was not.                      *)
LEMMA TaskChosen ==
  ASSUME IInv, GetTask
  PROVE  /\ pc = "loop" /\ stage' \in {0, 1}
         /\ UNCHANGED <<settings, progress, interrupt, disk, history>>
         /\ \/ \E z \in zones', rev \in BOOLEAN :
                 /\ Proceed(z, rev)
                 /\ \/ strategy = "plain" \/ stage' = 1
                    \/ cur # NoZone /\ stage' = stage /\ z = cur /\ rev = reverse
                    \/ SoundEnd(z, rev)
            \/ SkipfailGivesUp
            \/ SplitAborts
         /\ \A y \in zones' :
               /\ y.bdef => \E x \in zones : x.bdef /\ x.begin = y.begin
               /\ y.edef => \E x \in zones : x.edef /\ x.end = y.end
<1>1. CASE PlainTask \/ KeepZone \/ SmartTakeZone \/ SmartReadTheRest \/ SkipfailTakeZone
  BY <1>1, ChosenZone DEF table, Proceed
<1>2. CASE SkipfailGivesUp
  BY <1>2 DEF SkipfailGivesUp, ChooseZone, LoopGoesOn, table, choice, IInv, TypeOK, TypeTable
<1>3. CASE SplitAborts
  BY <1>3 DEF SplitAborts, ChooseZone, LoopGoesOn, process, table, choice, IInv, TypeOK,
     TypeTable
<1>4. CASE SplitZone
  <2>1. PICK c \in Cuts :
          /\ zones' = Split(zones, c.zone, c.at)
          /\ IF strategy \in {"smart", "skipfail"}
               THEN Proceed(Lower(c.zone, c.at), TRUE)
               ELSE Proceed(Upper(c.zone, c.at), FALSE)
    BY <1>4 DEF SplitZone
  <2>2. c.zone \in zones
    BY CutsInTable
  <2>3. /\ zones' = (zones \ {c.zone}) \cup {Lower(c.zone, c.at), Upper(c.zone, c.at)}
        /\ SoundEnd(Lower(c.zone, c.at), TRUE) /\ SoundEnd(Upper(c.zone, c.at), FALSE)
    BY <2>1 DEF Split, SoundEnd, Lower, Upper
  <2>4. \A y \in zones' :
               /\ y.bdef => \E x \in zones : x.bdef /\ x.begin = y.begin
               /\ y.edef => \E x \in zones : x.edef /\ x.end = y.end
    BY <2>2, <2>3 DEF Lower, Upper
  <2>5. pc = "loop" /\ stage' = stage /\ stage \in {0, 1}
    BY <1>4 DEF SplitZone, ChooseZone, LoopGoesOn, IInv, TypeOK, TypeTable
  <2>. QED
    BY <2>1, <2>3, <2>4, <2>5 DEF Proceed
<1>. QED
  BY <1>1, <1>2, <1>3, <1>4 DEF GetTask

-----------------------------------------------------------------------------
(* The strategies' choice of an end. *)
EndIsSound ==
    cur # NoZone /\ strategy # "plain" /\ stage = 0 => SoundEnd(cur, reverse)

LEMMA NextEndIsSound == IInv /\ EndIsSound /\ [Next]_vars => EndIsSound'
<1>. SUFFICES ASSUME IInv, EndIsSound, [Next]_vars PROVE EndIsSound'
  OBVIOUS
<1>1. CASE Open
  <2>1. cur' = NoZone
    <3>1. pc = "closed" /\ cur' = cur
      BY <1>1 DEF Open, OpenWithoutJournal, OpenCreateJournal, OpenResume, OpenRefused,
         OpenDstFails, OpenContext, process, choice
    <3>. QED
      BY <3>1 DEF IInv, IdleTable
  <2>. QED
    BY <2>1 DEF EndIsSound
<1>2. CASE GetTask
  <2>1. CASE \E z \in zones', rev \in BOOLEAN :
               /\ Proceed(z, rev)
               /\ \/ strategy = "plain" \/ stage' = 1
                  \/ cur # NoZone /\ stage' = stage /\ z = cur /\ rev = reverse
                  \/ SoundEnd(z, rev)
    <3>1. PICK z \in zones', rev \in BOOLEAN :
               /\ Proceed(z, rev)
               /\ \/ strategy = "plain" \/ stage' = 1
                  \/ cur # NoZone /\ stage' = stage /\ z = cur /\ rev = reverse
                  \/ SoundEnd(z, rev)
      BY <2>1
    <3>2. cur' = z /\ reverse' = rev /\ strategy' = strategy
      BY <3>1 DEF Proceed, settings
    <3>3. strategy # "plain" /\ stage' = 0 => SoundEnd(z, rev)
      BY <3>1 DEF EndIsSound
    <3>. QED
      BY <3>2, <3>3 DEF EndIsSound, SoundEnd
  <2>2. CASE SkipfailGivesUp \/ SplitAborts
    BY <2>2 DEF EndIsSound, SoundEnd, SkipfailGivesUp, SplitAborts, process, settings, choice
  <2>. QED
    BY <1>2, <2>1, <2>2, TaskChosen
<1>3. CASE UseResults
  <2>1. CASE ChooseAnew
    BY <1>3, <2>1 DEF UseResults, EndIsSound
  <2>2. CASE ~ChooseAnew
    <3>1. /\ cur' = Shrunk(cur, reverse, task.n, Failed)
          /\ UNCHANGED <<strategy, reverse, stage>>
      BY <1>3, <2>2 DEF UseResults, ShrunkCur, settings
    <3>2. strategy # "plain" /\ stage = 0 => ~Failed
      BY <2>2 DEF ChooseAnew, IInv, TypeOK, TypeRun
    <3>. QED
      BY <3>1, <3>2 DEF EndIsSound, SoundEnd, Shrunk, IInv, TypeOK, TypeFlags
  <2>. QED
    BY <2>1, <2>2
<1>4. CASE Close \/ Crash \/ Reboot \/ PowerLoss
  <2>1. cur' = NoZone
    BY <1>4 DEF Close, Crash, Reboot, PowerLoss, Idle
  <2>. QED
    BY <2>1 DEF EndIsSound
<1>5. CASE \/ FillJournal \/ SyncJournal \/ LoopEnds \/ Read \/ Write \/ WriteJournal
           \/ JournalFails \/ Callback \/ Interrupt \/ UNCHANGED vars
  <2>1. UNCHANGED <<strategy, cur, reverse, stage>>
    BY <1>5 DEF FillJournal, SyncJournal, LoopEnds, Read, Write, WriteJournal, JournalFails,
       Callback, Interrupt, vars, process, settings, choice
  <2>. QED
    BY <2>1 DEF EndIsSound, SoundEnd
<1>. QED
  BY <1>1, <1>2, <1>3, <1>4, <1>5 DEF Next, Step

(* Smart until its last stage and skipfail read no block next to a sector     *)
(* they know to have failed: whatever was read before, and across cuts, jumps *)
(* and resumes, the end they continue from is a sound one.                    *)
THEOREM DefectsAreAvoided == Spec => []AvoidsDefects
<1>1. Init => IInv /\ EndIsSound
  BY InitIInv DEF Init, EndIsSound
<1>2. (IInv /\ EndIsSound) /\ [Next]_vars => (IInv /\ EndIsSound)'
  BY NextIInv, NextEndIsSound
<1>3. IInv /\ EndIsSound => AvoidsDefects
  <2>1. IInv /\ pc = "read" => cur # NoZone
    BY SizeAssumption DEF IInv, TaskAtEnd, TableSound, WellFormed, NoZone
  <2>. QED
    BY <2>1 DEF EndIsSound, SoundEnd, AvoidsDefects
<1>. QED
  BY <1>1, <1>2, <1>3, PTL DEF Spec

-----------------------------------------------------------------------------
(* The flags of a zone's ends.  What is passed to use_results is what the     *)
(* journal was told, as long as no write of the destination fails: such a     *)
(* failure makes the block a failed one for the table alone.                  *)
StatusAgrees ==
    pc \in {"read", "write", "journal", "use"} => (Failed <=> errorFlag)

FateRecorded ==
    pc = "use" /\ useJournal => \A s \in TaskSectors : journal[s] = TaskFate

FlagInv == StatusAgrees /\ FateRecorded /\ FlagsJustified

(* Both flags of a zone are justified by a journal. *)
Justified(z, j) ==
    /\ z.bdef => z.begin - 1 \in Lba /\ j[z.begin - 1] \in ErrorStatus
    /\ z.edef => z.end \in Lba /\ j[z.end] \in ErrorStatus

LEMMA FlagsByZone ==
  FlagsJustified <=> (Running /\ useJournal => \A z \in zones : Justified(z, journal))
BY DEF FlagsJustified, Justified, FailedAt

LEMMA QuietFlags ==
  ASSUME FlagInv, Running, UNCHANGED <<useJournal, zones, journal>>
  PROVE  FlagsJustified'
BY DEF FlagInv, FlagsJustified, FailedAt, Running

LEMMA OpenFlags == IInv /\ FlagInv /\ Open => FlagInv'
<1>. SUFFICES ASSUME IInv, FlagInv, Open PROVE FlagInv'
  OBVIOUS
<1>1. pc' \in {"loop", "filling", "closed", "aborted"}
  BY DEF Open, OpenWithoutJournal, OpenCreateJournal, OpenResume, OpenRefused, OpenDstFails
<1>2. CASE \E s \in Strategies, d \in Destinations :
             OpenWithoutJournal(s, d) \/ OpenCreateJournal(s, d)
  <2>1. zones' = WholeDevice
    BY <1>2 DEF OpenWithoutJournal, OpenCreateJournal, UseTable
  <2>2. FlagsJustified'
    BY <2>1 DEF FlagsJustified, FailedAt, WholeDevice
  <2>. QED
    BY <1>1, <2>2 DEF FlagInv, StatusAgrees, FateRecorded
<1>3. CASE \E s \in Strategies, d \in Destinations : OpenResume(s, d)
  <2>1. zones' = Parse(journal) /\ journal' = journal
    BY <1>3 DEF OpenResume, OpenContext, UseTable
  <2>2. FlagsJustified'
    BY <2>1, ParseZones DEF FlagsJustified, FailedAt
  <2>. QED
    BY <1>1, <2>2 DEF FlagInv, StatusAgrees, FateRecorded
<1>4. CASE OpenRefused \/ OpenDstFails
  <2>1. ~Running'
    BY <1>4 DEF OpenRefused, OpenDstFails, Running
  <2>. QED
    BY <1>1, <2>1 DEF FlagInv, StatusAgrees, FateRecorded, FlagsJustified, FailedAt
<1>. QED
  BY <1>2, <1>3, <1>4 DEF Open

LEMMA GetTaskFlags == IInv /\ FlagInv /\ GetTask => FlagInv'
<1>. SUFFICES ASSUME IInv, FlagInv, GetTask PROVE FlagInv'
  OBVIOUS
<1>1. pc = "loop" /\ UNCHANGED <<useJournal, journal>>
  BY TaskChosen DEF settings, disk
<1>2. FlagsJustified'
  <2>1. CASE useJournal
    <3>1. \A x \in zones : Justified(x, journal)
      BY <1>1, <2>1, FlagsByZone DEF FlagInv, Running
    <3>2. ASSUME NEW y \in zones' PROVE Justified(y, journal)
      <4>1. /\ y.bdef => \E x \in zones : x.bdef /\ x.begin = y.begin
            /\ y.edef => \E x \in zones : x.edef /\ x.end = y.end
        BY <3>2, TaskChosen
      <4>. QED
        BY <3>1, <4>1 DEF Justified
    <3>. QED
      BY <1>1, <3>2 DEF FlagsJustified, FailedAt, Justified
  <2>2. CASE ~useJournal
    BY <1>1, <2>2 DEF FlagsJustified, FailedAt
  <2>. QED
    BY <2>1, <2>2
<1>3. StatusAgrees' /\ FateRecorded'
  <2>1. CASE SkipfailGivesUp \/ SplitAborts
    BY <2>1 DEF SkipfailGivesUp, SplitAborts, StatusAgrees, FateRecorded
  <2>2. CASE \E z \in zones', rev \in BOOLEAN : Proceed(z, rev)
    BY <2>2 DEF Proceed, StatusAgrees, FateRecorded, Failed
  <2>. QED
    BY <2>1, <2>2, TaskChosen
<1>. QED
  BY <1>2, <1>3 DEF FlagInv

LEMMA ReadWriteFlags ==
  ASSUME "write" \notin Faults, IInv, FlagInv, Read \/ Write
  PROVE  FlagInv'
<1>1. /\ pc \in {"read", "write"} /\ UNCHANGED <<useJournal, zones, journal>>
  BY DEF Read, Write, settings, table, disk
<1>2. FlagsJustified'
  BY <1>1, QuietFlags DEF Running
<1>3. StatusAgrees'
  <2>1. CASE Read
    <3>1. report.status \in {"ok", "error"} /\ (Failed <=> errorFlag) /\ pc = "read"
      BY <2>1 DEF Read, FlagInv, StatusAgrees, IInv, TypeOK, TypePerform
    <3>2. CASE ReadGood \/ IoctlFails \/ ReadLost
      BY <3>1, <3>2 DEF ReadGood, IoctlFails, ReadLost, StatusAgrees, Failed
    <3>3. CASE ReadBad
      <4>1. errorFlag' = TRUE /\ report'.status = "error"
        BY <3>3 DEF ReadBad, IInv, TypeOK, TypePerform
      <4>. QED
        BY <4>1 DEF StatusAgrees, Failed
    <3>. QED
      BY <2>1, <3>2, <3>3 DEF Read
  <2>2. CASE Write
    BY <2>2 DEF Write, WriteSkipped, WriteDone, WriteFails, FlagInv, StatusAgrees, Failed
  <2>. QED
    BY <2>1, <2>2
<1>4. FateRecorded'
  BY DEF Read, Write, FateRecorded, settings
<1>. QED
  BY <1>2, <1>3, <1>4 DEF FlagInv

(* The fate of a block overwrites only unread sectors, next to which no flag  *)
(* was set.                                                                   *)
LEMMA WriteJournalFlags == IInv /\ FlagInv /\ WriteJournal => FlagInv'
<1>. SUFFICES ASSUME IInv, FlagInv, WriteJournal PROVE FlagInv'
  OBVIOUS
<1>1. /\ pc = "journal" /\ pc' = "use" /\ UNCHANGED process
      /\ journal' = [s \in Lba |-> IF s \in TaskSectors THEN TaskFate ELSE journal[s]]
  BY DEF WriteJournal
<1>2. TaskSectors' = TaskSectors /\ TaskFate' = TaskFate /\ Failed' = Failed
  BY <1>1 DEF TaskSectors, TaskFate, Failed, process, perform
<1>3. UNCHANGED <<zones, useJournal, errorFlag>>
  BY <1>1 DEF process, settings, table, perform
<1>4. TaskSectors \subseteq UnreadSectors(journal) /\ TaskSectors \subseteq Lba
  <2>1. TaskSectors \subseteq Covered(zones)
    BY <1>1, TaskFacts
  <2>2. useJournal /\ Covered(zones) = UnreadSectors(journal)
    BY <1>1 DEF IInv, TableMatchesJournal, JournalWritten, Running
  <2>. QED
    BY <2>1, <2>2 DEF UnreadSectors
<1>5. StatusAgrees'
  BY <1>1, <1>2, <1>3 DEF FlagInv, StatusAgrees
<1>6. FateRecorded'
  BY <1>1, <1>2, <1>4 DEF FateRecorded
<1>7. FlagsJustified'
  <2>1. \A s \in Lba : journal[s] \in ErrorStatus => journal'[s] = journal[s]
    BY <1>1, <1>4 DEF UnreadSectors, ErrorStatus
  <2>2. Running
    BY <1>1 DEF Running
  <2>. QED
    BY <1>3, <2>1, <2>2 DEF FlagInv, FlagsJustified, FailedAt
<1>. QED
  BY <1>5, <1>6, <1>7 DEF FlagInv

(* What is left of a zone ends at the block, so the block's fate tells.  *)
LEMMA UseResultsFlags == IInv /\ FlagInv /\ UseResults => FlagInv'
<1>. SUFFICES ASSUME IInv, FlagInv, UseResults PROVE FlagInv'
  OBVIOUS
<1>. DEFINE w == Shrunk(cur, reverse, task.n, Failed)
<1>1. /\ pc = "use" /\ pc' = "callback" /\ UNCHANGED <<useJournal, journal>>
      /\ zones' = Replaced(zones, cur, w)
  BY DEF UseResults, UpdateZones, ShrunkCur, settings, disk
<1>2. StatusAgrees' /\ FateRecorded'
  BY <1>1 DEF StatusAgrees, FateRecorded
<1>3. CASE useJournal
  <2>1. \A z \in zones : Justified(z, journal)
    BY <1>1, <1>3, FlagsByZone DEF FlagInv, Running
  <2>2. /\ cur \in zones /\ WellFormed(zones) /\ reverse \in BOOLEAN
        /\ task.n \in 1 .. Length(cur) /\ task.n \in Nat
        /\ TaskSectors = Block(IF reverse THEN cur.end - task.n ELSE cur.begin, task.n)
    BY <1>1, TaskFacts
  <2>3. /\ cur.begin \in Int /\ cur.end \in Int /\ 0 <= cur.begin /\ cur.end <= EndLba
        /\ cur.begin < cur.end /\ EndLba \in Int
    BY <2>2, SizeAssumption DEF WellFormed, Zone, Lba
  <2>4. Failed => \A s \in TaskSectors : journal[s] \in ErrorStatus
    <3>1. Failed => TaskFate \in ErrorStatus
      BY <1>1 DEF FlagInv, StatusAgrees, TaskFate, ErrorStatus
    <3>. QED
      BY <1>1, <1>3, <3>1 DEF FlagInv, FateRecorded
  <2>5. Justified(cur, journal)
    BY <2>1, <2>2
  <2>6. w.begin # w.end => Justified(w, journal)
    <3>1. CASE reverse
      <4>1. /\ w.begin = cur.begin /\ w.end = cur.end - task.n
            /\ w.bdef = cur.bdef /\ w.edef = Failed
        BY <3>1 DEF Shrunk
      <4>2. cur.end - task.n \in TaskSectors
        BY <2>2, <2>3, <3>1 DEF Block
      <4>3. cur.end - task.n \in Lba
        BY <2>2, <2>3 DEF Lba, Length
      <4>. HIDE DEF w
      <4>. QED
        BY <2>4, <2>5, <4>1, <4>2, <4>3 DEF Justified
    <3>2. CASE ~reverse
      <4>1. /\ w.begin = cur.begin + task.n /\ w.end = cur.end
            /\ w.bdef = Failed /\ w.edef = cur.edef
        BY <2>2, <3>2 DEF Shrunk
      <4>. HIDE DEF w
      <4>2. w.begin - 1 = cur.begin + task.n - 1
        BY <2>2, <2>3, <4>1
      <4>3. cur.begin + task.n - 1 \in TaskSectors
        BY <2>2, <2>3, <3>2 DEF Block
      <4>4. cur.begin + task.n - 1 \in Lba
        BY <2>2, <2>3 DEF Lba, Length
      <4>. QED
        BY <2>4, <2>5, <4>1, <4>2, <4>3, <4>4 DEF Justified
    <3>. QED
      BY <2>2, <3>1, <3>2
  <2>7. \A z \in zones' : Justified(z, journal)
    <3>. HIDE DEF w
    <3>. QED
      BY <1>1, <2>1, <2>6 DEF Replaced
  <2>8. FlagsJustified'
    BY <1>1, <2>7 DEF FlagsJustified, FailedAt, Justified
  <2>. QED
    BY <1>2, <2>8 DEF FlagInv
<1>4. CASE ~useJournal
  BY <1>1, <1>2, <1>4 DEF FlagInv, FlagsJustified, FailedAt
<1>. QED
  BY <1>3, <1>4

LEMMA NextFlags ==
  ASSUME "write" \notin Faults, IInv, FlagInv, [Next]_vars
  PROVE  FlagInv'
<1>1. CASE Open
  BY <1>1, OpenFlags
<1>2. CASE GetTask
  BY <1>2, GetTaskFlags
<1>3. CASE Read \/ Write
  BY <1>3, ReadWriteFlags
<1>4. CASE WriteJournal
  BY <1>4, WriteJournalFlags
<1>5. CASE UseResults
  BY <1>5, UseResultsFlags
<1>6. CASE FillJournal \/ SyncJournal \/ LoopEnds \/ Callback
  <2>1. /\ Running /\ pc' \notin {"read", "write", "journal", "use"}
        /\ UNCHANGED <<useJournal, zones, journal>>
    BY <1>6 DEF FillJournal, SyncJournal, LoopEnds, Callback, Running, process, settings,
       table, disk
  <2>. QED
    BY <2>1, QuietFlags DEF FlagInv, StatusAgrees, FateRecorded
<1>7. CASE JournalFails \/ Close \/ Crash \/ Reboot \/ PowerLoss
  <2>1. pc' \in {"aborted", "closed"}
    BY <1>7 DEF JournalFails, Close, Crash, Reboot, PowerLoss, Idle
  <2>. QED
    BY <2>1 DEF FlagInv, StatusAgrees, FateRecorded, FlagsJustified, FailedAt, Running
<1>8. CASE Interrupt \/ UNCHANGED vars
  <2>1. UNCHANGED <<pc, process, disk>>
    BY <1>8 DEF Interrupt, vars
  <2>. QED
    BY <2>1 DEF FlagInv, StatusAgrees, FateRecorded, FlagsJustified, FailedAt, Running, Failed,
       TaskSectors, TaskFate, process, settings, table, perform, disk
<1>. QED
  BY <1>1, <1>2, <1>3, <1>4, <1>5, <1>6, <1>7, <1>8 DEF Next, Step

(* A run that just began has all flags the journal asks for. *)
CallbackMoved == pc = "callback" /\ ret = 0 => progress.num > 0

RebuiltInv == FlagsRebuilt /\ CallbackMoved

LEMMA OpenRebuilt == IInv /\ RebuiltInv /\ Open => RebuiltInv'
<1>. SUFFICES ASSUME IInv, RebuiltInv, Open PROVE RebuiltInv'
  OBVIOUS
<1>1. pc' \in {"loop", "filling", "closed", "aborted"}
  BY DEF Open, OpenWithoutJournal, OpenCreateJournal, OpenResume, OpenRefused, OpenDstFails
<1>2. CASE \E s \in Strategies, d \in Destinations : OpenWithoutJournal(s, d)
  <2>1. useJournal' = FALSE
    BY <1>2 DEF OpenWithoutJournal, OpenContext
  <2>. QED
    BY <1>1, <2>1 DEF RebuiltInv, FlagsRebuilt, CallbackMoved
<1>3. CASE \E s \in Strategies, d \in Destinations : OpenCreateJournal(s, d)
  <2>1. journal' = journal /\ UnreadSectors(journal) = Lba
    BY <1>3 DEF OpenCreateJournal, OpenContext, IInv, JournalFresh
  <2>2. \A s \in Lba : journal'[s] = "Unread"
    BY <2>1 DEF UnreadSectors
  <2>. QED
    BY <1>1, <2>2 DEF RebuiltInv, FlagsRebuilt, CallbackMoved, FailedAt, ErrorStatus
<1>4. CASE \E s \in Strategies, d \in Destinations : OpenResume(s, d)
  <2>1. zones' = Parse(journal) /\ journal' = journal
    BY <1>4 DEF OpenResume, OpenContext, UseTable
  <2>2. ASSUME NEW z \in Parse(journal)
        PROVE  (FailedAt(z.begin - 1) => z.bdef) /\ (FailedAt(z.end) => z.edef)
    <3>1. PICK b \in Lba, e \in 1 .. EndLba : z = RunZone(journal, b, e)
      BY <2>2 DEF Parse
    <3>2. /\ z.begin = b /\ z.end = e
          /\ z.bdef = (b > 0 /\ journal[b - 1] \in ErrorStatus)
          /\ z.edef = (e < EndLba /\ journal[e] \in ErrorStatus)
      BY <3>1 DEF RunZone
    <3>3. (b - 1 \in Lba => b > 0) /\ (e \in Lba => e < EndLba)
      BY SizeAssumption DEF Lba
    <3>. QED
      BY <3>2, <3>3 DEF FailedAt
  <2>. QED
    BY <1>1, <2>1, <2>2 DEF RebuiltInv, FlagsRebuilt, CallbackMoved, FailedAt
<1>5. CASE OpenRefused \/ OpenDstFails
  <2>1. pc' \in {"closed", "aborted"}
    BY <1>5 DEF OpenRefused, OpenDstFails
  <2>. QED
    BY <2>1 DEF RebuiltInv, FlagsRebuilt, CallbackMoved
<1>. QED
  BY <1>2, <1>3, <1>4, <1>5 DEF Open

LEMMA NextRebuilt == IInv /\ RebuiltInv /\ [Next]_vars => RebuiltInv'
<1>. SUFFICES ASSUME IInv, RebuiltInv, [Next]_vars PROVE RebuiltInv'
  OBVIOUS
<1>1. CASE Open
  BY <1>1, OpenRebuilt
<1>2. CASE GetTask
  <2>1. pc' \in {"read", "aborted"} \/ (pc' = "callback" /\ ret' = 1)
    BY <1>2, TaskChosen DEF Proceed, SkipfailGivesUp, SplitAborts
  <2>. QED
    BY <2>1 DEF RebuiltInv, FlagsRebuilt, CallbackMoved
<1>3. CASE FillJournal \/ SyncJournal
  <2>1. /\ pc \in {"filling", "syncing"} /\ pc' \in {"syncing", "loop"}
        /\ UNCHANGED <<progress, useJournal, zones, journal>>
    BY <1>3 DEF FillJournal, SyncJournal, process, settings, table
  <2>. QED
    BY <2>1 DEF RebuiltInv, FlagsRebuilt, CallbackMoved, FailedAt
<1>4. CASE UseResults
  <2>1. pc' = "callback" /\ progress' = [progress EXCEPT !.num = @ + task.n]
    BY <1>4 DEF UseResults
  <2>2. pc = "use"
    BY <1>4 DEF UseResults
  <2>3. task.n \in Nat /\ task.n > 0
    <3>1. task.n \in 1 .. Length(cur) /\ task.n \in Nat
      BY <2>2, TaskFacts
    <3>. QED
      BY <3>1
  <2>4. progress \in [num : Nat, den : Nat]
    BY DEF IInv, TypeOK, TypeTable
  <2>5. progress'.num > 0
    BY <2>1, <2>3, <2>4
  <2>. QED
    BY <2>1, <2>5 DEF RebuiltInv, FlagsRebuilt, CallbackMoved
<1>5. CASE Callback
  <2>1. pc = "callback" /\ pc' = (IF ret = 0 THEN "loop" ELSE "closing") /\ progress' = progress
    BY <1>5 DEF Callback, process
  <2>2. progress.num \in Nat
    BY DEF IInv, TypeOK, TypeTable
  <2>. QED
    BY <2>1, <2>2 DEF RebuiltInv, FlagsRebuilt, CallbackMoved
<1>6. CASE \/ LoopEnds \/ Read \/ Write \/ WriteJournal \/ JournalFails \/ Close
           \/ Crash \/ Reboot \/ PowerLoss
  <2>1. pc' \in {"closing", "write", "journal", "use", "aborted", "closed"}
    BY <1>6 DEF LoopEnds, Read, Write, WriteJournal, JournalFails, Close, Crash, Reboot,
       PowerLoss, Idle
  <2>. QED
    BY <2>1 DEF RebuiltInv, FlagsRebuilt, CallbackMoved
<1>7. CASE Interrupt \/ UNCHANGED vars
  <2>1. UNCHANGED <<pc, progress, useJournal, zones, journal, ret>>
    BY <1>7 DEF Interrupt, vars, process, settings, table, perform, disk
  <2>. QED
    BY <2>1 DEF RebuiltInv, FlagsRebuilt, CallbackMoved, FailedAt
<1>. QED
  BY <1>1, <1>2, <1>3, <1>4, <1>5, <1>6, <1>7 DEF Next, Step

(* While no write of the destination fails, an end of a zone is marked        *)
(* defective only next to a sector the journal shows as failed; and whatever  *)
(* fails, a run that begins marks every end that lies next to one.            *)
THEOREM FlagsAreJustified ==
  ASSUME "write" \notin Faults PROVE Spec => []DefectFlagsJustified
<1>1. Init => IInv /\ FlagInv /\ RebuiltInv
  BY InitIInv DEF Init, FlagInv, StatusAgrees, FateRecorded, FlagsJustified, Running,
     RebuiltInv, FlagsRebuilt, CallbackMoved
<1>2. (IInv /\ FlagInv /\ RebuiltInv) /\ [Next]_vars => (IInv /\ FlagInv /\ RebuiltInv)'
  BY NextIInv, NextFlags, NextRebuilt
<1>3. FlagInv /\ RebuiltInv => DefectFlagsJustified
  BY DEF FlagInv, RebuiltInv, DefectFlagsJustified
<1>. QED
  BY <1>1, <1>2, <1>3, PTL DEF Spec

-----------------------------------------------------------------------------
(* A cut falls inside its zone: smart halves only what is longer than two     *)
(* blocks, skipfail jumps only into what is longer than the jump, which is at *)
(* least a block if skip_blocks is positive and the product fits an int.      *)
LEMMA CutsInside ==
  ASSUME JumpSectors >= SectorsAtOnce, IInv, NEW c \in Cuts
  PROVE  Inside(c.zone, c.at)
<1>1. zones \in SUBSET Zone /\ \A z \in zones : z.begin < z.end
  BY DEF IInv, TableSound, WellFormed
<1>2. ASSUME NEW z \in SmartCut PROVE Inside(z, Middle(z))
  <2>1. z \in zones /\ z \in Zone /\ Length(z) > IndivisibleZone
    BY <1>1, <1>2 DEF SmartCut, SmartCanSplit
  <2>. QED
    BY <2>1, MiddleInside
<1>3. ASSUME NEW z \in SkipfailCut PROVE Inside(z, JumpTarget(z))
  <2>1. z \in Zone /\ Length(z) > JumpSectors
    BY <1>1, <1>3 DEF SkipfailCut, SkipfailChoices, SkipfailJumpable
  <2>2. JumpSectors \in Int
    <3>1. SkipBlocks * SectorsAtOnce \in Int
      BY SizeAssumption
    <3>2. \A x \in Int : WrapInt(x) \in Int
      BY SizeAssumption DEF WrapInt
    <3>. QED
      BY <3>1, <3>2 DEF JumpSectors
  <2>. QED
    BY <2>1, <2>2, JumpInside
<1>4. \/ \E z \in SmartCut : c = [zone |-> z, at |-> Middle(z)]
      \/ \E z \in SkipfailCut : c = [zone |-> z, at |-> JumpTarget(z)]
  BY DEF Cuts
<1>. QED
  BY <1>2, <1>3, <1>4

LEMMA NextNoAbort ==
  ASSUME JumpSectors >= SectorsAtOnce, Faults \cap {"journal", "dstopen"} = {},
         IInv, NoAbort, [Next]_vars
  PROVE  NoAbort'
<1>1. CASE Open
  BY <1>1 DEF NoAbort, Open, OpenWithoutJournal, OpenCreateJournal, OpenResume, OpenRefused,
     OpenDstFails
<1>2. CASE GetTask
  <2>1. ~SplitAborts
    BY CutsInside DEF SplitAborts
  <2>. QED
    BY <1>2, <2>1, TaskChosen DEF NoAbort, SkipfailGivesUp, Proceed
<1>3. CASE \/ FillJournal \/ SyncJournal \/ LoopEnds \/ Read \/ Write \/ WriteJournal
           \/ UseResults \/ Callback \/ Close \/ Crash \/ Reboot \/ PowerLoss
  BY <1>3 DEF NoAbort, FillJournal, SyncJournal, LoopEnds, Read, Write, WriteJournal,
     UseResults, Callback, Close, Crash, Reboot, PowerLoss, Idle
<1>4. CASE JournalFails
  BY <1>4 DEF JournalFails
<1>5. CASE Interrupt \/ UNCHANGED vars
  BY <1>5 DEF NoAbort, Interrupt, vars
<1>. QED
  BY <1>1, <1>2, <1>3, <1>4, <1>5 DEF Next, Step

(* No assertion of split_zone stops the program, whatever the strategies cut  *)
(* and in which order: what remains are the asserts on the destination's open *)
(* and on the journal's write, and a jump shorter than a block.               *)
THEOREM NothingAborts ==
  ASSUME JumpSectors >= SectorsAtOnce, Faults \cap {"journal", "dstopen"} = {}
  PROVE  Spec => []NoAbort
<1>1. Init => IInv /\ NoAbort
  BY InitIInv DEF Init, NoAbort
<1>2. (IInv /\ NoAbort) /\ [Next]_vars => (IInv /\ NoAbort)'
  BY NextIInv, NextNoAbort
<1>. QED
  BY <1>1, <1>2, PTL DEF Spec

-----------------------------------------------------------------------------
(* Why a run stops. *)
OnlyHopelessLeft ==
    strategy \in SkipfailStrategies /\ \A z \in zones : z.bdef /\ ~SkipfailJumpable(z)

WhyPerformFails ==
    /\ pc \in {"read", "write", "journal", "use"} => ret = 0
    /\ pc = "callback" /\ ret # 0 =>
          \/ dstEnd \in 1 .. EndLba - 1
          \/ strategy = "plain" /\ Failed
          \/ OnlyHopelessLeft

StopInv == WhyPerformFails /\ StopsForAReason

(* A loop that ends of itself has emptied the table. *)
LEMMA LoopEndsEmpty ==
  ASSUME IInv, LoopEnds, ~interrupt
  PROVE  zones = {}
<1>1. WellFormed(zones) /\ progress.num >= progress.den
      /\ progress.den - progress.num = Cardinality(Covered(zones))
      /\ progress.num \in Nat /\ progress.den \in Nat
  BY DEF IInv, TableSound, ProgressExact, TypeOK, TypeTable, LoopEnds, Running
<1>2. IsFiniteSet(Covered(zones)) /\ Cardinality(Covered(zones)) \in Nat
  BY <1>1, CoveredFinite
<1>3. Cardinality(Covered(zones)) = 0
  BY <1>1, <1>2
<1>4. Covered(zones) = {}
  BY <1>2, <1>3, FS_EmptySet
<1>. SUFFICES ASSUME NEW z \in zones PROVE FALSE
  OBVIOUS
<1>5. z.begin \in Sectors(z)
  BY <1>1, SizeAssumption DEF WellFormed, Zone, Lba, Sectors
<1>. QED
  BY <1>4, <1>5 DEF Covered

LEMMA GetTaskStop == IInv /\ StopInv /\ GetTask => StopInv'
<1>. SUFFICES ASSUME IInv, GetTask PROVE StopInv'
  OBVIOUS
<1>1. pc' # "closing"
  BY TaskChosen DEF Proceed, SkipfailGivesUp, SplitAborts
<1>2. CASE \E z \in zones', rev \in BOOLEAN : Proceed(z, rev)
  <2>1. PICK z \in zones', rev \in BOOLEAN : Proceed(z, rev)
    BY <1>2
  <2>2. CASE Fits(TaskLba(z, rev), TaskSize(z))
    BY <1>1, <2>1, <2>2 DEF Proceed, StopInv, WhyPerformFails, StopsForAReason
  <2>3. CASE ~Fits(TaskLba(z, rev), TaskSize(z))
    <3>1. IInv'
      <4>1. IInv /\ [Next]_vars
        BY DEF Next, Step
      <4>. QED
        BY <4>1, NextIInv
    <3>2. WellFormed(zones') /\ z \in Zone
      BY <3>1 DEF IInv, TableSound, WellFormed
    <3>3. /\ TaskSize(z) \in 1 .. Length(z)
          /\ TaskLba(z, rev) = IF rev THEN z.end - TaskSize(z) ELSE z.begin
      BY <3>2, TaskInZone
    <3>4. z.begin \in Int /\ z.end \in Int /\ z.end <= EndLba /\ EndLba \in Int
      BY <3>2, SizeAssumption DEF Zone, Lba
    <3>5. TaskLba(z, rev) + TaskSize(z) \in Int /\ TaskLba(z, rev) + TaskSize(z) <= EndLba
      BY <3>3, <3>4 DEF Length
    <3>6. dstEnd \in Nat /\ dstEnd # 0 /\ dstEnd < TaskLba(z, rev) + TaskSize(z)
      BY <2>3, <3>5 DEF Fits, IInv, TypeOK, TypeRun
    <3>7. dstEnd \in 1 .. EndLba - 1
      BY <3>4, <3>5, <3>6
    <3>8. pc' = "callback" /\ dstEnd' = dstEnd
      BY <2>1, <2>3 DEF Proceed, settings
    <3>. QED
      BY <3>7, <3>8 DEF StopInv, WhyPerformFails, StopsForAReason
  <2>. QED
    BY <2>2, <2>3
<1>3. CASE SkipfailGivesUp
  <2>1. /\ SkipfailChoices = {} /\ strategy \in SkipfailStrategies
        /\ pc' = "callback" /\ zones' = zones /\ strategy' = strategy
    BY <1>3 DEF SkipfailGivesUp, settings, table
  <2>2. \A z \in zones : z.bdef /\ ~SkipfailJumpable(z)
    BY <2>1 DEF SkipfailChoices
  <2>3. OnlyHopelessLeft'
    BY <2>1, <2>2 DEF OnlyHopelessLeft, SkipfailJumpable
  <2>. QED
    BY <2>1, <2>3 DEF StopInv, WhyPerformFails, StopsForAReason
<1>4. CASE SplitAborts
  BY <1>4 DEF SplitAborts, StopInv, WhyPerformFails, StopsForAReason
<1>. QED
  BY <1>2, <1>3, <1>4, TaskChosen

LEMMA NextStop ==
  ASSUME "ioctl" \notin Faults, IInv, StopInv, [Next]_vars
  PROVE  StopInv'
<1>1. CASE GetTask
  BY <1>1, GetTaskStop
<1>2. CASE LoopEnds
  <2>1. pc' = "closing" /\ interrupt' = interrupt /\ zones' = zones
    BY <1>2 DEF LoopEnds, process, table
  <2>. QED
    BY <1>2, <2>1, LoopEndsEmpty DEF StopInv, WhyPerformFails, StopsForAReason
<1>3. CASE Read \/ Write \/ WriteJournal
  BY <1>3 DEF Read, ReadGood, ReadBad, IoctlFails, ReadLost, Write, WriteJournal, process, perform,
     StopInv, WhyPerformFails, StopsForAReason
<1>4. CASE UseResults
  <2>1. /\ pc = "use" /\ pc' = "callback" /\ report' = report /\ strategy' = strategy
        /\ ret' = IF strategy = "plain" /\ Failed THEN 1 ELSE ret
    BY <1>4 DEF UseResults, settings
  <2>. QED
    BY <2>1 DEF StopInv, WhyPerformFails, StopsForAReason, Failed
<1>5. CASE Callback
  <2>1. /\ pc = "callback" /\ pc' = IF ret = 0 THEN "loop" ELSE "closing"
        /\ UNCHANGED <<strategy, dstEnd, zones, report, interrupt>>
    BY <1>5 DEF Callback, process, settings, table, perform
  <2>. QED
    BY <2>1 DEF StopInv, WhyPerformFails, StopsForAReason, OnlyHopelessLeft, Failed,
       SkipfailJumpable
<1>6. CASE \/ Open \/ FillJournal \/ SyncJournal \/ JournalFails \/ Close \/ Crash \/ Reboot
           \/ PowerLoss
  <2>1. pc' \in {"filling", "syncing", "loop", "closed", "aborted"}
    BY <1>6 DEF Open, OpenWithoutJournal, OpenCreateJournal, OpenResume, OpenRefused,
       OpenDstFails, FillJournal, SyncJournal, JournalFails, Close, Crash, Reboot, PowerLoss,
       Idle
  <2>. QED
    BY <2>1 DEF StopInv, WhyPerformFails, StopsForAReason
<1>7. CASE Interrupt \/ UNCHANGED vars
  <2>1. /\ UNCHANGED <<pc, strategy, dstEnd, zones, report, ret>>
        /\ interrupt' = TRUE \/ interrupt' = interrupt
    BY <1>7 DEF Interrupt, vars, process, settings, table, perform
  <2>. QED
    BY <2>1 DEF StopInv, WhyPerformFails, StopsForAReason, OnlyHopelessLeft, Failed,
       SkipfailJumpable
<1>. QED
  BY <1>1, <1>2, <1>3, <1>4, <1>5, <1>6, <1>7 DEF Next, Step

(* A run that no one interrupted and whose reads are answered leaves sectors  *)
(* unread only for want of room, at plain's first failure, or where skipfail  *)
(* sees nothing but failures too close to each other.                         *)
THEOREM RunsStopForAReason ==
  ASSUME "ioctl" \notin Faults PROVE Spec => []StopsForAReason
<1>1. Init => IInv /\ StopInv
  BY InitIInv DEF Init, StopInv, WhyPerformFails, StopsForAReason
<1>2. (IInv /\ StopInv) /\ [Next]_vars => (IInv /\ StopInv)'
  BY NextIInv, NextStop
<1>3. StopInv => StopsForAReason
  BY DEF StopInv
<1>. QED
  BY <1>1, <1>2, <1>3, PTL DEF Spec

-----------------------------------------------------------------------------
(* While no run died or was refused since the machine started, a device that  *)
(* is not being copied has its readahead, and a run remembers that it had.    *)
ReadaheadOwed ==
    ~lapsed =>
        /\ pc = "closed" => readahead = "on"
        /\ Running => oldReadahead = "on"

LEMMA NextReadaheadOwed == IInv /\ ReadaheadOwed /\ [Next]_vars => ReadaheadOwed'
<1>. SUFFICES ASSUME IInv, ReadaheadOwed, [Next]_vars PROVE ReadaheadOwed'
  OBVIOUS
<1>1. CASE Open
  BY <1>1 DEF Open, OpenWithoutJournal, OpenCreateJournal, OpenResume, OpenContext,
     OpenRefused, OpenDstFails, ReadaheadOwed, Running
<1>2. CASE GetTask
  BY <1>2, TaskChosen DEF ReadaheadOwed, Running, settings, history, Proceed,
     SkipfailGivesUp, SplitAborts
<1>3. CASE \/ FillJournal \/ SyncJournal \/ LoopEnds \/ Read \/ Write \/ WriteJournal
           \/ JournalFails \/ UseResults \/ Callback \/ Interrupt \/ UNCHANGED vars
  <2>1. /\ UNCHANGED <<oldReadahead, readahead, lapsed>>
        /\ pc' = pc \/ (Running /\ pc' # "closed")
    BY <1>3 DEF FillJournal, SyncJournal, LoopEnds, Read, Write, WriteJournal, JournalFails,
       UseResults, Callback, Interrupt, vars, process, settings, disk, history, Running
  <2>. QED
    BY <2>1 DEF ReadaheadOwed, Running
<1>4. CASE Close \/ Crash \/ Reboot \/ PowerLoss
  BY <1>4 DEF Close, Crash, Reboot, PowerLoss, Idle, history, ReadaheadOwed, Running
<1>. QED
  BY <1>1, <1>2, <1>3, <1>4 DEF Next, Step

(* A device is left without readahead only by a run that died or was refused: *)
(* every other gives back what it found, and what it found was not another    *)
(* run's "off".                                                               *)
THEOREM ReadaheadIsExplained == Spec => []ReadaheadExplained
<1>1. Init => IInv /\ ReadaheadOwed
  BY InitIInv DEF Init, ReadaheadOwed, Running
<1>2. (IInv /\ ReadaheadOwed) /\ [Next]_vars => (IInv /\ ReadaheadOwed)'
  BY NextIInv, NextReadaheadOwed
<1>3. ReadaheadOwed => ReadaheadExplained
  BY DEF ReadaheadOwed, ReadaheadExplained
<1>. QED
  BY <1>1, <1>2, <1>3, PTL DEF Spec

-----------------------------------------------------------------------------
(* The data.                                                                  *)
(* A destination has a sector's data, or a call or the power failed for it. *)
Held(d, s) == dst[d][s] = "source" \/ s \in missed[d]

(* A run with a journal is one of those that recordedTo names. *)
DestChosen ==
    Running => dest \in Destinations /\ (useJournal => dest \in recordedTo)

(* As long as the journal served one destination, it tells of its sectors. *)
RecordKept ==
    \A d \in Destinations : recordedTo \subseteq {d} =>
        \A s \in Lba : journal[s] # "Unread" => Held(d, s)

(* Once the block's write is over its sectors need not be read again. *)
BlockHeld ==
    pc \in {"journal", "use"} => \A s \in Lba \cap TaskSectors : Held(dest, s)

(* What has left the table is done with. *)
LeftBehind ==
    Running /\ (useJournal => recordedTo \subseteq {dest}) =>
        \A s \in Lba \ Covered(zones) : Held(dest, s)

DataInv == DestChosen /\ RecordKept /\ BlockHeld /\ LeftBehind

-----------------------------------------------------------------------------
LEMMA InitDataInv == Init => DataInv
BY DEF Init, DataInv, DestChosen, RecordKept, BlockHeld, LeftBehind, Running

(* The end of a process leaves the journal and the destinations as they are. *)
LEMMA IdleDataInv ==
  ASSUME DataInv, pc' \in {"closed", "aborted"},
         UNCHANGED <<journal, dst, missed, recordedTo>>
  PROVE  DataInv'
BY DEF DataInv, DestChosen, RecordKept, BlockHeld, LeftBehind, Running, Held

(* A step that writes neither the journal nor a destination, between the two. *)
LEMMA QuietDataInv ==
  ASSUME DataInv, Running, pc' \notin {"journal", "use"},
         Covered(zones') = Covered(zones),
         UNCHANGED <<dest, useJournal, journal, dst, missed, recordedTo>>
  PROVE  DataInv'
BY DEF DataInv, DestChosen, RecordKept, BlockHeld, LeftBehind, Running, Held

LEMMA SplitZoneCovers == IInv /\ SplitZone => Covered(zones') = Covered(zones)
<1>. SUFFICES ASSUME IInv, SplitZone PROVE Covered(zones') = Covered(zones)
  OBVIOUS
<1>1. PICK c \in Cuts :
        Inside(c.zone, c.at) /\ zones' = Split(zones, c.zone, c.at)
  BY DEF SplitZone
<1>2. c.zone \in zones /\ c.at \in Int /\ WellFormed(zones)
  BY CutsInTable DEF IInv, TableSound
<1>. QED
  BY <1>1, <1>2, SplitZones

LEMMA GetTaskDataInv == IInv /\ DataInv /\ GetTask => DataInv'
<1>. SUFFICES ASSUME IInv, DataInv, GetTask PROVE DataInv'
  OBVIOUS
<1>1. ASSUME NEW z, NEW rev, Proceed(z, rev)
      PROVE  /\ pc' \in {"read", "callback"}
             /\ UNCHANGED <<dest, useJournal, journal, dst, missed, recordedTo>>
  BY <1>1 DEF Proceed, settings, disk, history
<1>2. pc = "loop"
  BY DEF GetTask, PlainTask, KeepZone, SmartTakeZone, SmartReadTheRest,
         SkipfailTakeZone, SkipfailGivesUp, SplitZone, SplitAborts, ChooseZone,
         LoopGoesOn
<1>3. /\ pc' \in {"read", "callback", "aborted"}
      /\ UNCHANGED <<dest, useJournal, journal, dst, missed, recordedTo>>
      /\ Covered(zones') = Covered(zones)
  <2>1. CASE PlainTask
    BY <1>1, <2>1 DEF PlainTask, table
  <2>2. CASE KeepZone
    BY <1>1, <2>2 DEF KeepZone, table
  <2>3. CASE SmartTakeZone
    BY <1>1, <2>3 DEF SmartTakeZone, table
  <2>4. CASE SmartReadTheRest
    BY <1>1, <2>4 DEF SmartReadTheRest, table
  <2>5. CASE SkipfailTakeZone
    BY <1>1, <2>5 DEF SkipfailTakeZone, table
  <2>6. CASE SkipfailGivesUp
    BY <2>6 DEF SkipfailGivesUp, table, settings, disk, history
  <2>7. CASE SplitZone
    <3>1. PICK c \in Cuts :
            Proceed(Lower(c.zone, c.at), TRUE) \/ Proceed(Upper(c.zone, c.at), FALSE)
      BY <2>7 DEF SplitZone
    <3>. QED
      BY <1>1, <2>7, <3>1, SplitZoneCovers
  <2>8. CASE SplitAborts
    BY <2>8 DEF SplitAborts, process, settings, table, disk, history
  <2>. QED
    BY <2>1, <2>2, <2>3, <2>4, <2>5, <2>6, <2>7, <2>8 DEF GetTask
<1>. QED
  BY <1>2, <1>3, QuietDataInv DEF Running

-----------------------------------------------------------------------------
(* A new run's table leaves out what the journal records, and no more. *)
LEMMA OpenDataInv == IInv /\ DataInv /\ Open => DataInv'
<1>. SUFFICES ASSUME IInv, DataInv, Open PROVE DataInv'
  OBVIOUS
<1>1. ASSUME NEW s \in Strategies, NEW j \in BOOLEAN, NEW d \in Destinations,
             OpenContext(s, j, d), pc' \in {"filling", "loop"},
             j => UnreadSectors(journal) \subseteq Covered(zones'),
             ~j => Lba \subseteq Covered(zones')
      PROVE  DataInv'
  <2>1. /\ dest' = d /\ useJournal' = j /\ UNCHANGED <<journal, dst, missed>>
        /\ recordedTo' = IF j THEN recordedTo \cup {d} ELSE recordedTo
    BY <1>1 DEF OpenContext
  <2>2. DestChosen' /\ BlockHeld'
    BY <1>1, <2>1 DEF DestChosen, BlockHeld
  <2>3. RecordKept'
    BY <2>1 DEF DataInv, RecordKept, Held
  <2>4. LeftBehind'
    <3>. SUFFICES ASSUME j => recordedTo' \subseteq {d}, NEW t \in Lba \ Covered(zones')
                  PROVE  dst[d][t] = "source" \/ t \in missed[d]
      BY <2>1 DEF LeftBehind, Held
    <3>1. j /\ journal[t] # "Unread" /\ recordedTo \subseteq {d}
      BY <1>1, <2>1 DEF UnreadSectors
    <3>. QED
      BY <3>1 DEF DataInv, RecordKept, Held
  <2>. QED
    BY <2>2, <2>3, <2>4 DEF DataInv
<1>2. ASSUME NEW s \in Strategies, NEW d \in Destinations,
             OpenWithoutJournal(s, d) \/ OpenCreateJournal(s, d)
      PROVE  DataInv'
  <2>1. /\ pc' \in {"filling", "loop"} /\ zones' = WholeDevice
        /\ \E j \in BOOLEAN : OpenContext(s, j, d)
    BY <1>2 DEF OpenWithoutJournal, OpenCreateJournal, UseTable
  <2>2. UnreadSectors(journal) \subseteq Covered(zones') /\ Lba \subseteq Covered(zones')
    BY <2>1, WholeDeviceTable DEF UnreadSectors
  <2>. QED
    BY <1>1, <2>1, <2>2
<1>3. ASSUME NEW s \in Strategies, NEW d \in Destinations, OpenResume(s, d)
      PROVE  DataInv'
  <2>1. pc' = "loop" /\ OpenContext(s, TRUE, d) /\ zones' = Parse(journal)
    BY <1>3 DEF OpenResume, UseTable
  <2>2. Covered(zones') = UnreadSectors(journal)
    BY <2>1, ParseZones
  <2>. QED
    BY <1>1, <2>1, <2>2
<1>4. CASE OpenRefused \/ OpenDstFails
  BY <1>4, IdleDataInv DEF OpenRefused, OpenDstFails
<1>. QED
  BY <1>2, <1>3, <1>4 DEF Open

-----------------------------------------------------------------------------
(* A write never takes from a destination what it held. *)
LEMMA WriteHolds ==
  ASSUME IInv, DataInv, Write
  PROVE  /\ \A s \in Lba \cap TaskSectors : Held(dest, s)'
         /\ \A d \in Destinations, s \in Lba : Held(d, s) => Held(d, s)'
<1>0. /\ pc = "write" /\ dest' = dest /\ dest \in Destinations
      /\ dst \in [Destinations -> [Lba -> {"none", "source", "stale"}]]
      /\ missed \in [Destinations -> SUBSET Lba]
  BY DEF Write, settings, DataInv, DestChosen, Running, IInv, TypeOK, TypeDisk, TypeHistory
<1>1. task.n \in Nat /\ task.lba \in Int /\ TaskSectors = Block(task.lba, task.n)
  BY <1>0, TaskFacts DEF TaskSectors
<1>2. ASSUME NEW k \in 0 .. task.n, WriteSectors(k)
      PROVE  /\ \A d \in Destinations \ {dest} : dst'[d] = dst[d]
             /\ \A s \in Lba : dst'[dest][s] =
                   IF s \in Block(task.lba, k) THEN buf ELSE dst[dest][s]
             /\ Block(task.lba, k) \subseteq TaskSectors
  <2>1. dst' = [dst EXCEPT ![dest] =
                  [s \in Lba |-> IF s \in Block(task.lba, k) THEN buf ELSE dst[dest][s]]]
    BY <1>2, <1>0 DEF WriteSectors
  <2>. QED
    BY <1>0, <1>1, <2>1 DEF Block
<1>3. /\ \A d \in Destinations \ {dest} : dst'[d] = dst[d]
      /\ \A s \in Lba \ TaskSectors : dst'[dest][s] = dst[dest][s]
  <2>1. CASE WriteSkipped
    BY <2>1 DEF WriteSkipped
  <2>2. CASE WriteDone
    BY <1>1, <1>2, <2>2 DEF WriteDone
  <2>3. CASE WriteFails
    <3>1. PICK k \in 0 .. task.n - 1 : WriteSectors(k)
      BY <2>3 DEF WriteFails
    <3>2. k \in 0 .. task.n
      BY <1>1, <3>1
    <3>. QED
      BY <1>2, <3>1, <3>2
  <2>. QED
    BY <2>1, <2>2, <2>3 DEF Write
<1>4. CASE Miss
  <2>1. missed' = [missed EXCEPT ![dest] =
                     missed[dest] \cup {s \in TaskSectors : dst'[dest][s] # "source"}]
    BY <1>4 DEF Miss, Missed
  <2>2. /\ missed'[dest] =
              missed[dest] \cup {s \in TaskSectors : dst'[dest][s] # "source"}
        /\ \A d \in Destinations \ {dest} : missed'[d] = missed[d]
    BY <1>0, <2>1
  <2>. QED
    BY <1>0, <1>3, <2>2 DEF Held
<1>5. CASE /\ WriteSectors(task.n) /\ buf = "source"
           /\ missed' = [missed EXCEPT ![dest] = @ \ TaskSectors]
  <2>1. /\ missed'[dest] = missed[dest] \ TaskSectors
        /\ \A d \in Destinations \ {dest} : missed'[d] = missed[d]
    BY <1>0, <1>5
  <2>2. \A s \in Lba \cap TaskSectors : dst'[dest][s] = "source"
    BY <1>1, <1>2, <1>5
  <2>. QED
    BY <1>0, <1>3, <2>1, <2>2 DEF Held
<1>. QED
  BY <1>4, <1>5 DEF Write, WriteSkipped, WriteDone, WriteFails, MissUnnoted, MissNothing

LEMMA WriteDataInv == IInv /\ DataInv /\ Write => DataInv'
<1>. SUFFICES ASSUME IInv, DataInv, Write PROVE DataInv'
  OBVIOUS
<1>1. /\ pc = "write" /\ pc' \in {"journal", "use"}
      /\ UNCHANGED <<dest, useJournal, zones, task, journal, recordedTo>>
  BY DEF Write, settings, table
<1>2. DestChosen'
  BY <1>1 DEF DataInv, DestChosen, Running
<1>3. RecordKept'
  BY <1>1, WriteHolds DEF DataInv, RecordKept
<1>4. BlockHeld'
  <2>1. \A s \in Lba \cap TaskSectors : dst'[dest][s] = "source" \/ s \in missed'[dest]
    BY <1>1, WriteHolds DEF Held
  <2>. QED
    BY <1>1, <2>1 DEF BlockHeld, TaskSectors, Held
<1>5. LeftBehind'
  <2>1. dest \in Destinations
    BY <1>1 DEF DataInv, DestChosen, Running
  <2>2. Running
    BY <1>1 DEF Running
  <2>. QED
    BY <1>1, <2>1, <2>2, WriteHolds DEF DataInv, LeftBehind, Held
<1>. QED
  BY <1>2, <1>3, <1>4, <1>5 DEF DataInv

(* The journal is told of the block that was written, in full or in part. *)
LEMMA RecordDataInv ==
  ASSUME IInv, DataInv, pc = "journal", pc' \in {"use", "aborted"},
         UNCHANGED <<process, dst, missed, recordedTo>>,
         \A s \in Lba \ TaskSectors : journal'[s] = journal[s]
  PROVE  DataInv'
<1>1. Running /\ UNCHANGED <<dest, useJournal, zones, task>>
  BY DEF Running, process, settings, table, perform
<1>2. DestChosen'
  BY <1>1 DEF DataInv, DestChosen, Running
<1>3. RecordKept'
  <2>. SUFFICES ASSUME NEW d \in Destinations, recordedTo \subseteq {d},
                       NEW s \in Lba, journal'[s] # "Unread"
                PROVE  Held(d, s)
    BY DEF RecordKept, Held
  <2>1. CASE s \in TaskSectors
    <3>1. dest = d
      BY <1>1 DEF DataInv, DestChosen, IInv, JournalWritten
    <3>. QED
      BY <2>1, <3>1 DEF DataInv, BlockHeld
  <2>2. CASE s \notin TaskSectors
    BY <2>2 DEF DataInv, RecordKept
  <2>. QED
    BY <2>1, <2>2
<1>4. BlockHeld'
  BY <1>1 DEF DataInv, BlockHeld, TaskSectors, Held
<1>5. LeftBehind'
  BY <1>1 DEF DataInv, LeftBehind, Held
<1>. QED
  BY <1>2, <1>3, <1>4, <1>5 DEF DataInv

LEMMA WriteJournalDataInv ==
  IInv /\ DataInv /\ (WriteJournal \/ JournalFails) => DataInv'
<1>. SUFFICES ASSUME IInv, DataInv, WriteJournal \/ JournalFails PROVE DataInv'
  OBVIOUS
<1>1. CASE WriteJournal
  BY <1>1, RecordDataInv DEF WriteJournal, history
<1>2. CASE JournalFails /\ pc = "filling"
  BY <1>2, IdleDataInv DEF JournalFails, history
<1>3. CASE JournalFails /\ pc = "journal"
  <2>1. PICK k \in 0 .. task.n - 1 :
          journal' = [s \in Lba |-> IF s \in Block(task.lba, k) THEN TaskFate ELSE journal[s]]
    BY <1>3 DEF JournalFails
  <2>2. Block(task.lba, k) \subseteq TaskSectors
    BY <1>3, <2>1, TaskFacts DEF TaskSectors, Block
  <2>. QED
    BY <1>3, <2>1, <2>2, RecordDataInv DEF JournalFails, history
<1>. QED
  BY <1>1, <1>2, <1>3 DEF JournalFails

LEMMA UseResultsDataInv == IInv /\ DataInv /\ UseResults => DataInv'
<1>. SUFFICES ASSUME IInv, DataInv, UseResults PROVE DataInv'
  OBVIOUS
<1>1. /\ pc = "use" /\ pc' = "callback" /\ Running
      /\ UNCHANGED <<dest, useJournal, journal, dst, missed, recordedTo>>
  BY DEF UseResults, settings, disk, history, Running
<1>2. Covered(zones') = Covered(zones) \ TaskSectors
  <2>1. /\ WellFormed(zones) /\ cur \in zones /\ reverse \in BOOLEAN
        /\ task.n \in 1 .. Length(cur)
        /\ TaskSectors = Block(IF reverse THEN cur.end - task.n ELSE cur.begin, task.n)
    BY <1>1, TaskFacts
  <2>2. Failed \in BOOLEAN /\ ShrunkCur = Shrunk(cur, reverse, task.n, Failed)
    BY DEF Failed, ShrunkCur
  <2>3. zones' = Replaced(zones, cur, ShrunkCur)
    BY DEF UseResults, UpdateZones
  <2>. QED
    BY <2>1, <2>2, <2>3, ShrinkZone
<1>3. DestChosen' /\ RecordKept' /\ BlockHeld'
  BY <1>1 DEF DataInv, DestChosen, RecordKept, BlockHeld, Running, Held
<1>4. LeftBehind'
  <2>1. \A s \in Lba \cap TaskSectors : Held(dest, s)
    BY <1>1 DEF DataInv, BlockHeld
  <2>. QED
    BY <1>1, <1>2, <2>1 DEF DataInv, LeftBehind, Held
<1>. QED
  BY <1>3, <1>4 DEF DataInv

(* What a power loss takes from a destination counts as missed. *)
LEMMA PowerLossDataInv == IInv /\ DataInv /\ PowerLoss => DataInv'
<1>. SUFFICES ASSUME IInv, DataInv, PowerLoss PROVE DataInv'
  OBVIOUS
<1>1. /\ pc' = "closed"
      /\ recordedTo' = IF journalFile' = "absent" THEN {} ELSE recordedTo
  BY DEF PowerLoss, Idle
<1>2. PICK l \in Lost :
        journal' = [s \in Lba |-> IF journalFile' = "absent" \/ s \in l
                                    THEN "Unread" ELSE journal[s]]
  BY DEF PowerLoss
<1>3. PICK m \in Lost :
        /\ dst' = [d \in Destinations |->
                     [s \in Lba |-> IF s \in m THEN "none" ELSE dst[d][s]]]
        /\ missed' = [d \in Destinations |->
                        missed[d] \cup {s \in m : dst[d][s] = "source"}]
  BY DEF PowerLoss
<1>4. ASSUME NEW d \in Destinations, NEW s \in Lba, Held(d, s) PROVE Held(d, s)'
  BY <1>3, <1>4 DEF Held
<1>5. RecordKept'
  BY <1>1, <1>2, <1>4 DEF DataInv, RecordKept
<1>. QED
  BY <1>1, <1>5 DEF DataInv, DestChosen, BlockHeld, LeftBehind, Running

-----------------------------------------------------------------------------
LEMMA NextDataInv == IInv /\ DataInv /\ [Next]_vars => DataInv'
<1>. SUFFICES ASSUME IInv, DataInv, [Next]_vars PROVE DataInv'
  OBVIOUS
<1>1. CASE Open
  BY <1>1, OpenDataInv
<1>2. CASE GetTask
  BY <1>2, GetTaskDataInv
<1>3. CASE FillJournal \/ SyncJournal \/ LoopEnds \/ Read \/ Callback
  BY <1>3, QuietDataInv DEF FillJournal, SyncJournal, LoopEnds, Read, Callback, Running,
     process, settings, table, disk, history
<1>4. CASE Write
  BY <1>4, WriteDataInv
<1>5. CASE WriteJournal \/ JournalFails
  BY <1>5, WriteJournalDataInv
<1>6. CASE UseResults
  BY <1>6, UseResultsDataInv
<1>7. CASE Close \/ Crash \/ Reboot
  BY <1>7, IdleDataInv DEF Close, Crash, Reboot, Idle, disk, history
<1>8. CASE PowerLoss
  BY <1>8, PowerLossDataInv
<1>9. CASE Interrupt \/ UNCHANGED vars
  <2>1. UNCHANGED <<pc, process, disk, history>>
    BY <1>9 DEF Interrupt, vars
  <2>. QED
    BY <2>1 DEF DataInv, DestChosen, RecordKept, BlockHeld, LeftBehind, Running, Held,
       TaskSectors, process, settings, table, perform, disk, history
<1>. QED
  BY <1>1, <1>2, <1>3, <1>4, <1>5, <1>6, <1>7, <1>8, <1>9 DEF Next, Step

(* "Copies entire device to given destination": whatever calls failed, however *)
(* often the process died and the machine lost its power, a run that ends with *)
(* an empty table leaves no sector behind but those that a call or the power   *)
(* failed for, unless its journal was also used for another destination.       *)
THEOREM CopyIsComplete == Spec => []CompleteCopy
<1>1. Init => IInv /\ DataInv
  BY InitIInv, InitDataInv
<1>2. (IInv /\ DataInv) /\ [Next]_vars => (IInv /\ DataInv)'
  BY NextIInv, NextDataInv
<1>3. DataInv => CompleteCopy
  <2>1. zones = {} => Covered(zones) = {}
    BY DEF Covered
  <2>. QED
    BY <2>1 DEF DataInv, LeftBehind, CompleteCopy, Running, Held
<1>. QED
  BY <1>1, <1>2, <1>3, PTL DEF Spec

-----------------------------------------------------------------------------
(* Room.  A device keeps its size and a run knows it, so no block that is     *)
(* read reaches past it.                                                      *)
DevicesKeepSize == \A d \in Destinations : DstDevice[d] # 0 => dstSize[d] = DstDevice[d]

EndKnown == Running => (DstDevice[dest] # 0 => dstEnd = DstDevice[dest])

TaskFits == pc \in {"read", "write", "journal", "use"} => Fits(task.lba, task.n)

RoomInv == DevicesKeepSize /\ EndKnown /\ TaskFits /\ SpaceRespected

LEMMA OpenRoom == IInv /\ RoomInv /\ Open => RoomInv'
<1>. SUFFICES ASSUME IInv, RoomInv, Open PROVE RoomInv'
  OBVIOUS
<1>1. ASSUME NEW s \in Strategies, NEW j \in BOOLEAN, NEW d \in Destinations,
             OpenContext(s, j, d), pc' \in {"filling", "loop"}
      PROVE  RoomInv'
  <2>1. /\ dest' = d /\ dstEnd' = dstSize[d] /\ UNCHANGED <<journal, dstSize>>
        /\ recordedTo \subseteq recordedTo'
    BY <1>1 DEF OpenContext
  <2>. QED
    BY <1>1, <2>1 DEF RoomInv, DevicesKeepSize, EndKnown, TaskFits, SpaceRespected
<1>2. CASE OpenRefused \/ OpenDstFails
  <2>1. pc' \in {"closed", "aborted"} /\ UNCHANGED <<journal, dstSize, recordedTo>>
    BY <1>2 DEF OpenRefused, OpenDstFails
  <2>. QED
    BY <2>1 DEF RoomInv, DevicesKeepSize, EndKnown, TaskFits, SpaceRespected, Running
<1>. QED
  BY <1>1, <1>2 DEF Open, OpenWithoutJournal, OpenCreateJournal, OpenResume

LEMMA GetTaskRoom == IInv /\ RoomInv /\ GetTask => RoomInv'
<1>. SUFFICES ASSUME IInv, RoomInv, GetTask PROVE RoomInv'
  OBVIOUS
<1>1. pc = "loop" /\ UNCHANGED <<dest, dstEnd, journal, dstSize, recordedTo>>
  BY TaskChosen DEF settings, disk, history
<1>2. TaskFits'
  <2>1. CASE \E z \in zones', rev \in BOOLEAN : Proceed(z, rev)
    <3>1. PICK z \in zones', rev \in BOOLEAN : Proceed(z, rev)
      BY <2>1
    <3>2. /\ task' = [lba |-> TaskLba(z, rev), n |-> TaskSize(z)]
          /\ pc' = "callback" \/ Fits(TaskLba(z, rev), TaskSize(z))
      BY <3>1 DEF Proceed
    <3>. QED
      BY <1>1, <3>2 DEF TaskFits, Fits
  <2>2. CASE SkipfailGivesUp \/ SplitAborts
    BY <2>2 DEF SkipfailGivesUp, SplitAborts, TaskFits
  <2>. QED
    BY <2>1, <2>2, TaskChosen
<1>3. DevicesKeepSize' /\ EndKnown' /\ SpaceRespected'
  BY <1>1 DEF RoomInv, DevicesKeepSize, EndKnown, SpaceRespected, Running
<1>. QED
  BY <1>2, <1>3 DEF RoomInv

LEMMA WriteRoom == IInv /\ RoomInv /\ Write => RoomInv'
<1>. SUFFICES ASSUME IInv, RoomInv, Write PROVE RoomInv'
  OBVIOUS
<1>1. /\ pc = "write" /\ pc' \in {"journal", "use"}
      /\ UNCHANGED <<dest, dstEnd, task, journal, recordedTo>>
  BY DEF Write, settings
<1>2. \A d \in Destinations : DstDevice[d] # 0 => dstSize'[d] = dstSize[d]
  <2>1. ASSUME NEW k, WriteSectors(k)
        PROVE  \A d \in Destinations : DstDevice[d] # 0 => dstSize'[d] = dstSize[d]
    <3>1. dstSize \in [Destinations -> Nat]
      BY DEF IInv, TypeOK, TypeDisk
    <3>2. dstSize' = [dstSize EXCEPT ![dest] =
             IF DstDevice[dest] = 0 /\ k > 0 /\ task.lba + k > dstSize[dest]
               THEN task.lba + k ELSE dstSize[dest]]
      BY <2>1 DEF WriteSectors
    <3>. QED
      BY <3>1, <3>2
  <2>2. CASE WriteSkipped
    BY <2>2 DEF WriteSkipped
  <2>3. CASE WriteDone \/ WriteFails
    <3>1. \E k : WriteSectors(k)
      BY <2>3 DEF WriteDone, WriteFails
    <3>. QED
      BY <2>1, <3>1
  <2>. QED
    BY <2>2, <2>3 DEF Write
<1>. QED
  BY <1>1, <1>2 DEF RoomInv, DevicesKeepSize, EndKnown, TaskFits, SpaceRespected, Running, Fits

(* The journal is told of sectors the destination has room for. *)
LEMMA RecordRoom ==
  ASSUME IInv, DataInv, RoomInv, pc = "journal", pc' \in {"use", "aborted"},
         UNCHANGED <<process, dstSize, recordedTo>>,
         \A s \in Lba \ TaskSectors : journal'[s] = journal[s]
  PROVE  RoomInv'
<1>1. Running /\ UNCHANGED <<dest, dstEnd, task>>
  BY DEF Running, process, settings, perform
<1>2. dest \in Destinations /\ dest \in recordedTo
  BY <1>1 DEF DataInv, DestChosen, IInv, JournalWritten
<1>3. ASSUME NEW s \in TaskSectors, DstDevice[dest] # 0
      PROVE  s < DstDevice[dest]
  <2>1. DstDevice[dest] \in Nat /\ dstEnd = DstDevice[dest] /\ Fits(task.lba, task.n)
    BY <1>1, <1>2, <1>3, CopyAssumption DEF RoomInv, EndKnown, TaskFits
  <2>2. task.lba \in Int /\ task.n \in Nat /\ s \in task.lba .. task.lba + task.n - 1
    BY <1>3, TaskFacts DEF TaskSectors, Block
  <2>. QED
    BY <1>3, <2>1, <2>2 DEF Fits
<1>4. SpaceRespected'
  BY <1>2, <1>3 DEF RoomInv, SpaceRespected
<1>. QED
  BY <1>1, <1>4 DEF RoomInv, DevicesKeepSize, EndKnown, TaskFits, Running, Fits

LEMMA NextRoom == IInv /\ DataInv /\ RoomInv /\ [Next]_vars => RoomInv'
<1>. SUFFICES ASSUME IInv, DataInv, RoomInv, [Next]_vars PROVE RoomInv'
  OBVIOUS
<1>1. CASE Open
  BY <1>1, OpenRoom
<1>2. CASE GetTask
  BY <1>2, GetTaskRoom
<1>3. CASE Write
  BY <1>3, WriteRoom
<1>4. CASE WriteJournal
  BY <1>4, RecordRoom DEF WriteJournal, history
<1>5. CASE JournalFails /\ pc = "journal"
  <2>1. PICK k \in 0 .. task.n - 1 :
          journal' = [s \in Lba |-> IF s \in Block(task.lba, k) THEN TaskFate ELSE journal[s]]
    BY <1>5 DEF JournalFails
  <2>2. Block(task.lba, k) \subseteq TaskSectors
    BY <1>5, <2>1, TaskFacts DEF TaskSectors, Block
  <2>. QED
    BY <1>5, <2>1, <2>2, RecordRoom DEF JournalFails, history
<1>6. CASE \/ FillJournal \/ SyncJournal \/ LoopEnds \/ UseResults \/ Callback
           \/ JournalFails /\ pc = "filling"
  <2>1. /\ Running /\ pc' \in {"syncing", "loop", "closing", "callback", "aborted"}
        /\ UNCHANGED <<dest, dstEnd, journal, dstSize, recordedTo>>
    BY <1>6 DEF FillJournal, SyncJournal, LoopEnds, UseResults, Callback, JournalFails,
       Running, process, settings, disk, history
  <2>. QED
    BY <2>1 DEF RoomInv, DevicesKeepSize, EndKnown, TaskFits, SpaceRespected, Running
<1>7. CASE Read \/ Interrupt \/ UNCHANGED vars
  <2>1. /\ UNCHANGED <<dest, dstEnd, task, journal, dstSize, recordedTo>>
        /\ pc' = pc \/ (pc = "read" /\ pc' = "write")
    BY <1>7 DEF Read, Interrupt, vars, process, settings, perform, disk, history
  <2>. QED
    BY <2>1 DEF RoomInv, DevicesKeepSize, EndKnown, TaskFits, SpaceRespected, Running, Fits
<1>8. CASE Close \/ Crash \/ Reboot
  <2>1. pc' = "closed" /\ UNCHANGED <<journal, dstSize, recordedTo>>
    BY <1>8 DEF Close, Crash, Reboot, Idle, disk, history
  <2>. QED
    BY <2>1 DEF RoomInv, DevicesKeepSize, EndKnown, TaskFits, SpaceRespected, Running
<1>9. CASE PowerLoss
  <2>1. /\ pc' = "closed" /\ dstSize' = dstSize
        /\ recordedTo' = IF journalFile' = "absent" THEN {} ELSE recordedTo
    BY <1>9 DEF PowerLoss, Idle
  <2>2. PICK l \in Lost :
          journal' = [s \in Lba |-> IF journalFile' = "absent" \/ s \in l
                                      THEN "Unread" ELSE journal[s]]
    BY <1>9 DEF PowerLoss
  <2>. QED
    BY <2>1, <2>2 DEF RoomInv, DevicesKeepSize, EndKnown, TaskFits, SpaceRespected, Running
<1>10. JournalFails => pc \in {"journal", "filling"}
  BY DEF JournalFails
<1>. QED
  BY <1>1, <1>2, <1>3, <1>4, <1>5, <1>6, <1>7, <1>8, <1>9, <1>10 DEF Next, Step

(* Nothing is recorded of a sector none of the journal's destinations has     *)
(* room for, whatever was resumed to what and however a call failed.          *)
THEOREM SpaceIsRespected == Spec => []SpaceRespected
<1>1. Init => IInv /\ DataInv /\ RoomInv
  BY InitIInv, InitDataInv
     DEF Init, RoomInv, DevicesKeepSize, EndKnown, TaskFits, SpaceRespected, Running
<1>2. (IInv /\ DataInv /\ RoomInv) /\ [Next]_vars => (IInv /\ DataInv /\ RoomInv)'
  BY NextIInv, NextDataInv, NextRoom
<1>3. RoomInv => SpaceRespected
  BY DEF RoomInv
<1>. QED
  BY <1>1, <1>2, <1>3, PTL DEF Spec

-----------------------------------------------------------------------------
(* Data before fate.  Whatever the read and the write of a block answered, a  *)
(* block the journal will call read is in its destination or was lost to a    *)
(* failure the code does not note; and what is kept so stays so.              *)
BlockKept ==
    pc = "journal" => errorFlag \/ \A s \in Lba \cap TaskSectors : Kept(dest, s)

KeptInv == BlockKept /\ RecordedWithReason

(* A write adds the block to what is kept, or nothing if the read had failed. *)
LEMMA WriteKeeps ==
  ASSUME IInv, DataInv, Write
  PROVE  /\ dest \in Destinations
         /\ errorFlag \/ \A s \in Lba \cap TaskSectors : Kept(dest, s)'
         /\ \A d \in Destinations, s \in Lba :
               Kept(d, s)' <=> Kept(d, s) \/ (~errorFlag /\ d = dest /\ s \in TaskSectors)
<1>0. /\ pc = "write" /\ dest' = dest /\ dest \in Destinations
      /\ dst \in [Destinations -> [Lba -> {"none", "source", "stale"}]]
      /\ unnoted \in [Destinations -> SUBSET Lba]
  BY DEF Write, settings, DataInv, DestChosen, Running, IInv, TypeOK, TypeDisk, TypeHistory
<1>1. task.n \in Nat /\ task.lba \in Int /\ TaskSectors = Block(task.lba, task.n)
  BY <1>0, TaskFacts DEF TaskSectors
<1>2. ASSUME NEW k \in 0 .. task.n, WriteSectors(k)
      PROVE  /\ \A d \in Destinations \ {dest} : dst'[d] = dst[d]
             /\ \A s \in Lba : dst'[dest][s] =
                   IF s \in Block(task.lba, k) THEN buf ELSE dst[dest][s]
             /\ Block(task.lba, k) \subseteq TaskSectors
  <2>1. dst' = [dst EXCEPT ![dest] =
                  [s \in Lba |-> IF s \in Block(task.lba, k) THEN buf ELSE dst[dest][s]]]
    BY <1>2, <1>0 DEF WriteSectors
  <2>. QED
    BY <1>0, <1>1, <2>1 DEF Block
<1>3. CASE WriteSkipped
  BY <1>0, <1>3 DEF WriteSkipped, Kept
<1>4. CASE WriteDone /\ buf = "source"
  <2>1. /\ unnoted'[dest] = unnoted[dest] \ TaskSectors
        /\ \A d \in Destinations \ {dest} : unnoted'[d] = unnoted[d]
    BY <1>0, <1>4 DEF WriteDone, MissNothing
  <2>2. ~errorFlag /\ WriteSectors(task.n) /\ task.n \in 0 .. task.n
    BY <1>1, <1>4 DEF WriteDone
  <2>3. /\ \A d \in Destinations \ {dest} : dst'[d] = dst[d]
        /\ \A s \in Lba : dst'[dest][s] = IF s \in TaskSectors THEN "source" ELSE dst[dest][s]
    BY <1>1, <1>2, <1>4, <2>2
  <2>. QED
    BY <1>0, <2>1, <2>2, <2>3 DEF Kept
<1>5. CASE (WriteDone /\ buf # "source") \/ WriteFails
  <2>1. PICK k \in 0 .. task.n : WriteSectors(k)
    BY <1>1, <1>5 DEF WriteDone, WriteFails
  <2>2. ~errorFlag /\ unnoted' = [unnoted EXCEPT ![dest] = @ \cup Missed]
    BY <1>5 DEF WriteDone, WriteFails, MissUnnoted
  <2>3. /\ unnoted'[dest] =
             unnoted[dest] \cup {s \in TaskSectors : dst'[dest][s] # "source"}
        /\ \A d \in Destinations \ {dest} : unnoted'[d] = unnoted[d]
    BY <1>0, <2>2 DEF Missed
  <2>4. /\ \A d \in Destinations \ {dest} : dst'[d] = dst[d]
        /\ \A s \in Lba \ TaskSectors : dst'[dest][s] = dst[dest][s]
    BY <1>2, <2>1
  <2>. QED
    BY <1>0, <2>2, <2>3, <2>4 DEF Kept
<1>. QED
  BY <1>3, <1>4, <1>5 DEF Write

LEMMA WriteKept == ASSUME IInv, DataInv, KeptInv, Write PROVE KeptInv'
<1>1. /\ pc = "write" /\ pc' \in {"journal", "use"}
      /\ UNCHANGED <<dest, task, errorFlag, journal, recordedTo>>
  BY DEF Write, settings
<1>2. BlockKept'
  BY <1>1, WriteKeeps DEF BlockKept, TaskSectors, Kept
<1>3. RecordedWithReason'
  <2>. SUFFICES ASSUME NEW s \in Lba, journal[s] = "ReadOk"
                PROVE  \E d \in recordedTo : Kept(d, s)'
    BY <1>1 DEF RecordedWithReason, Kept
  <2>1. PICK d \in recordedTo : Kept(d, s)
    BY DEF KeptInv, RecordedWithReason
  <2>2. d \in Destinations
    BY DEF IInv, TypeOK, TypeHistory
  <2>. QED
    BY <2>1, <2>2, WriteKeeps
<1>. QED
  BY <1>2, <1>3 DEF KeptInv

(* The journal's bytes of a block, in full or in part. *)
LEMMA RecordReasoned ==
  ASSUME IInv, DataInv, KeptInv, pc = "journal", pc' \in {"use", "aborted"},
         UNCHANGED <<dst, unnoted, recordedTo>>,
         \A s \in Lba : \/ journal'[s] = journal[s]
                        \/ s \in TaskSectors /\ journal'[s] = TaskFate
  PROVE  KeptInv'
<1>1. dest \in recordedTo
  BY DEF DataInv, DestChosen, IInv, JournalWritten, Running
<1>2. RecordedWithReason'
  <2>. SUFFICES ASSUME NEW s \in Lba, journal'[s] = "ReadOk"
                PROVE  \E d \in recordedTo : Kept(d, s)
    BY DEF RecordedWithReason, Kept
  <2>1. CASE journal'[s] = journal[s]
    BY <2>1 DEF KeptInv, RecordedWithReason
  <2>2. CASE s \in TaskSectors /\ journal'[s] = TaskFate
    BY <1>1, <2>2 DEF KeptInv, BlockKept, TaskFate
  <2>. QED
    BY <2>1, <2>2
<1>. QED
  BY <1>2 DEF KeptInv, BlockKept

LEMMA JournalChanges ==
  ASSUME IInv, WriteJournal \/ JournalFails
  PROVE  \/ /\ pc = "journal"
            /\ \E k \in 0 .. task.n :
                  journal' = [s \in Lba |-> IF s \in Block(task.lba, k)
                                             THEN TaskFate ELSE journal[s]]
         \/ pc = "filling" /\ UNCHANGED journal
<1>1. CASE WriteJournal
  <2>1. pc = "journal" /\ task.n \in Nat
    BY <1>1, TaskFacts DEF WriteJournal
  <2>. QED
    BY <1>1, <2>1 DEF WriteJournal, TaskSectors
<1>2. CASE JournalFails /\ pc = "journal"
  <2>1. task.n \in Nat
    BY <1>2, TaskFacts
  <2>. QED
    BY <1>2, <2>1 DEF JournalFails
<1>. QED
  BY <1>1, <1>2 DEF JournalFails

(* What the power takes counts as lost unnoted, and a journal that is gone    *)
(* says nothing.                                                              *)
LEMMA PowerLossKeeps ==
  ASSUME IInv, PowerLoss
  PROVE  \A d \in Destinations, s \in Lba : Kept(d, s)' <=> Kept(d, s)
<1>1. PICK m \in Lost :
        /\ dst' = [d \in Destinations |->
                     [s \in Lba |-> IF s \in m THEN "none" ELSE dst[d][s]]]
        /\ unnoted' = [d \in Destinations |->
                         unnoted[d] \cup {s \in m : dst[d][s] = "source"}]
  BY DEF PowerLoss
<1>. QED
  BY <1>1 DEF Kept

LEMMA PowerLossKept == ASSUME IInv, KeptInv, PowerLoss PROVE KeptInv'
<1>1. /\ pc' = "closed"
      /\ recordedTo' = IF journalFile' = "absent" THEN {} ELSE recordedTo
  BY DEF PowerLoss, Idle
<1>2. PICK l \in Lost :
        journal' = [s \in Lba |-> IF journalFile' = "absent" \/ s \in l
                                    THEN "Unread" ELSE journal[s]]
  BY DEF PowerLoss
<1>3. RecordedWithReason'
  <2>. SUFFICES ASSUME NEW s \in Lba, journal'[s] = "ReadOk"
                PROVE  \E d \in recordedTo' : Kept(d, s)'
    BY DEF RecordedWithReason
  <2>1. journal[s] = "ReadOk" /\ recordedTo' = recordedTo
    BY <1>1, <1>2
  <2>2. PICK d \in recordedTo : Kept(d, s)
    BY <2>1 DEF KeptInv, RecordedWithReason
  <2>3. d \in Destinations
    BY DEF IInv, TypeOK, TypeHistory
  <2>. QED
    BY <2>1, <2>2, <2>3, PowerLossKeeps
<1>. QED
  BY <1>1, <1>3 DEF KeptInv, BlockKept

LEMMA NextKept == ASSUME IInv, DataInv, KeptInv, [Next]_vars PROVE KeptInv'
<1>1. CASE Write
  BY <1>1, WriteKept
<1>2. CASE (WriteJournal \/ JournalFails) /\ pc = "journal"
  <2>1. PICK k \in 0 .. task.n :
          journal' = [s \in Lba |-> IF s \in Block(task.lba, k) THEN TaskFate ELSE journal[s]]
    BY <1>2, JournalChanges
  <2>2. Block(task.lba, k) \subseteq TaskSectors
    BY <1>2, <2>1, TaskFacts DEF TaskSectors, Block
  <2>3. \A s \in Lba : \/ journal'[s] = journal[s]
                       \/ s \in TaskSectors /\ journal'[s] = TaskFate
    BY <2>1, <2>2
  <2>4. pc' \in {"use", "aborted"} /\ UNCHANGED <<dst, unnoted, recordedTo>>
    BY <1>2 DEF WriteJournal, JournalFails, history
  <2>5. pc = "journal"
    BY <1>2
  <2>. QED
    BY <2>3, <2>4, <2>5, RecordReasoned
<1>3. CASE Open
  <2>1. /\ pc' \in {"loop", "filling", "closed", "aborted"}
        /\ UNCHANGED <<journal, dst, unnoted>> /\ recordedTo \subseteq recordedTo'
    BY <1>3 DEF Open, OpenWithoutJournal, OpenCreateJournal, OpenResume, OpenContext,
       OpenRefused, OpenDstFails
  <2>. QED
    BY <2>1 DEF KeptInv, BlockKept, RecordedWithReason, Kept
<1>4. CASE GetTask
  <2>1. /\ UNCHANGED <<journal, dst, unnoted, recordedTo>>
        /\ pc' \in {"read", "callback", "aborted"}
    BY <1>4, TaskChosen DEF disk, history, Proceed, SkipfailGivesUp, SplitAborts
  <2>. QED
    BY <2>1 DEF KeptInv, BlockKept, RecordedWithReason, Kept
<1>5. CASE \/ FillJournal \/ SyncJournal \/ LoopEnds \/ Read \/ UseResults \/ Callback
           \/ Close \/ Crash \/ Reboot \/ (JournalFails /\ pc = "filling")
  <2>1. /\ pc' \in {"syncing", "loop", "write", "closing", "callback", "aborted", "closed"}
        /\ UNCHANGED <<journal, dst, unnoted, recordedTo>>
    BY <1>5 DEF FillJournal, SyncJournal, LoopEnds, Read, UseResults, Callback, Close, Crash,
       Reboot, JournalFails, Idle, disk, history
  <2>. QED
    BY <2>1 DEF KeptInv, BlockKept, RecordedWithReason, Kept
<1>6. CASE Interrupt \/ UNCHANGED vars
  <2>1. UNCHANGED <<pc, dest, task, errorFlag, journal, dst, unnoted, recordedTo>>
    BY <1>6 DEF Interrupt, vars, process, settings, perform, disk, history
  <2>. QED
    BY <2>1 DEF KeptInv, BlockKept, RecordedWithReason, Kept, TaskSectors
<1>7. CASE PowerLoss
  BY <1>7, PowerLossKept
<1>8. CASE WriteJournal \/ JournalFails
  BY <1>2, <1>5, <1>8 DEF WriteJournal, JournalFails
<1>. QED
  BY <1>1, <1>3, <1>4, <1>5, <1>6, <1>7, <1>8 DEF Next, Step

(* A sector the journal calls read has its data in a destination the journal  *)
(* served, at every step a process may die at, but where a command was not    *)
(* answered, a write failed or the power went: those alone are not noted.     *)
THEOREM RecordedForAReason == Spec => []RecordedWithReason
<1>1. Init => IInv /\ DataInv /\ KeptInv
  BY InitIInv, InitDataInv DEF Init, KeptInv, BlockKept, RecordedWithReason
<1>2. (IInv /\ DataInv /\ KeptInv) /\ [Next]_vars => (IInv /\ DataInv /\ KeptInv)'
  BY NextIInv, NextDataInv, NextKept
<1>3. KeptInv => RecordedWithReason
  BY DEF KeptInv
<1>. QED
  BY <1>1, <1>2, <1>3, PTL DEF Spec

(* Where every command and write is answered and the power stays, nothing is  *)
(* lost unnoted: the buffer is filled or the error flag is set.               *)
CallsAnswered == Faults \cap {"ioctl", "lost", "write", "power"} = {}

AllNoted ==
    /\ pc = "write" => errorFlag \/ buf = "source"
    /\ \A d \in Destinations : unnoted[d] = {}

LEMMA NextAllNoted ==
  ASSUME CallsAnswered, IInv, DataInv, AllNoted, [Next]_vars
  PROVE  AllNoted'
<1>1. CASE Write
  <2>1. pc = "write" /\ pc' \in {"journal", "use"} /\ unnoted \in [Destinations -> SUBSET Lba]
    BY <1>1 DEF Write, IInv, TypeOK, TypeHistory
  <2>2. \/ unnoted' = unnoted
        \/ unnoted' = [unnoted EXCEPT ![dest] = @ \ TaskSectors]
    BY <1>1, <2>1 DEF Write, WriteSkipped, WriteDone, WriteFails, MissNothing, AllNoted,
       CallsAnswered
  <2>. QED
    BY <2>1, <2>2 DEF AllNoted
<1>2. CASE Read
  BY <1>2 DEF Read, ReadGood, ReadBad, IoctlFails, ReadLost, CallsAnswered, AllNoted, history
<1>3. CASE Open
  BY <1>3 DEF Open, OpenWithoutJournal, OpenCreateJournal, OpenResume, OpenContext,
     OpenRefused, OpenDstFails, AllNoted
<1>4. CASE GetTask
  <2>1. unnoted' = unnoted /\ pc' \in {"read", "callback", "aborted"}
    BY <1>4, TaskChosen DEF disk, history, Proceed, SkipfailGivesUp, SplitAborts
  <2>. QED
    BY <2>1 DEF AllNoted
<1>5. CASE \/ FillJournal \/ SyncJournal \/ LoopEnds \/ WriteJournal \/ JournalFails
           \/ UseResults \/ Callback \/ Close \/ Crash \/ Reboot
  <2>1. pc' # "write" /\ unnoted' = unnoted
    BY <1>5 DEF FillJournal, SyncJournal, LoopEnds, WriteJournal, JournalFails, UseResults,
       Callback, Close, Crash, Reboot, Idle, history
  <2>. QED
    BY <2>1 DEF AllNoted
<1>6. CASE Interrupt \/ UNCHANGED vars
  <2>1. UNCHANGED <<pc, errorFlag, buf, unnoted>>
    BY <1>6 DEF Interrupt, vars, process, perform, history
  <2>. QED
    BY <2>1 DEF AllNoted
<1>7. ~PowerLoss
  BY DEF PowerLoss, CallsAnswered
<1>. QED
  BY <1>1, <1>2, <1>3, <1>4, <1>5, <1>6, <1>7 DEF Next, Step

(* Then the promise holds as it is meant: what the journal calls read is in a *)
(* destination, whatever reads fail and wherever the process dies.            *)
THEOREM CopiedFirst == ASSUME CallsAnswered PROVE Spec => []CopiedBeforeRecorded
<1>1. Init => IInv /\ DataInv /\ KeptInv /\ AllNoted
  BY InitIInv, InitDataInv DEF Init, KeptInv, BlockKept, RecordedWithReason, AllNoted
<1>2. IInv /\ DataInv /\ KeptInv /\ AllNoted /\ [Next]_vars
        => (IInv /\ DataInv /\ KeptInv /\ AllNoted)'
  BY NextIInv, NextDataInv, NextKept, NextAllNoted
<1>3. IInv /\ KeptInv /\ AllNoted => CopiedBeforeRecorded
  <2>. SUFFICES ASSUME IInv, KeptInv, AllNoted, NEW s \in Lba, journal[s] = "ReadOk"
                PROVE  \E d \in recordedTo : dst[d][s] = "source"
    BY DEF CopiedBeforeRecorded
  <2>1. PICK d \in recordedTo : Kept(d, s)
    BY DEF KeptInv, RecordedWithReason
  <2>2. d \in Destinations
    BY DEF IInv, TypeOK, TypeHistory
  <2>. QED
    BY <2>1, <2>2 DEF Kept, AllNoted
<1>. QED
  BY <1>1, <1>2, <1>3, PTL DEF Spec

-----------------------------------------------------------------------------
(* The refinement.  What CopyIdeal sees of a state of Copy: *)
FateSeen == [s \in Lba |-> Fate(journal[s])]
HandedSeen == {s \in Lba : \E d \in Destinations : Kept(d, s)}

(* The first k sectors of a task are a block of CopyIdeal's. *)
LEMMA TaskIsBlock ==
  ASSUME IInv, pc \in {"write", "journal"}, NEW k \in 1 .. task.n
  PROVE  /\ Block(task.lba, k) \in Ideal!Blocks
         /\ Block(task.lba, k) \subseteq Ideal!Lba
         /\ Block(task.lba, k) \subseteq TaskSectors
<1>1. /\ cur \in zones /\ WellFormed(zones) /\ reverse \in BOOLEAN
      /\ task = [lba |-> TaskLba(cur, reverse), n |-> TaskSize(cur)]
      /\ task.n \in 1 .. Length(cur) /\ task.n \in Nat /\ task.lba \in Int
      /\ TaskSectors \subseteq Covered(zones)
  BY TaskFacts
<1>2. TaskSectors \subseteq Lba
  BY <1>1, CoveredFinite
<1>3. task.n <= SectorsAtOnce
  <2>1. task.n = TaskSize(cur)
    BY <1>1
  <2>2. Length(cur) \in Int
    BY <1>1, SizeAssumption DEF WellFormed, Zone, Lba, Length
  <2>. QED
    BY <2>1, <2>2, SizeAssumption DEF TaskSize
<1>4. Block(task.lba, k) \subseteq TaskSectors
  BY <1>1 DEF TaskSectors, Block
<1>5. task.lba \in Lba
  <2>1. task.lba \in TaskSectors
    BY <1>1 DEF TaskSectors, Block
  <2>. QED
    BY <1>2, <2>1
<1>6. k \in 1 .. SectorsAtOnce
  BY <1>1, <1>3, SizeAssumption
<1>7. Ideal!Lba = Lba
  BY DEF Ideal!Lba, Lba
<1>. QED
  BY <1>2, <1>4, <1>5, <1>6, <1>7 DEF Ideal!Blocks, Block

(* A write hands the block over, whatever came of it. *)
LEMMA WriteHandsOver ==
  ASSUME IInv, DataInv, Write
  PROVE  [Ideal!Next]_(Ideal!vars)
<1>1. pc = "write" /\ FateSeen' = FateSeen
  BY DEF Write, FateSeen
<1>2. CASE errorFlag
  <2>1. HandedSeen' = HandedSeen
    BY <1>2, WriteKeeps DEF HandedSeen
  <2>. QED
    BY <1>1, <2>1 DEF Ideal!vars, FateSeen, HandedSeen
<1>3. CASE ~errorFlag
  <2>1. dest \in Destinations
    BY WriteKeeps
  <2>2. task.n \in 1 .. task.n /\ TaskSectors = Block(task.lba, task.n)
    BY <1>1, TaskFacts DEF TaskSectors
  <2>3. TaskSectors \in Ideal!Blocks /\ TaskSectors \subseteq Ideal!Lba
    BY <1>1, <2>2, TaskIsBlock
  <2>4. TaskSectors \subseteq Lba
    BY <2>3 DEF Ideal!Lba, Lba
  <2>5. HandedSeen' = HandedSeen \cup TaskSectors
    BY <1>3, <2>1, <2>4, WriteKeeps DEF HandedSeen
  <2>6. Ideal!Next
    BY <1>1, <2>3, <2>5 DEF Ideal!Next, Ideal!HandOver, FateSeen, HandedSeen
  <2>. QED
    BY <2>6
<1>. QED
  BY <1>2, <1>3

(* A write of the journal tells the fate of a block, or of the part of it     *)
(* that was written when the program stopped.                                 *)
LEMMA JournalTells ==
  ASSUME IInv, DataInv, KeptInv, WriteJournal \/ JournalFails
  PROVE  [Ideal!Next]_(Ideal!vars)
<1>1. HandedSeen' = HandedSeen
  BY DEF WriteJournal, JournalFails, history, HandedSeen, Kept
<1>2. ASSUME pc = "journal", NEW k \in 0 .. task.n,
             journal' = [s \in Lba |-> IF s \in Block(task.lba, k)
                                         THEN TaskFate ELSE journal[s]]
      PROVE  [Ideal!Next]_(Ideal!vars)
  <2>1. CASE k = 0
    <3>1. Block(task.lba, k) = {}
      BY <1>2, <2>1, TaskFacts DEF Block
    <3>2. \A s \in Lba : journal'[s] = journal[s]
      BY <1>2, <3>1
    <3>3. FateSeen' = FateSeen
      BY <3>2 DEF FateSeen
    <3>. QED
      BY <1>1, <3>3 DEF Ideal!vars, FateSeen, HandedSeen
  <2>2. CASE k # 0
    <3>. DEFINE block == Block(task.lba, k)
                f == Fate(TaskFate)
    <3>1. k \in 1 .. task.n
      BY <1>2, <2>2, TaskFacts
    <3>2. block \in Ideal!Blocks /\ block \subseteq Ideal!Lba /\ block \subseteq TaskSectors
      BY <1>2, <3>1, TaskIsBlock
    <3>3. f \in {"copied", "failed"} /\ (f = "copied" => ~errorFlag)
      BY DEF Fate, TaskFate
    <3>4. Ideal!Lba = Lba
      BY DEF Ideal!Lba, Lba
    <3>5. \A s \in block : FateSeen[s] = "unread"
      <4>1. TaskSectors \subseteq UnreadSectors(journal)
        <5>1. TaskSectors \subseteq Covered(zones)
          BY <1>2, TaskFacts
        <5>. QED
          BY <1>2, <5>1 DEF IInv, TableMatchesJournal, JournalWritten, Running
      <4>. QED
        BY <3>2, <4>1 DEF UnreadSectors, FateSeen, Fate
    <3>6. ~errorFlag => block \subseteq HandedSeen
      <4>1. dest \in Destinations
        BY <1>2 DEF DataInv, DestChosen, Running
      <4>. QED
        BY <1>2, <3>2, <3>4, <4>1 DEF KeptInv, BlockKept, HandedSeen
    <3>7. FateSeen' = [s \in Lba |-> IF s \in block THEN f ELSE FateSeen[s]]
      BY <1>2 DEF FateSeen
    <3>8. Ideal!Tell(block, f)
      BY <1>1, <3>3, <3>4, <3>5, <3>6, <3>7 DEF Ideal!Tell, FateSeen, HandedSeen
    <3>. QED
      BY <3>2, <3>3, <3>8 DEF Ideal!Next
  <2>. QED
    BY <2>1, <2>2
<1>3. CASE UNCHANGED journal
  <2>1. FateSeen' = FateSeen
    BY <1>3 DEF FateSeen
  <2>. QED
    BY <1>1, <2>1 DEF Ideal!vars, FateSeen, HandedSeen
<1>. QED
  BY <1>2, <1>3, JournalChanges

(* A power loss may make the journal forget, and nothing else. *)
LEMMA PowerLossForgets == ASSUME IInv, PowerLoss PROVE Ideal!Next
<1>1. "power" \in Faults /\ HandedSeen' = HandedSeen
  BY PowerLossKeeps DEF PowerLoss, HandedSeen
<1>2. PICK l \in Lost :
        journal' = [s \in Lba |-> IF journalFile' = "absent" \/ s \in l
                                    THEN "Unread" ELSE journal[s]]
  BY DEF PowerLoss
<1>3. \A s \in Lba : Fate(journal'[s]) \in {Fate(journal[s]), "unread"}
  BY <1>2 DEF Fate
<1>4. \A s \in Lba : Fate(journal'[s]) \in {"unread", "copied", "failed"}
  BY DEF Fate
<1>5. Ideal!Lba = Lba
  BY DEF Ideal!Lba, Lba
<1>6. Ideal!Forget
  BY <1>1, <1>3, <1>4, <1>5 DEF Ideal!Forget, HandedSeen
<1>. QED
  BY <1>6 DEF Ideal!Next

LEMMA NextIdeal ==
  ASSUME IInv, DataInv, KeptInv, [Next]_vars
  PROVE  [Ideal!Next]_(Ideal!vars)
<1>1. CASE Write
  BY <1>1, WriteHandsOver
<1>2. CASE WriteJournal \/ JournalFails
  BY <1>2, JournalTells
<1>3. CASE PowerLoss
  BY <1>3, PowerLossForgets
<1>4. CASE \/ Open \/ FillJournal \/ SyncJournal \/ LoopEnds \/ GetTask \/ Read \/ UseResults
           \/ Callback \/ Close \/ Interrupt \/ Crash \/ Reboot \/ UNCHANGED vars
  <2>1. GetTask => UNCHANGED <<disk, history>>
    BY TaskChosen
  <2>2. UNCHANGED <<journal, dst, unnoted>>
    BY <1>4, <2>1
       DEF Open, OpenWithoutJournal, OpenCreateJournal, OpenResume, OpenContext, OpenRefused,
           OpenDstFails, FillJournal, SyncJournal, LoopEnds, Read, UseResults, Callback,
           Close, Interrupt, Crash, Reboot, vars, disk, history
  <2>. QED
    BY <2>2 DEF Ideal!vars, Kept
<1>. QED
  BY <1>1, <1>2, <1>3, <1>4 DEF Next, Step

LEMMA InitIdeal == Init => Ideal!Init
BY DEF Init, Ideal!Init, Ideal!Lba, Lba, Fate, Kept

(* Copying implements CopyIdeal, whatever calls fail: by whatever strategy,   *)
(* across stops, crashes, resumes and a journal write that an assertion cut   *)
(* short, each sector's fate is told once and "copied" only of what was       *)
(* handed to a destination; the power alone makes it forget a fate.           *)
THEOREM CopyIsIdeal == Spec => IdealSpec
<1>1. Init => IInv /\ DataInv /\ KeptInv /\ Ideal!Init
  BY InitIInv, InitDataInv, InitIdeal DEF Init, KeptInv, BlockKept, RecordedWithReason
<1>2. (IInv /\ DataInv /\ KeptInv) /\ [Next]_vars => (IInv /\ DataInv /\ KeptInv)'
  BY NextIInv, NextDataInv, NextKept
<1>3. (IInv /\ DataInv /\ KeptInv) /\ [Next]_vars => [Ideal!Next]_(Ideal!vars)
  BY NextIdeal
<1>. QED
  BY <1>1, <1>2, <1>3, PTL DEF Spec, IdealSpec, Ideal!Spec
=============================================================================
