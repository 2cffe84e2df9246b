------------------------- MODULE CopyScreenTheorems --------------------------
(* Theorems about CopyScreen: the map and the counters of the whole_space     *)
(* renderer, for every device and block size and every length of the queue.   *)
EXTENDS CopyScreen, CopyTheorems

(* The strategies whose blocks are display blocks.  smart reads the end of    *)
(* the device backward, from where no display block need end.                 *)
KeepsToBlocks == "smart" \notin Strategies

(* A block's fate is in the journal as a whole. *)
JournalWhole == Faults \cap {"journal", "power"} = {}

Aligned(n) == n % SectorsAtOnce = 0

-----------------------------------------------------------------------------
(* Sectors and display blocks. *)
LEMMA Monotone ==
  ASSUME NEW a \in Int, NEW b \in Int
  PROVE  /\ SectorsAtOnce * a \in Int
         /\ SectorsAtOnce * (a + 1) = SectorsAtOnce * a + SectorsAtOnce
         /\ a <= b => SectorsAtOnce * a <= SectorsAtOnce * b
<1>1. SectorsAtOnce \in Int /\ SectorsAtOnce > 0
  BY SizeAssumption
<1>2. SectorsAtOnce * a \in Int /\ SectorsAtOnce * b \in Int
  BY <1>1
<1>3. SectorsAtOnce * (a + 1) = SectorsAtOnce * a + SectorsAtOnce
  BY <1>1
<1>4. a <= b => SectorsAtOnce * a <= SectorsAtOnce * b
  BY <1>1
<1>. QED
  BY <1>2, <1>3, <1>4

(* The block of a sector is the one it lies in. *)
LEMMA BlockOfIs ==
  ASSUME NEW s \in Int, NEW k \in Int
  PROVE  /\ BlockOf(s) \in Int
         /\ SectorsAtOnce * BlockOf(s) <= s /\ s < SectorsAtOnce * BlockOf(s) + SectorsAtOnce
         /\ s = SectorsAtOnce * BlockOf(s) + (s % SectorsAtOnce)
         /\ (SectorsAtOnce * k <= s /\ s < SectorsAtOnce * k + SectorsAtOnce)
              => BlockOf(s) = k
<1>. DEFINE q == s \div SectorsAtOnce
            r == s % SectorsAtOnce
<1>1. SectorsAtOnce \in Int /\ SectorsAtOnce > 0
  BY SizeAssumption
<1>2. s = SectorsAtOnce * q + r /\ q \in Int /\ r \in 0 .. SectorsAtOnce - 1
  BY <1>1
<1>3. BlockOf(s) = q
  BY DEF BlockOf
<1>. HIDE DEF q, r
<1>4. /\ SectorsAtOnce * q \in Int
      /\ SectorsAtOnce * q <= s /\ s < SectorsAtOnce * q + SectorsAtOnce
  BY <1>1, <1>2, Monotone
<1>5. ASSUME SectorsAtOnce * k <= s, s < SectorsAtOnce * k + SectorsAtOnce PROVE q = k
  <2>1. SectorsAtOnce * k \in Int
    BY Monotone
  <2>2. ~ (k < q)
    <3>. SUFFICES ASSUME k + 1 <= q PROVE FALSE
      BY <1>2
    <3>1. SectorsAtOnce * (k + 1) <= SectorsAtOnce * q
      BY <1>2, Monotone
    <3>2. SectorsAtOnce * (k + 1) = SectorsAtOnce * k + SectorsAtOnce
      BY Monotone
    <3>. QED
      BY <1>1, <1>4, <1>5, <2>1, <3>1, <3>2
  <2>3. ~ (q < k)
    <3>. SUFFICES ASSUME q + 1 <= k PROVE FALSE
      BY <1>2
    <3>1. SectorsAtOnce * (q + 1) <= SectorsAtOnce * k
      BY <1>2, Monotone
    <3>2. SectorsAtOnce * (q + 1) = SectorsAtOnce * q + SectorsAtOnce
      BY <1>2, Monotone
    <3>. QED
      BY <1>1, <1>4, <1>5, <2>1, <3>1, <3>2
  <2>. QED
    BY <1>2, <2>2, <2>3
<1>6. r = s % SectorsAtOnce
  BY DEF r
<1>. QED
  BY <1>2, <1>3, <1>4, <1>5, <1>6

(* An address is aligned if it is where a block begins.  *)
LEMMA AlignedIs ==
  ASSUME NEW n \in Int
  PROVE  Aligned(n) <=> n = SectorsAtOnce * BlockOf(n)
<1>1. n = SectorsAtOnce * BlockOf(n) + (n % SectorsAtOnce) /\ BlockOf(n) \in Int
  BY BlockOfIs
<1>2. SectorsAtOnce * BlockOf(n) \in Int /\ n % SectorsAtOnce \in Int
  BY <1>1, Monotone, SizeAssumption
<1>. QED
  BY <1>1, <1>2 DEF Aligned

LEMMA MultipleAligned ==
  ASSUME NEW k \in Int
  PROVE  /\ SectorsAtOnce * k \in Int
         /\ Aligned(SectorsAtOnce * k) /\ BlockOf(SectorsAtOnce * k) = k
<1>1. SectorsAtOnce * k \in Int /\ SectorsAtOnce \in Int /\ SectorsAtOnce > 0
  BY Monotone, SizeAssumption
<1>2. BlockOf(SectorsAtOnce * k) = k
  BY <1>1, BlockOfIs
<1>. QED
  BY <1>1, <1>2, AlignedIs

(* The next block and the one before begin a block's length away.  *)
LEMMA NextAlignedIs ==
  ASSUME NEW n \in Int, Aligned(n)
  PROVE  /\ Aligned(n + SectorsAtOnce) /\ Aligned(n - SectorsAtOnce)
         /\ \A m \in Int : Aligned(m) /\ n < m => n + SectorsAtOnce <= m
<1>. DEFINE k == BlockOf(n)
<1>1. n = SectorsAtOnce * k /\ k \in Int /\ SectorsAtOnce \in Int /\ SectorsAtOnce > 0
  BY AlignedIs, BlockOfIs, SizeAssumption
<1>. HIDE DEF k
<1>2. n + SectorsAtOnce = SectorsAtOnce * (k + 1)
  BY <1>1, Monotone
<1>3. n - SectorsAtOnce = SectorsAtOnce * (k - 1)
  <2>1. k - 1 \in Int /\ (k - 1) + 1 = k
    BY <1>1
  <2>2. SectorsAtOnce * ((k - 1) + 1) = SectorsAtOnce * (k - 1) + SectorsAtOnce
    BY <2>1, Monotone
  <2>3. SectorsAtOnce * (k - 1) \in Int
    BY <2>1, Monotone
  <2>. QED
    BY <1>1, <2>1, <2>2, <2>3
<1>4. Aligned(n + SectorsAtOnce) /\ Aligned(n - SectorsAtOnce)
  <2>1. k + 1 \in Int /\ k - 1 \in Int
    BY <1>1
  <2>. QED
    BY <1>2, <1>3, <2>1, MultipleAligned
<1>5. ASSUME NEW m \in Int, Aligned(m), n < m PROVE n + SectorsAtOnce <= m
  <2>1. m = SectorsAtOnce * BlockOf(m) /\ BlockOf(m) \in Int
    BY <1>5, AlignedIs, BlockOfIs
  <2>2. k < BlockOf(m)
    <3>1. BlockOf(m) <= k => SectorsAtOnce * BlockOf(m) <= SectorsAtOnce * k
      BY <1>1, <2>1, Monotone
    <3>. QED
      BY <1>1, <1>5, <2>1, <3>1
  <2>3. SectorsAtOnce * (k + 1) <= SectorsAtOnce * BlockOf(m)
    BY <1>1, <2>1, <2>2, Monotone
  <2>. QED
    BY <1>2, <2>1, <2>3
<1>. QED
  BY <1>4, <1>5

LEMMA AlignDownAligned ==
  ASSUME NEW n \in Int
  PROVE  AlignDown(n) \in Int /\ Aligned(AlignDown(n))
<1>1. n = SectorsAtOnce * BlockOf(n) + (n % SectorsAtOnce) /\ BlockOf(n) \in Int
  BY BlockOfIs
<1>2. SectorsAtOnce * BlockOf(n) \in Int /\ n % SectorsAtOnce \in Int
  BY <1>1, Monotone, SizeAssumption
<1>3. AlignDown(n) = SectorsAtOnce * BlockOf(n)
  BY <1>1, <1>2 DEF AlignDown
<1>. QED
  BY <1>1, <1>3, MultipleAligned

(* A full block, or what is left before the end of the device, is a display   *)
(* block.                                                                     *)
LEMMA WholeBlock ==
  ASSUME NEW lba \in Lba, Aligned(lba), NEW n \in 1 .. SectorsAtOnce,
         (n = SectorsAtOnce /\ lba + n <= EndLba) \/ lba + n = EndLba
  PROVE  Block(lba, n) = BlockSectors(BlockOf(lba))
<1>. DEFINE k == BlockOf(lba)
<1>1. /\ lba \in Int /\ 0 <= lba /\ lba < EndLba /\ EndLba \in Int
      /\ SectorsAtOnce \in Int /\ SectorsAtOnce > 0
  BY SizeAssumption DEF Lba
<1>2. lba = SectorsAtOnce * k /\ k \in Int
  BY <1>1, AlignedIs, BlockOfIs
<1>. HIDE DEF k
<1>3. ASSUME NEW s \in Lba
      PROVE  BlockOf(s) = k <=> (lba <= s /\ s < lba + SectorsAtOnce)
  <2>1. s \in Int
    BY SizeAssumption DEF Lba
  <2>2. BlockOf(s) = k => (SectorsAtOnce * k <= s /\ s < SectorsAtOnce * k + SectorsAtOnce)
    BY <2>1, <1>2, BlockOfIs
  <2>3. (SectorsAtOnce * k <= s /\ s < SectorsAtOnce * k + SectorsAtOnce) => BlockOf(s) = k
    BY <2>1, <1>2, BlockOfIs
  <2>. QED
    BY <1>2, <2>2, <2>3
<1>4. BlockSectors(k) = {s \in Lba : lba <= s /\ s < lba + SectorsAtOnce}
  BY <1>3 DEF BlockSectors
<1>5. Block(lba, n) = {s \in Lba : lba <= s /\ s < lba + SectorsAtOnce}
  BY <1>1 DEF Block, Lba
<1>. QED
  BY <1>4, <1>5 DEF k

-----------------------------------------------------------------------------
(* What keeps blocks and display blocks together.  Zones begin at one, and    *)
(* end at one or at the end of the device.                                    *)
TableAligned ==
    \A z \in zones : Aligned(z.begin) /\ (Aligned(z.end) \/ z.end = EndLba)

(* Only skipfail reads a zone backward, and not from the end of the device. *)
BackAligned ==
    /\ strategy \in Strategies \cup {"plain"}
    /\ reverse => pc # "closed" /\ strategy = "skipfail" /\ Aligned(cur.end)

JournalUniform ==
    \A s, t \in Lba : BlockOf(s) = BlockOf(t) => journal[s] = journal[t]

(* What is reported is the block under way. *)
ReportIsTask ==
    pc \in {"read", "write", "journal", "use"} => report.lba = task.lba /\ report.n = task.n

(* A run has not failed yet when the loop goes on. *)
LoopRet == pc \in {"closed", "filling", "syncing", "loop"} => ret = 0

BlockInv == TableAligned /\ BackAligned /\ JournalUniform /\ ReportIsTask /\ LoopRet

LEMMA InitBlockInv == Init => BlockInv
<1>. SUFFICES ASSUME Init PROVE BlockInv
  OBVIOUS
<1>1. TableAligned /\ BackAligned /\ ReportIsTask /\ LoopRet
  BY DEF Init, TableAligned, BackAligned, ReportIsTask, LoopRet
<1>2. JournalUniform
  BY DEF Init, JournalUniform
<1>. QED
  BY <1>1, <1>2 DEF BlockInv

(* An address that two blocks meet at is aligned. *)
LEMMA BlockBorder ==
  ASSUME NEW n \in Int, BlockOf(n - 1) # BlockOf(n)
  PROVE  Aligned(n)
<1>. DEFINE k == BlockOf(n)
<1>1. /\ k \in Int /\ SectorsAtOnce * k \in Int
      /\ SectorsAtOnce * k <= n /\ n < SectorsAtOnce * k + SectorsAtOnce
  BY BlockOfIs, Monotone
<1>2. n - 1 \in Int /\ SectorsAtOnce \in Int
  BY SizeAssumption
<1>3. (SectorsAtOnce * k <= n - 1 /\ n - 1 < SectorsAtOnce * k + SectorsAtOnce)
         => BlockOf(n - 1) = k
  BY <1>1, <1>2, BlockOfIs
<1>. HIDE DEF k
<1>4. n = SectorsAtOnce * k
  BY <1>1, <1>2, <1>3 DEF k
<1>. QED
  BY <1>1, <1>4, MultipleAligned

(* The zones that a run resumes with are made of whole blocks. *)
LEMMA ParseAligned ==
  ASSUME JournalUniform, NEW z \in Parse(journal)
  PROVE  Aligned(z.begin) /\ (Aligned(z.end) \/ z.end = EndLba)
<1>1. PICK p \in {q \in Lba \X (1 .. EndLba) : IsRun(journal, q[1], q[2])} :
        z = RunZone(journal, p[1], p[2])
  BY DEF Parse
<1>2. /\ p[1] \in Lba /\ p[2] \in 1 .. EndLba /\ IsRun(journal, p[1], p[2])
      /\ z.begin = p[1] /\ z.end = p[2]
  BY <1>1 DEF RunZone
<1>3. z.begin \in Int /\ z.end \in Int /\ EndLba \in Int /\ z.begin < z.end
      /\ 0 <= z.begin /\ z.end <= EndLba
  BY <1>2, SizeAssumption DEF Lba, IsRun
<1>4. z.begin \in z.begin .. z.end - 1 /\ z.end - 1 \in z.begin .. z.end - 1
  BY <1>3
<1>5. journal[z.begin] = "Unread" /\ journal[z.end - 1] = "Unread"
  BY <1>2, <1>4 DEF IsRun
<1>6. Aligned(z.begin)
  <2>1. CASE z.begin = 0
    <3>1. SectorsAtOnce * 0 = 0
      BY SizeAssumption
    <3>. QED
      BY <2>1, <3>1, MultipleAligned
  <2>2. CASE z.begin > 0
    <3>1. journal[z.begin - 1] # "Unread" /\ z.begin - 1 \in Lba /\ z.begin \in Lba
      BY <1>2, <1>3, <2>2 DEF IsRun, Lba
    <3>2. BlockOf(z.begin - 1) # BlockOf(z.begin)
      BY <1>5, <3>1 DEF JournalUniform
    <3>. QED
      BY <1>3, <3>2, BlockBorder
  <2>. QED
    BY <1>3, <2>1, <2>2
<1>7. CASE z.end < EndLba
  <2>1. journal[z.end] # "Unread" /\ z.end \in Lba /\ z.end - 1 \in Lba
    BY <1>2, <1>3, <1>7 DEF IsRun, Lba
  <2>2. BlockOf(z.end - 1) # BlockOf(z.end)
    BY <1>5, <2>1 DEF JournalUniform
  <2>3. Aligned(z.end)
    BY <1>3, <2>2, BlockBorder
  <2>. QED
    BY <1>6, <2>3
<1>8. CASE z.end = EndLba
  BY <1>6, <1>8
<1>. QED
  BY <1>3, <1>7, <1>8

LEMMA OpenBlocks == IInv /\ BlockInv /\ Open => BlockInv'
<1>. SUFFICES ASSUME IInv, BlockInv, Open PROVE BlockInv'
  OBVIOUS
<1>1. pc = "closed" /\ UNCHANGED <<choice, perform, journal>>
      /\ pc' \in {"loop", "filling", "closed", "aborted"}
  BY DEF Open, OpenWithoutJournal, OpenCreateJournal, OpenResume, OpenRefused, OpenDstFails,
     OpenContext, process
<1>2. JournalUniform' /\ ReportIsTask' /\ LoopRet'
  BY <1>1 DEF BlockInv, JournalUniform, ReportIsTask, LoopRet, perform
<1>3. BackAligned'
  <2>1. ~reverse'
    BY <1>1 DEF BlockInv, BackAligned, choice
  <2>2. strategy' \in Strategies \cup {"plain"}
    BY DEF BlockInv, BackAligned, Open, OpenWithoutJournal, OpenCreateJournal, OpenResume,
       OpenRefused, OpenDstFails, OpenContext, process, settings
  <2>. QED
    BY <2>1, <2>2 DEF BackAligned
<1>4. TableAligned'
  <2>1. zones' \in {zones, WholeDevice, Parse(journal)}
    BY DEF Open, OpenWithoutJournal, OpenCreateJournal, OpenResume, OpenRefused,
       OpenDstFails, UseTable, process, table
  <2>2. Aligned(0)
    <3>1. SectorsAtOnce * 0 = 0
      BY SizeAssumption
    <3>. QED
      BY <3>1, MultipleAligned
  <2>3. CASE zones' = zones
    BY <2>3 DEF BlockInv, TableAligned
  <2>4. CASE zones' = WholeDevice
    BY <2>2, <2>4 DEF TableAligned, WholeDevice
  <2>5. CASE zones' = Parse(journal)
    BY <2>5, ParseAligned DEF BlockInv, TableAligned
  <2>. QED
    BY <2>1, <2>3, <2>4, <2>5
<1>. QED
  BY <1>2, <1>3, <1>4 DEF BlockInv

(* A zone is cut where a block begins. *)
LEMMA CutAligned ==
  ASSUME IInv, NEW c \in Cuts
  PROVE  Aligned(c.at)
<1>1. c.zone \in zones /\ (c.at = Middle(c.zone) \/ c.at = JumpTarget(c.zone))
  <2>1. \/ \E z \in SmartCut : c = [zone |-> z, at |-> Middle(z)]
        \/ \E z \in SkipfailCut : c = [zone |-> z, at |-> JumpTarget(z)]
    BY DEF Cuts
  <2>. QED
    BY <2>1, CutsInTable
<1>2. c.zone.begin \in Int /\ c.zone.end \in Int
  BY <1>1, SizeAssumption DEF IInv, TypeOK, TypeTable, Zone, Lba
<1>3. c.zone.begin + Length(c.zone) \div 2 \in Int
  BY <1>2 DEF Length
<1>4. c.zone.begin + JumpSectors \in Int
  <2>1. SkipBlocks * SectorsAtOnce \in Int
    BY SizeAssumption
  <2>2. \A x \in Int : WrapInt(x) \in Int
    BY SizeAssumption DEF WrapInt
  <2>3. JumpSectors \in Int
    BY <2>1, <2>2 DEF JumpSectors
  <2>. QED
    BY <1>2, <2>3
<1>. QED
  BY <1>1, <1>3, <1>4, AlignDownAligned DEF Middle, JumpTarget

(* skipfail reads no zone backward from the end of the device. *)
LEMMA BackwardAligned ==
  ASSUME IInv, TableAligned, NEW z \in zones, SkipfailBackward(z)
  PROVE  Aligned(z.end)
<1>1. PICK y \in zones : ~ (y.begin <= z.begin)
  BY DEF SkipfailBackward, IsLast
<1>2. y.begin \in Lba /\ z.begin \in Lba /\ y.end \in 1 .. EndLba /\ z.end \in 1 .. EndLba
  BY DEF IInv, TypeOK, TypeTable, Zone
<1>3. Disjoint(z, y) /\ y.begin < y.end /\ z.begin < z.end
  BY <1>1, <1>2, SizeAssumption DEF IInv, TableSound, WellFormed, Lba
<1>4. z.end # EndLba
  BY <1>1, <1>2, <1>3, SizeAssumption DEF Disjoint, Lba
<1>. QED
  BY <1>4 DEF TableAligned

(* What a task leaves alone, and what it reports. *)
LEMMA ProceedBlocks ==
  ASSUME BlockInv, pc = "loop", NEW z, NEW rev \in BOOLEAN, Proceed(z, rev), TableAligned',
         rev => strategy = "skipfail" /\ Aligned(z.end)
  PROVE  BlockInv'
<1>1. /\ cur' = z /\ reverse' = rev /\ pc' \in {"read", "callback"}
      /\ pc' = "read" => report'.lba = task'.lba /\ report'.n = task'.n
      /\ strategy' = strategy /\ journal' = journal
  BY DEF Proceed, settings, disk
<1>2. BackAligned'
  BY <1>1 DEF BlockInv, BackAligned
<1>3. JournalUniform' /\ ReportIsTask' /\ LoopRet'
  BY <1>1 DEF BlockInv, JournalUniform, ReportIsTask, LoopRet
<1>. QED
  BY <1>2, <1>3 DEF BlockInv

LEMMA GetTaskBlocks ==
  ASSUME KeepsToBlocks, IInv, BlockInv, GetTask
  PROVE  BlockInv'
<1>1. /\ strategy \in Strategies \cup {"plain"} /\ strategy # "smart" /\ reverse \in BOOLEAN
      /\ reverse => strategy = "skipfail" /\ Aligned(cur.end)
  BY DEF KeepsToBlocks, BlockInv, BackAligned, IInv, TypeOK, TypeFlags
<1>2. UNCHANGED zones => TableAligned'
  BY DEF BlockInv, TableAligned
<1>3. CASE PlainTask
  <2>1. pc = "loop" /\ strategy = "plain" /\ Proceed(First(zones), reverse) /\ UNCHANGED zones
    BY <1>3 DEF PlainTask, LoopGoesOn, table
  <2>. QED
    BY <1>1, <1>2, <2>1, ProceedBlocks
<1>4. CASE KeepZone
  <2>1. pc = "loop" /\ Proceed(cur, reverse) /\ UNCHANGED zones
    BY <1>4 DEF KeepZone, LoopGoesOn, table
  <2>. QED
    BY <1>1, <1>2, <2>1, ProceedBlocks
<1>5. CASE SmartTakeZone
  <2>1. PICK z \in {First({y \in zones : SmartProcessable(y)})} :
          Proceed(z, ReadsBackward(z))
    BY <1>5 DEF SmartTakeZone
  <2>2. ReadsBackward(z) = FALSE
    BY <1>1 DEF ReadsBackward
  <2>3. pc = "loop" /\ Proceed(z, FALSE) /\ UNCHANGED zones
    BY <1>5, <2>1, <2>2 DEF SmartTakeZone, ChooseZone, LoopGoesOn, table
  <2>. QED
    BY <1>2, <2>3, ProceedBlocks
<1>6. CASE SmartReadTheRest
  <2>1. pc = "loop" /\ Proceed(First(zones), FALSE) /\ UNCHANGED zones
    BY <1>6 DEF SmartReadTheRest, ChooseZone, LoopGoesOn, table
  <2>. QED
    BY <1>2, <2>1, ProceedBlocks
<1>7. CASE SkipfailTakeZone
  <2>. DEFINE z == First(SkipfailChoices)
  <2>1. /\ pc = "loop" /\ Proceed(z, SkipfailBackward(z)) /\ UNCHANGED zones
        /\ SkipfailChoices # {}
    BY <1>7 DEF SkipfailTakeZone, ChooseZone, LoopGoesOn, table
  <2>2. z \in zones
    <3>1. SkipfailChoices \in SUBSET zones /\ zones \in SUBSET Zone
      BY DEF SkipfailChoices, IInv, TypeOK, TypeTable
    <3>2. z \in SkipfailChoices
      BY <2>1, <3>1, FirstIsFirst
    <3>. QED
      BY <3>1, <3>2
  <2>3. SkipfailBackward(z) \in BOOLEAN
    BY DEF SkipfailBackward
  <2>4. SkipfailBackward(z) => strategy = "skipfail" /\ Aligned(z.end)
    BY <2>2, BackwardAligned DEF SkipfailBackward, BlockInv
  <2>. HIDE DEF z
  <2>. QED
    BY <1>2, <2>1, <2>3, <2>4, ProceedBlocks
<1>8. CASE SkipfailGivesUp \/ SplitAborts
  <2>1. /\ UNCHANGED <<zones, strategy, reverse, cur, journal>> /\ pc' \in {"callback", "aborted"}
    BY <1>8 DEF SkipfailGivesUp, SplitAborts, process, settings, table, choice, disk
  <2>. QED
    BY <2>1 DEF BlockInv, TableAligned, BackAligned, JournalUniform, ReportIsTask, LoopRet
<1>9. CASE SplitZone
  <2>1. PICK c \in Cuts :
          /\ zones' = Split(zones, c.zone, c.at)
          /\ IF strategy \in {"smart", "skipfail"}
               THEN Proceed(Lower(c.zone, c.at), TRUE)
               ELSE Proceed(Upper(c.zone, c.at), FALSE)
    BY <1>9 DEF SplitZone
  <2>2. c.zone \in zones /\ Aligned(c.at)
    BY CutsInTable, CutAligned
  <2>3. TableAligned'
    BY <2>1, <2>2 DEF BlockInv, TableAligned, Split, Lower, Upper
  <2>4. pc = "loop"
    BY <1>9 DEF SplitZone, ChooseZone, LoopGoesOn
  <2>5. CASE strategy = "skipfail"
    <3>1. Proceed(Lower(c.zone, c.at), TRUE) /\ Aligned(Lower(c.zone, c.at).end)
      BY <2>1, <2>2, <2>5 DEF Lower
    <3>. QED
      BY <2>3, <2>4, <2>5, <3>1, ProceedBlocks
  <2>6. CASE strategy # "skipfail"
    <3>1. Proceed(Upper(c.zone, c.at), FALSE)
      BY <1>1, <2>1, <2>6
    <3>. QED
      BY <2>3, <2>4, <3>1, ProceedBlocks
  <2>. QED
    BY <2>5, <2>6
<1>. QED
  BY <1>3, <1>4, <1>5, <1>6, <1>7, <1>8, <1>9 DEF GetTask

(* The block under way is a display block. *)
LEMMA TaskWhole ==
  ASSUME IInv, BlockInv, pc \in {"read", "write", "journal", "use"}
  PROVE  /\ task.lba \in Lba /\ Aligned(task.lba) /\ task.n \in 1 .. SectorsAtOnce
         /\ task.n = SectorsAtOnce \/ (~reverse /\ task.n = Length(cur) /\ cur.end = EndLba)
         /\ task.lba = IF reverse THEN cur.end - task.n ELSE cur.begin
         /\ TaskSectors = BlockSectors(BlockOf(task.lba))
         /\ task.n < SectorsAtOnce => task.lba + task.n = EndLba
<1>1. /\ cur \in zones /\ WellFormed(zones) /\ reverse \in BOOLEAN
      /\ task = [lba |-> TaskLba(cur, reverse), n |-> TaskSize(cur)]
      /\ task.n \in 1 .. Length(cur) /\ task.n \in Nat /\ task.lba \in Int
      /\ TaskSectors \subseteq Covered(zones)
  BY TaskFacts
<1>2. /\ task.n = TaskSize(cur)
      /\ task.lba = IF reverse THEN cur.end - task.n ELSE cur.begin
  BY <1>1 DEF TaskLba
<1>3. /\ cur.begin \in Int /\ cur.end \in Int /\ 0 <= cur.begin /\ cur.begin < cur.end
      /\ cur.end <= EndLba /\ EndLba \in Int /\ SectorsAtOnce \in Int /\ SectorsAtOnce > 0
      /\ Length(cur) = cur.end - cur.begin
  BY <1>1, SizeAssumption DEF WellFormed, Zone, Lba, Length
<1>4. Aligned(cur.begin) /\ (Aligned(cur.end) \/ cur.end = EndLba)
  BY <1>1 DEF BlockInv, TableAligned
<1>5. Aligned(cur.end) => Length(cur) >= SectorsAtOnce
  BY <1>3, <1>4, NextAlignedIs
<1>6. reverse => Aligned(cur.end)
  BY DEF BlockInv, BackAligned
<1>7. task.n \in 1 .. SectorsAtOnce
      /\ (task.n = SectorsAtOnce \/ (~reverse /\ task.n = Length(cur) /\ cur.end = EndLba))
  BY <1>1, <1>2, <1>3, <1>4, <1>5, <1>6 DEF TaskSize
<1>8. task.lba \in Lba
  BY <1>1, <1>2, <1>3 DEF Lba
<1>9. Aligned(task.lba)
  BY <1>2, <1>3, <1>4, <1>6, <1>7, NextAlignedIs
<1>10. (task.n = SectorsAtOnce /\ task.lba + task.n <= EndLba) \/ task.lba + task.n = EndLba
  BY <1>1, <1>2, <1>3, <1>7
<1>11. TaskSectors = BlockSectors(BlockOf(task.lba))
  BY <1>7, <1>8, <1>9, <1>10, WholeBlock DEF TaskSectors
<1>. QED
  BY <1>2, <1>3, <1>7, <1>8, <1>9, <1>10, <1>11

LEMMA WriteJournalBlocks == IInv /\ BlockInv /\ WriteJournal => BlockInv'
<1>. SUFFICES ASSUME IInv, BlockInv, WriteJournal PROVE BlockInv'
  OBVIOUS
<1>1. /\ pc = "journal" /\ pc' = "use" /\ UNCHANGED process
      /\ journal' = [s \in Lba |-> IF s \in TaskSectors THEN TaskFate ELSE journal[s]]
  BY DEF WriteJournal
<1>2. TableAligned' /\ BackAligned' /\ ReportIsTask' /\ LoopRet'
  BY <1>1 DEF BlockInv, TableAligned, BackAligned, ReportIsTask, LoopRet, process, settings,
     table, choice, perform
<1>3. TaskSectors = BlockSectors(BlockOf(task.lba))
  BY <1>1, TaskWhole
<1>4. JournalUniform'
  BY <1>1, <1>3 DEF BlockInv, JournalUniform, BlockSectors
<1>. QED
  BY <1>2, <1>4 DEF BlockInv

(* What is left of a zone begins and ends with a block again. *)
LEMMA UseResultsBlocks == IInv /\ BlockInv /\ UseResults => BlockInv'
<1>. SUFFICES ASSUME IInv, BlockInv, UseResults PROVE BlockInv'
  OBVIOUS
<1>. DEFINE w == Shrunk(cur, reverse, task.n, Failed)
<1>1. /\ pc = "use" /\ pc' = "callback" /\ UNCHANGED <<strategy, reverse, journal>>
      /\ zones' = Replaced(zones, cur, w)
      /\ cur' \in {NoZone, w}
  BY DEF UseResults, UpdateZones, ShrunkCur, settings, disk
<1>2. /\ task.lba \in Lba /\ Aligned(task.lba)
      /\ task.n = SectorsAtOnce \/ (~reverse /\ task.n = Length(cur))
      /\ task.lba = IF reverse THEN cur.end - task.n ELSE cur.begin
  BY <1>1, TaskWhole
<1>3. /\ cur \in zones /\ cur.begin \in Int /\ cur.end \in Int
      /\ Aligned(cur.begin) /\ (Aligned(cur.end) \/ cur.end = EndLba)
  BY <1>1, TaskFacts, SizeAssumption DEF WellFormed, Zone, Lba, BlockInv, TableAligned
<1>4. CASE reverse
  <2>1. w.begin = cur.begin /\ w.end = task.lba
    BY <1>2, <1>4 DEF Shrunk
  <2>. HIDE DEF w
  <2>2. TableAligned'
    BY <1>1, <1>2, <1>3, <2>1 DEF BlockInv, TableAligned, Replaced
  <2>3. Aligned(cur'.end)
    <3>1. Aligned(NoZone.end)
      <4>1. SectorsAtOnce * 0 = 0
        BY SizeAssumption
      <4>. QED
        BY <4>1, MultipleAligned DEF NoZone
    <3>. QED
      BY <1>1, <1>2, <2>1, <3>1
  <2>. QED
    BY <1>1, <2>2, <2>3 DEF BlockInv, BackAligned, JournalUniform, ReportIsTask, LoopRet
<1>5. CASE ~reverse
  <2>1. w.begin = cur.begin + task.n /\ w.end = cur.end
    BY <1>5 DEF Shrunk
  <2>2. w.begin = w.end \/ Aligned(w.begin)
    <3>1. CASE task.n = SectorsAtOnce
      BY <1>3, <2>1, <3>1, NextAlignedIs
    <3>2. CASE task.n = Length(cur)
      BY <1>3, <2>1, <3>2 DEF Length
    <3>. QED
      BY <1>2, <3>1, <3>2
  <2>. HIDE DEF w
  <2>3. TableAligned'
    BY <1>1, <1>3, <2>1, <2>2 DEF BlockInv, TableAligned, Replaced
  <2>. QED
    BY <1>1, <1>5, <2>3 DEF BlockInv, BackAligned, JournalUniform, ReportIsTask, LoopRet
<1>. QED
  BY <1>4, <1>5

LEMMA NextBlocks ==
  ASSUME KeepsToBlocks, JournalWhole, IInv, BlockInv, [Next]_vars
  PROVE  BlockInv'
<1>1. CASE Open
  BY <1>1, OpenBlocks
<1>2. CASE GetTask
  BY <1>2, GetTaskBlocks
<1>3. CASE Read \/ Write
  <2>1. /\ UNCHANGED <<zones, strategy, reverse, cur, journal, task>>
        /\ pc \in {"read", "write"} /\ pc' \in {"write", "journal", "use"}
    BY <1>3 DEF Read, Write, settings, table, choice, disk
  <2>2. report \in [lba : Int, n : Int, status : {"ok", "error"}]
    BY DEF IInv, TypeOK, TypePerform
  <2>3. report'.lba = report.lba /\ report'.n = report.n
    BY <1>3, <2>2 DEF Read, ReadGood, ReadBad, IoctlFails, ReadLost, Write, WriteSkipped, WriteDone,
       WriteFails
  <2>. QED
    BY <2>1, <2>3 DEF BlockInv, TableAligned, BackAligned, JournalUniform, ReportIsTask, LoopRet
<1>4. CASE WriteJournal
  BY <1>4, WriteJournalBlocks
<1>5. CASE UseResults
  BY <1>5, UseResultsBlocks
<1>6. CASE FillJournal \/ SyncJournal \/ LoopEnds \/ Callback
  BY <1>6 DEF FillJournal, SyncJournal, LoopEnds, Callback, process, settings, table, choice,
     perform, disk, BlockInv, TableAligned, BackAligned, JournalUniform, ReportIsTask, LoopRet
<1>7. CASE Close \/ Crash \/ Reboot
  <2>1. Idle /\ journal' = journal
    BY <1>7 DEF Close, Crash, Reboot, disk
  <2>. QED
    BY <2>1 DEF Idle, BlockInv, TableAligned, BackAligned, JournalUniform, ReportIsTask, LoopRet
<1>8. CASE JournalFails \/ PowerLoss
  BY <1>8 DEF JournalFails, PowerLoss, JournalWhole
<1>9. CASE Interrupt \/ UNCHANGED vars
  <2>1. UNCHANGED <<pc, process, disk>>
    BY <1>9 DEF Interrupt, vars
  <2>. QED
    BY <2>1 DEF BlockInv, TableAligned, BackAligned, JournalUniform, ReportIsTask, LoopRet,
       process, settings, table, choice, perform, disk
<1>. QED
  BY <1>1, <1>2, <1>3, <1>4, <1>5, <1>6, <1>7, <1>8, <1>9 DEF Next, Step

-----------------------------------------------------------------------------
(* The screen only watches: under it the copy procedure takes its own steps. *)
LEMMA ScreenStep == [ScreenNext]_<<vars, screenVars>> => [Next]_vars
<1>. SUFFICES ASSUME [ScreenNext]_<<vars, screenVars>> PROVE [Next]_vars
  OBVIOUS
<1>1. CASE screen = "off" /\ (Open \/ FillJournal \/ SyncJournal) /\ UNCHANGED screenVars
  BY <1>1 DEF Next, Step
<1>2. CASE OpenScreen \/ DrawReport \/ CloseScreen
  BY <1>2 DEF OpenScreen, DrawReport, CloseScreen
<1>3. CASE screen = "on" /\ (Working \/ Close \/ Interrupt) /\ UNCHANGED screenVars
  BY <1>3 DEF Working, Next, Step
<1>4. CASE HandleReport
  BY <1>4 DEF HandleReport, Next, Step
<1>5. CASE (Crash \/ Reboot \/ PowerLoss) /\ ScreenOff
  BY <1>5 DEF Next
<1>6. CASE UNCHANGED <<vars, screenVars>>
  BY <1>6
<1>. QED
  BY <1>1, <1>2, <1>3, <1>4, <1>5, <1>6 DEF ScreenNext

(* The copy procedure under its screen is the copy procedure. *)
THEOREM ScreenOnlyWatches == ScreenSpec => Spec
BY ScreenStep, PTL DEF ScreenSpec, Spec

-----------------------------------------------------------------------------
(* The display blocks. *)
LEMMA BlocksAre ==
  /\ NbBlocks \in Nat \ {0}
  /\ SectorsAtOnce * (NbBlocks - 1) < EndLba /\ EndLba <= SectorsAtOnce * NbBlocks
  /\ \A b \in Blocks : b \in Nat /\ b * SectorsAtOnce \in Lba /\ BlockOf(b * SectorsAtOnce) = b
  /\ \A s \in Lba : BlockOf(s) \in Blocks
<1>. DEFINE e == EndLba + SectorsAtOnce - 1
            q == BlockOf(e)
<1>1. /\ EndLba \in Int /\ EndLba > 0 /\ SectorsAtOnce \in Int /\ SectorsAtOnce > 0
      /\ e \in Int
  BY SizeAssumption
<1>2. NbBlocks = q
  BY DEF NbBlocks, BlockOf
<1>3. /\ q \in Int /\ SectorsAtOnce * q \in Int
      /\ SectorsAtOnce * q <= e /\ e < SectorsAtOnce * q + SectorsAtOnce
  BY <1>1, BlockOfIs, Monotone
<1>. HIDE DEF q
<1>4. SectorsAtOnce * (q - 1) = SectorsAtOnce * q - SectorsAtOnce
  <2>1. q - 1 \in Int /\ (q - 1) + 1 = q
    BY <1>3
  <2>2. SectorsAtOnce * ((q - 1) + 1) = SectorsAtOnce * (q - 1) + SectorsAtOnce
    BY <2>1, Monotone
  <2>3. SectorsAtOnce * (q - 1) \in Int
    BY <2>1, Monotone
  <2>. QED
    BY <1>1, <2>1, <2>2, <2>3
<1>5. SectorsAtOnce * (q - 1) < EndLba /\ EndLba <= SectorsAtOnce * q
  BY <1>1, <1>3, <1>4
<1>6. q > 0
  <2>1. q <= 0 => SectorsAtOnce * q <= SectorsAtOnce * 0
    BY <1>3, Monotone
  <2>2. SectorsAtOnce * 0 = 0
    BY <1>1
  <2>. QED
    BY <1>1, <1>3, <1>5, <2>1, <2>2
<1>7. ASSUME NEW b \in Blocks
      PROVE  b \in Nat /\ b * SectorsAtOnce \in Lba /\ BlockOf(b * SectorsAtOnce) = b
  <2>1. b \in Int /\ 0 <= b /\ b <= q - 1 /\ q - 1 \in Int
    BY <1>2, <1>3 DEF Blocks
  <2>2. SectorsAtOnce * b <= SectorsAtOnce * (q - 1)
    BY <2>1, Monotone
  <2>3. SectorsAtOnce * 0 <= SectorsAtOnce * b /\ SectorsAtOnce * 0 = 0
    BY <1>1, <2>1, Monotone
  <2>4. b * SectorsAtOnce = SectorsAtOnce * b /\ SectorsAtOnce * b \in Int
    BY <1>1, <2>1
  <2>5. BlockOf(SectorsAtOnce * b) = b
    BY <2>1, MultipleAligned
  <2>6. SectorsAtOnce * b \in Lba
    BY <1>1, <1>3, <1>4, <1>5, <2>2, <2>3, <2>4 DEF Lba
  <2>. QED
    BY <2>1, <2>4, <2>5, <2>6
<1>8. ASSUME NEW s \in Lba PROVE BlockOf(s) \in Blocks
  <2>1. s \in Int /\ 0 <= s /\ s < EndLba
    BY <1>1, <1>8 DEF Lba
  <2>. DEFINE k == BlockOf(s)
  <2>2. /\ k \in Int /\ SectorsAtOnce * k \in Int
        /\ SectorsAtOnce * k <= s /\ s < SectorsAtOnce * k + SectorsAtOnce
    BY <2>1, BlockOfIs, Monotone
  <2>. HIDE DEF k
  <2>3. k < q
    <3>1. q <= k => SectorsAtOnce * q <= SectorsAtOnce * k
      BY <1>3, <2>2, Monotone
    <3>. QED
      BY <1>1, <1>3, <1>5, <2>1, <2>2, <3>1
  <2>4. 0 <= k
    <3>1. k + 1 <= 0 => SectorsAtOnce * (k + 1) <= SectorsAtOnce * 0
      BY <2>2, Monotone
    <3>2. SectorsAtOnce * (k + 1) = SectorsAtOnce * k + SectorsAtOnce /\ SectorsAtOnce * 0 = 0
      BY <1>1, <2>2, Monotone
    <3>. QED
      BY <1>1, <2>1, <2>2, <3>1, <3>2
  <2>5. k \in Blocks
    BY <1>2, <1>3, <2>2, <2>3, <2>4 DEF Blocks
  <2>. QED
    BY <2>5 DEF k
<1>. QED
  BY <1>2, <1>3, <1>5, <1>6, <1>7, <1>8

-----------------------------------------------------------------------------
(* The reports on their way, those in the ring and the one that is handed     *)
(* over next, in the order in which they will be drawn.                       *)
Reports == [lba : Int, n : Int, status : {"ok", "error"}]
Pending == IF pc = "callback" THEN Append(queue, report) ELSE queue
Elems(p) == {p[i] : i \in DOMAIN p}

(* Reports of different blocks. *)
Apart(p) == \A i, j \in DOMAIN p : i # j => BlockOf(p[i].lba) # BlockOf(p[j].lba)

LEMMA AppendReport ==
  ASSUME NEW q \in Seq(Reports), NEW r \in Reports
  PROVE  /\ Append(q, r) \in Seq(Reports) /\ Append(q, r) # << >>
         /\ Elems(Append(q, r)) = Elems(q) \cup {r}
         /\ Apart(q) /\ (\A x \in Elems(q) : BlockOf(x.lba) # BlockOf(r.lba))
              => Apart(Append(q, r))
<1>. DEFINE a == Append(q, r)
<1>1. /\ a \in Seq(Reports) /\ Len(q) \in Nat
      /\ DOMAIN q = 1 .. Len(q) /\ DOMAIN a = 1 .. Len(q) + 1
      /\ \A i \in 1 .. Len(q) : a[i] = q[i]
      /\ a[Len(q) + 1] = r /\ a # << >>
  OBVIOUS
<1>2. \A i \in DOMAIN a : i \in DOMAIN q \/ i = Len(q) + 1
  BY <1>1
<1>3. Len(q) + 1 \in DOMAIN a /\ Len(q) + 1 \notin DOMAIN q /\ DOMAIN q \subseteq DOMAIN a
  BY <1>1
<1>. HIDE DEF a
<1>4. Elems(a) = Elems(q) \cup {r}
  BY <1>1, <1>2, <1>3 DEF Elems
<1>5. ASSUME Apart(q), \A x \in Elems(q) : BlockOf(x.lba) # BlockOf(r.lba)
      PROVE  Apart(a)
  <2>1. \A i \in DOMAIN q : BlockOf(q[i].lba) # BlockOf(r.lba)
    BY <1>5 DEF Elems
  <2>. QED
    BY <1>1, <1>2, <1>3, <1>5, <2>1 DEF Apart
<1>. QED
  BY <1>1, <1>4, <1>5 DEF a

LEMMA TailReport ==
  ASSUME NEW q \in Seq(Reports), q # << >>
  PROVE  /\ Tail(q) \in Seq(Reports) /\ Head(q) \in Reports
         /\ Elems(q) = Elems(Tail(q)) \cup {Head(q)}
         /\ Apart(q) => Apart(Tail(q)) /\ \A x \in Elems(Tail(q)) :
                                             BlockOf(x.lba) # BlockOf(Head(q).lba)
         /\ \A r \in Reports : /\ Append(Tail(q), r) = Tail(Append(q, r))
                               /\ Head(Append(q, r)) = Head(q)
<1>. DEFINE t == Tail(q)
<1>1. /\ t \in Seq(Reports) /\ Len(q) \in Nat \ {0}
      /\ DOMAIN q = 1 .. Len(q) /\ DOMAIN t = 1 .. Len(q) - 1
      /\ \A i \in 1 .. Len(q) - 1 : t[i] = q[i + 1]
      /\ Head(q) = q[1] /\ q[1] \in Reports
  OBVIOUS
<1>2. \A i \in DOMAIN t : i + 1 \in DOMAIN q /\ i + 1 # 1 /\ t[i] = q[i + 1]
  BY <1>1
<1>3. \A i \in DOMAIN q : i = 1 \/ (i - 1 \in DOMAIN t /\ q[i] = t[i - 1])
  BY <1>1
<1>4. 1 \in DOMAIN q
  BY <1>1
<1>5. \A i, j \in DOMAIN t : i # j => i + 1 # j + 1
  BY <1>1
<1>6. ASSUME NEW r \in Reports
      PROVE  Append(Tail(q), r) = Tail(Append(q, r)) /\ Head(Append(q, r)) = Head(q)
  OBVIOUS
<1>. HIDE DEF t
<1>7. Elems(q) = Elems(t) \cup {Head(q)}
  BY <1>1, <1>2, <1>3, <1>4 DEF Elems
<1>8. Apart(q) => Apart(t)
  BY <1>2, <1>5 DEF Apart
<1>9. Apart(q) => \A x \in Elems(t) : BlockOf(x.lba) # BlockOf(Head(q).lba)
  BY <1>1, <1>2, <1>4 DEF Apart, Elems
<1>. QED
  BY <1>1, <1>6, <1>7, <1>8, <1>9 DEF t

-----------------------------------------------------------------------------
(* The screen's variables.  While it is off a run has not begun its loop. *)
ScreenTypes ==
    /\ screen \in {"on", "off"}
    /\ queue \in Seq(Reports)
    /\ blocksMap \in [Blocks -> SectorStatus]
    /\ screen = "off" => queue = << >>
    /\ screen = "off" => pc \in {"closed", "filling", "syncing", "loop", "aborted"}
    /\ screen = "off" \/ pc = "closed" => progress.num = 0

LEMMA InitScreenTypes == Init /\ ScreenInit => ScreenTypes
<1>. SUFFICES ASSUME Init, ScreenInit PROVE ScreenTypes
  OBVIOUS
<1>1. << >> \in Seq(Reports)
  OBVIOUS
<1>. QED
  BY <1>1 DEF Init, ScreenInit, ScreenTypes, SectorStatus

LEMMA NextScreenTypes ==
  ASSUME IInv, ScreenTypes, [ScreenNext]_<<vars, screenVars>>
  PROVE  ScreenTypes'
<1>1. CASE screen = "off" /\ (Open \/ FillJournal \/ SyncJournal) /\ UNCHANGED screenVars
  <2>1. pc' \in {"closed", "filling", "syncing", "loop", "aborted"}
    BY <1>1 DEF Open, OpenWithoutJournal, OpenCreateJournal, OpenResume, OpenRefused,
       OpenDstFails, FillJournal, SyncJournal
  <2>2. progress' = progress \/ progress'.num = 0
    <3>1. \A zs, n, den : UseTable(zs, n, den) => progress'.num = 0
      BY DEF UseTable
    <3>2. CASE Open
      BY <3>1, <3>2 DEF Open, OpenWithoutJournal, OpenCreateJournal, OpenResume, OpenRefused,
         OpenDstFails, process
    <3>3. CASE FillJournal \/ SyncJournal
      BY <3>3 DEF FillJournal, SyncJournal, process
    <3>. QED
      BY <1>1, <3>2, <3>3
  <2>. QED
    BY <1>1, <2>1, <2>2 DEF ScreenTypes, screenVars
<1>2. CASE OpenScreen
  <2>1. screen' = "on" /\ pc = "loop" /\ pc' = pc /\ queue' = queue
        /\ (blocksMap' = blocksMap \/ blocksMap' = [b \in Blocks |-> FirstStatus(b)])
    BY <1>2 DEF OpenScreen, vars
  <2>2. [b \in Blocks |-> FirstStatus(b)] \in [Blocks -> SectorStatus]
    BY BlocksAre DEF FirstStatus, IInv, TypeOK, TypeDisk
  <2>. QED
    BY <2>1, <2>2 DEF ScreenTypes
<1>3. CASE screen = "on" /\ (Working \/ Close \/ Interrupt) /\ UNCHANGED screenVars
  <2>1. CASE Working \/ Interrupt
    <3>1. pc # "closed" /\ pc' # "closed"
      <4>1. CASE GetTask
        BY <4>1, TaskChosen DEF SkipfailGivesUp, SplitAborts, Proceed
      <4>2. CASE Interrupt
        BY <4>2 DEF Interrupt
      <4>3. CASE LoopEnds \/ Read \/ Write \/ WriteJournal \/ JournalFails \/ UseResults
        BY <4>3 DEF LoopEnds, Read, Write, WriteJournal, JournalFails, UseResults
      <4>. QED
        BY <2>1, <4>1, <4>2, <4>3 DEF Working
    <3>. QED
      BY <1>3, <3>1 DEF ScreenTypes, screenVars
  <2>2. CASE Close
    BY <1>3, <2>2 DEF Close, Idle, ScreenTypes, screenVars
  <2>. QED
    BY <1>3, <2>1, <2>2
<1>4. CASE HandleReport
  <2>1. report \in Reports
    BY DEF IInv, TypeOK, TypePerform, Reports
  <2>2. Append(queue, report) \in Seq(Reports)
    BY <2>1, AppendReport DEF ScreenTypes
  <2>. QED
    BY <1>4, <2>2 DEF HandleReport, Callback, ScreenTypes
<1>5. CASE DrawReport
  <2>1. \E r \in Reports, x \in SectorStatus :
          blocksMap' = [blocksMap EXCEPT ![ReportBlock(r)] = x]
    BY <1>5, TailReport DEF DrawReport, SectorStatus, ErrorStatus, ScreenTypes
  <2>2. blocksMap' \in [Blocks -> SectorStatus]
    BY <2>1 DEF ScreenTypes
  <2>3. queue' \in Seq(Reports) /\ screen' = "on" /\ screen = "on" /\ UNCHANGED <<pc, progress>>
    BY <1>5, TailReport DEF DrawReport, ScreenTypes, vars, process
  <2>. QED
    BY <2>2, <2>3 DEF ScreenTypes
<1>6. CASE CloseScreen \/ ((Crash \/ Reboot \/ PowerLoss) /\ ScreenOff)
  <2>1. ScreenOff /\ pc' = "closed" /\ progress'.num = 0
    BY <1>6 DEF CloseScreen, Crash, Reboot, PowerLoss, Idle, ScreenTypes, vars, process
  <2>2. << >> \in Seq(Reports)
    OBVIOUS
  <2>. QED
    BY <2>1, <2>2 DEF ScreenOff, ScreenTypes, SectorStatus
<1>7. CASE UNCHANGED <<vars, screenVars>>
  BY <1>7 DEF vars, process, screenVars, ScreenTypes
<1>. QED
  BY <1>1, <1>2, <1>3, <1>4, <1>5, <1>6, <1>7 DEF ScreenNext

-----------------------------------------------------------------------------
(* The steps of a run that is shown and has not failed. *)
Showing == screen = "on" /\ Running /\ ret = 0

(* A step that tells of no block: what awaits the renderer stays. *)
QuietStep ==
    /\ Showing
    /\ Covered(zones') = Covered(zones)
    /\ UNCHANGED <<Pending, useJournal, blocksMap, unreadCount>>
    /\ UNCHANGED journal \/ (WriteJournal /\ UNCHANGED screenVars)
    /\ pc = "use" => pc' = "use" /\ task' = task

LEMMA ShownStep ==
  ASSUME IInv, BlockInv, ScreenTypes, [ScreenNext]_<<vars, screenVars>>, Showing'
  PROVE  \/ OpenScreen
         \/ UseResults /\ UNCHANGED screenVars /\ Showing
         \/ DrawReport /\ Showing
         \/ QuietStep
<1>. USE DEF Showing, Running
<1>0. ScreenOff => screen' = "off"
  BY DEF ScreenOff
<1>1. CASE screen = "off" /\ (Open \/ FillJournal \/ SyncJournal) /\ UNCHANGED screenVars
  BY <1>1 DEF screenVars
<1>2. CASE screen = "on" /\ (Working \/ Close \/ Interrupt) /\ UNCHANGED screenVars
  <2>1. CASE UseResults
    <3>1. ret = 0 /\ pc = "use"
      BY <2>1 DEF UseResults
    <3>. QED
      BY <1>2, <2>1, <3>1
  <2>2. CASE GetTask
    <3>1. pc = "loop" /\ ret = 0
      BY <2>2, TaskChosen DEF BlockInv, LoopRet
    <3>2. pc' = "read"
      <4>1. SkipfailGivesUp => ret' = 1
        BY DEF SkipfailGivesUp
      <4>2. SplitAborts => pc' = "aborted"
        BY DEF SplitAborts
      <4>3. \A z, rev : Proceed(z, rev) => pc' = "read" \/ ret' = 1
        BY DEF Proceed
      <4>. QED
        BY <2>2, <4>1, <4>2, <4>3, TaskChosen
    <3>3. UNCHANGED <<useJournal, journal>>
      BY <2>2, TaskChosen DEF settings, disk
    <3>4. Covered(zones') = Covered(zones)
      BY <2>2, SplitZoneCovers DEF GetTask, PlainTask, KeepZone, SmartTakeZone,
         SmartReadTheRest, SkipfailTakeZone, SkipfailGivesUp, SplitAborts, process, table
    <3>5. UNCHANGED <<Pending, blocksMap, unreadCount>>
      BY <1>2, <3>1, <3>2 DEF Pending, screenVars, counts
    <3>. QED
      BY <1>2, <3>1, <3>3, <3>4, <3>5 DEF QuietStep
  <2>3. CASE LoopEnds \/ Read \/ Write \/ WriteJournal
    <3>1. /\ pc \in {"loop", "read", "write", "journal"} /\ pc' # "callback" /\ ret = 0
          /\ UNCHANGED <<zones, useJournal>>
          /\ UNCHANGED journal \/ WriteJournal
      BY <2>3 DEF LoopEnds, Read, ReadGood, ReadBad, IoctlFails, ReadLost, Write, WriteJournal, process,
         settings, table, perform, disk
    <3>2. UNCHANGED <<Pending, blocksMap, unreadCount>>
      BY <1>2, <3>1 DEF Pending, screenVars, counts
    <3>. QED
      BY <1>2, <3>1, <3>2 DEF QuietStep
  <2>4. CASE JournalFails \/ Close
    BY <2>4 DEF JournalFails, Close, Idle
  <2>5. CASE Interrupt
    <3>1. /\ UNCHANGED <<pc, zones, useJournal, report, task, ret, journal>> /\ Running
      BY <2>5 DEF Interrupt, process, settings, table, perform, disk
    <3>2. UNCHANGED <<Pending, blocksMap, unreadCount>>
      BY <1>2, <3>1 DEF Pending, screenVars, counts
    <3>. QED
      BY <1>2, <3>1, <3>2 DEF QuietStep
  <2>. QED
    BY <1>2, <2>1, <2>2, <2>3, <2>4, <2>5 DEF Working
<1>3. CASE HandleReport
  <2>1. /\ pc = "callback" /\ pc' # "callback" /\ screen = "on" /\ ret = 0
        /\ UNCHANGED <<zones, useJournal, report, journal, blocksMap, unreadCount>>
        /\ queue' = Append(queue, report)
    BY <1>3 DEF HandleReport, Callback, process, settings, table, perform, disk, counts
  <2>2. UNCHANGED Pending
    BY <2>1 DEF Pending
  <2>. QED
    BY <2>1, <2>2 DEF QuietStep
<1>4. CASE DrawReport
  BY <1>4 DEF DrawReport, vars, process, perform
<1>5. CASE UNCHANGED <<vars, screenVars>>
  <2>1. /\ UNCHANGED <<pc, zones, useJournal, report, task, ret, journal>>
        /\ UNCHANGED <<screen, queue, blocksMap, unreadCount>>
    BY <1>5 DEF vars, process, settings, table, perform, disk, screenVars, counts
  <2>2. UNCHANGED Pending
    BY <2>1 DEF Pending
  <2>. QED
    BY <2>1, <2>2 DEF QuietStep
<1>6. CASE CloseScreen \/ ((Crash \/ Reboot \/ PowerLoss) /\ ScreenOff)
  BY <1>0, <1>6 DEF CloseScreen
<1>. QED
  BY <1>1, <1>2, <1>3, <1>4, <1>5, <1>6 DEF ScreenNext

LEMMA PendingType ==
  ASSUME IInv, ScreenTypes
  PROVE  Pending \in Seq(Reports) /\ queue \in Seq(Reports) /\ report \in Reports
<1>1. report \in Reports
  BY DEF IInv, TypeOK, TypePerform, Reports
<1>. QED
  BY <1>1, AppendReport DEF ScreenTypes, Pending

(* What a report on its way says: a display block that left the table. *)
ReportOfBlock(r) ==
    r.n > 0 /\ r.lba \in Lba /\ Block(r.lba, r.n) = BlockSectors(BlockOf(r.lba))

QueueInv ==
    Showing =>
        /\ Apart(Pending)
        /\ \A r \in Elems(Pending) :
              ReportOfBlock(r) /\ BlockSectors(BlockOf(r.lba)) \cap Covered(zones) = {}

(* use_results tells of the block that it takes out of the table. *)
LEMMA UseResultsShown ==
  ASSUME IInv, BlockInv, ScreenTypes, UseResults, UNCHANGED screenVars
  PROVE  /\ Pending = queue /\ Pending' = Append(queue, report)
         /\ ReportOfBlock(report)
         /\ BlockSectors(BlockOf(report.lba)) = TaskSectors
         /\ Covered(zones') = Covered(zones) \ TaskSectors
         /\ TaskSectors \subseteq Covered(zones) /\ report.lba \in TaskSectors
<1>1. /\ pc = "use" /\ pc' = "callback" /\ report' = report
      /\ zones' = Replaced(zones, cur, Shrunk(cur, reverse, task.n, Failed))
  BY DEF UseResults, UpdateZones, ShrunkCur
<1>2. /\ cur \in zones /\ WellFormed(zones) /\ reverse \in BOOLEAN
      /\ task.n \in 1 .. Length(cur) /\ task.n \in Nat /\ task.lba \in Int
      /\ TaskSectors = Block(IF reverse THEN cur.end - task.n ELSE cur.begin, task.n)
      /\ TaskSectors \subseteq Covered(zones)
  BY <1>1, TaskFacts
<1>3. Failed \in BOOLEAN
  BY DEF Failed
<1>4. Covered(zones') = Covered(zones) \ TaskSectors
  BY <1>1, <1>2, <1>3, ShrinkZone
<1>5. report.lba = task.lba /\ report.n = task.n
  BY <1>1 DEF BlockInv, ReportIsTask
<1>6. /\ task.lba \in Lba /\ task.n \in 1 .. SectorsAtOnce
      /\ TaskSectors = BlockSectors(BlockOf(task.lba))
  BY <1>1, TaskWhole
<1>7. task.lba \in TaskSectors
  BY <1>2 DEF TaskSectors, Block
<1>8. ReportOfBlock(report)
  BY <1>2, <1>5, <1>6 DEF ReportOfBlock, TaskSectors
<1>9. Pending = queue /\ Pending' = Append(queue, report)
  BY <1>1 DEF Pending, screenVars
<1>. QED
  BY <1>2, <1>4, <1>5, <1>6, <1>7, <1>8, <1>9

(* The renderer takes the first report. *)
LEMMA DrawShown ==
  ASSUME IInv, ScreenTypes, DrawReport
  PROVE  /\ Pending # << >> /\ Pending' = Tail(Pending) /\ Head(queue) = Head(Pending)
         /\ UNCHANGED <<vars, screen>>
<1>1. queue # << >> /\ queue' = Tail(queue) /\ UNCHANGED <<vars, screen>>
  BY DEF DrawReport
<1>2. UNCHANGED <<pc, report>>
  BY <1>1 DEF vars, process, perform
<1>3. queue \in Seq(Reports) /\ report \in Reports
  BY PendingType
<1>4. CASE pc = "callback"
  <2>1. Pending = Append(queue, report) /\ Pending' = Append(Tail(queue), report)
    BY <1>1, <1>2, <1>4 DEF Pending
  <2>. QED
    BY <1>1, <1>3, <2>1, TailReport, AppendReport
<1>5. CASE pc # "callback"
  BY <1>1, <1>2, <1>5 DEF Pending
<1>. QED
  BY <1>1, <1>4, <1>5

LEMMA NextQueue ==
  ASSUME IInv, BlockInv, ScreenTypes, QueueInv, [ScreenNext]_<<vars, screenVars>>
  PROVE  QueueInv'
<1>. SUFFICES ASSUME Showing'
              PROVE  /\ Apart(Pending')
                     /\ \A r \in Elems(Pending') : ReportOfBlock(r) /\
                           BlockSectors(BlockOf(r.lba)) \cap Covered(zones') = {}
  BY DEF QueueInv, ReportOfBlock, BlockSectors, Apart, Elems
<1>1. CASE OpenScreen
  <2>1. pc' = "loop" /\ queue' = << >>
    BY <1>1 DEF OpenScreen, vars, ScreenTypes
  <2>2. Pending' = << >>
    BY <2>1 DEF Pending
  <2>3. DOMAIN << >> = {}
    OBVIOUS
  <2>. QED
    BY <2>2, <2>3 DEF Apart, Elems
<1>2. CASE UseResults /\ UNCHANGED screenVars /\ Showing
  <2>1. /\ Pending = queue /\ Pending' = Append(queue, report)
        /\ ReportOfBlock(report) /\ BlockSectors(BlockOf(report.lba)) = TaskSectors
        /\ Covered(zones') = Covered(zones) \ TaskSectors
        /\ TaskSectors \subseteq Covered(zones) /\ report.lba \in TaskSectors
    BY <1>2, UseResultsShown
  <2>2. queue \in Seq(Reports) /\ report \in Reports
    BY PendingType
  <2>3. /\ Apart(queue)
        /\ \A r \in Elems(queue) :
              ReportOfBlock(r) /\ BlockSectors(BlockOf(r.lba)) \cap Covered(zones) = {}
    BY <1>2, <2>1 DEF QueueInv
  <2>4. \A r \in Elems(queue) : BlockOf(r.lba) # BlockOf(report.lba)
    BY <2>1, <2>3
  <2>5. Apart(Pending') /\ Elems(Pending') = Elems(queue) \cup {report}
    BY <2>1, <2>2, <2>3, <2>4, AppendReport
  <2>. QED
    BY <2>1, <2>3, <2>5
<1>3. CASE DrawReport /\ Showing
  <2>1. Pending # << >> /\ Pending' = Tail(Pending) /\ zones' = zones
    BY <1>3, DrawShown DEF vars, process, table
  <2>2. Pending \in Seq(Reports)
    BY PendingType
  <2>3. /\ Apart(Pending)
        /\ \A r \in Elems(Pending) :
              ReportOfBlock(r) /\ BlockSectors(BlockOf(r.lba)) \cap Covered(zones) = {}
    BY <1>3 DEF QueueInv
  <2>4. Apart(Pending') /\ Elems(Pending') \subseteq Elems(Pending)
    BY <2>1, <2>2, <2>3, TailReport
  <2>. QED
    BY <2>1, <2>3, <2>4
<1>4. CASE QuietStep
  <2>1. Showing /\ Pending' = Pending /\ Covered(zones') = Covered(zones)
    BY <1>4 DEF QuietStep
  <2>. QED
    BY <2>1 DEF QueueInv
<1>. QED
  BY <1>1, <1>2, <1>3, <1>4, ShownStep

-----------------------------------------------------------------------------
(* Counting sectors by blocks, as the renderer does when it opens.  The       *)
(* sectors of a set of full blocks are pairs of a block and an offset in it.  *)
LastBlock == NbBlocks - 1
SectorsOf(bs) == {s \in Lba : BlockOf(s) \in bs}

LEMMA FullBlocks ==
  ASSUME NEW bs \in SUBSET (Blocks \ {LastBlock})
  PROVE  /\ IsFiniteSet(SectorsOf(bs)) /\ IsFiniteSet(bs)
         /\ Cardinality(SectorsOf(bs)) = Cardinality(bs) * SectorsAtOnce
<1>. DEFINE A == SectorsOf(bs)
            O == 0 .. SectorsAtOnce - 1
            f == [s \in A |-> <<BlockOf(s), s % SectorsAtOnce>>]
<1>1. /\ SectorsAtOnce \in Nat /\ SectorsAtOnce > 0 /\ EndLba \in Int /\ LastBlock \in Nat
      /\ SectorsAtOnce * LastBlock < EndLba /\ SectorsAtOnce * LastBlock \in Int
      /\ Blocks = 0 .. LastBlock
  BY SizeAssumption, BlocksAre, Monotone DEF LastBlock, Blocks
<1>2. ASSUME NEW s \in A
      PROVE  /\ BlockOf(s) \in bs /\ s % SectorsAtOnce \in O
             /\ s = SectorsAtOnce * BlockOf(s) + (s % SectorsAtOnce)
  <2>1. s \in Int /\ BlockOf(s) \in bs
    BY SizeAssumption DEF SectorsOf, Lba
  <2>2. s = SectorsAtOnce * BlockOf(s) + (s % SectorsAtOnce)
    BY <2>1, BlockOfIs
  <2>3. s % SectorsAtOnce \in O
    BY <1>1, <2>1
  <2>. QED
    BY <2>1, <2>2, <2>3
<1>3. ASSUME NEW b \in bs, NEW r \in O
      PROVE  \E s \in A : BlockOf(s) = b /\ s % SectorsAtOnce = r
  <2>. DEFINE s == SectorsAtOnce * b + r
  <2>1. b \in Int /\ 0 <= b /\ b + 1 <= LastBlock /\ r \in Int /\ 0 <= r /\ r < SectorsAtOnce
    BY <1>1
  <2>2. /\ SectorsAtOnce * b \in Int /\ SectorsAtOnce * 0 <= SectorsAtOnce * b
        /\ SectorsAtOnce * 0 = 0
        /\ SectorsAtOnce * b + SectorsAtOnce = SectorsAtOnce * (b + 1)
        /\ SectorsAtOnce * (b + 1) <= SectorsAtOnce * LastBlock
    BY <1>1, <2>1, Monotone
  <2>. HIDE DEF A, O
  <2>3. s \in Int /\ SectorsAtOnce * b <= s /\ s < SectorsAtOnce * b + SectorsAtOnce
    BY <1>1, <2>1, <2>2
  <2>4. 0 <= s /\ s < EndLba
    BY <1>1, <2>1, <2>2
  <2>5. s \in Lba
    BY <1>1, <2>3, <2>4 DEF Lba
  <2>6. BlockOf(s) = b
    <3>. HIDE DEF s
    <3>. QED
      BY <2>1, <2>3, BlockOfIs
  <2>7. s = SectorsAtOnce * b + (s % SectorsAtOnce)
    <3>1. s = SectorsAtOnce * BlockOf(s) + (s % SectorsAtOnce)
      BY <2>3, BlockOfIs
    <3>. QED
      BY <2>6, <3>1
  <2>8. s % SectorsAtOnce = r
    <3>. DEFINE t == s % SectorsAtOnce
    <3>1. t \in Int
      BY <1>1, <2>3
    <3>2. SectorsAtOnce * b + r = SectorsAtOnce * b + t
      BY <2>7
    <3>. HIDE DEF t
    <3>3. r = t
      BY <2>1, <2>2, <3>1, <3>2
    <3>. QED
      BY <3>3 DEF t
  <2>9. s \in A
    BY <2>5, <2>6 DEF A, SectorsOf
  <2>. QED
    BY <2>6, <2>8, <2>9
<1>4. f \in [A -> bs \X O]
  BY <1>2
<1>5. \A s, t \in A : f[s] = f[t] => s = t
  <2>. TAKE s, t \in A
  <2>. HAVE f[s] = f[t]
  <2>1. BlockOf(s) = BlockOf(t) /\ s % SectorsAtOnce = t % SectorsAtOnce
    OBVIOUS
  <2>. QED
    BY <1>2, <2>1
<1>6. \A p \in bs \X O : \E s \in A : f[s] = p
  <2>. TAKE p \in bs \X O
  <2>1. PICK b \in bs, r \in O : p = <<b, r>>
    OBVIOUS
  <2>2. PICK s \in A : BlockOf(s) = b /\ s % SectorsAtOnce = r
    BY <1>3
  <2>. QED
    BY <2>1, <2>2
<1>. HIDE DEF f
<1>7. f \in Bijection(A, bs \X O)
  BY <1>4, <1>5, <1>6 DEF Bijection, Injection, Surjection, IsInjective
<1>8. IsFiniteSet(A)
  <2>1. IsFiniteSet(Lba)
    BY FS_Interval, SizeAssumption DEF Lba
  <2>. QED
    BY <2>1, FS_Subset DEF SectorsOf
<1>9. Cardinality(bs \X O) = Cardinality(A)
  BY <1>7, <1>8, FS_Bijection DEF ExistsBijection
<1>10. IsFiniteSet(bs)
  <2>1. IsFiniteSet(0 .. LastBlock)
    BY <1>1, FS_Interval
  <2>. QED
    BY <1>1, <2>1, FS_Subset
<1>11. IsFiniteSet(O) /\ Cardinality(O) = SectorsAtOnce
  <2>1. SectorsAtOnce - 1 \in Int
    BY <1>1
  <2>2. /\ IsFiniteSet(0 .. SectorsAtOnce - 1)
        /\ Cardinality(0 .. SectorsAtOnce - 1) =
              IF 0 > SectorsAtOnce - 1 THEN 0 ELSE (SectorsAtOnce - 1) - 0 + 1
    BY <2>1, FS_Interval
  <2>. QED
    BY <1>1, <2>2
<1>12. Cardinality(bs \X O) = Cardinality(bs) * Cardinality(O)
  BY <1>10, <1>11, FS_Product
<1>. QED
  BY <1>8, <1>9, <1>10, <1>11, <1>12

(* The last block is what is left of the device, unless that is nothing. *)
LEMMA LastBlockSize ==
  ASSUME EndLba % SectorsAtOnce # 0
  PROVE  /\ SectorsOf({LastBlock}) = Block(SectorsAtOnce * LastBlock, EndLba % SectorsAtOnce)
         /\ CountedSize(LastBlock) = EndLba % SectorsAtOnce
<1>. DEFINE m == SectorsAtOnce * LastBlock
<1>1. /\ SectorsAtOnce \in Nat /\ SectorsAtOnce > 0 /\ EndLba \in Int /\ LastBlock \in Nat
      /\ m < EndLba /\ m \in Int /\ 0 <= m
      /\ EndLba <= m + SectorsAtOnce
  <2>1. NbBlocks \in Int /\ LastBlock \in Nat /\ LastBlock + 1 = NbBlocks
    BY BlocksAre DEF LastBlock
  <2>2. SectorsAtOnce * NbBlocks = m + SectorsAtOnce
    BY <2>1, Monotone
  <2>3. SectorsAtOnce * 0 <= m /\ SectorsAtOnce * 0 = 0
    BY <2>1, Monotone, SizeAssumption
  <2>4. m \in Int /\ m < EndLba /\ EndLba <= SectorsAtOnce * NbBlocks
    BY <2>1, Monotone, BlocksAre DEF LastBlock
  <2>5. SectorsAtOnce \in Nat /\ SectorsAtOnce > 0 /\ EndLba \in Int
    BY SizeAssumption
  <2>6. EndLba <= m + SectorsAtOnce
    BY <2>2, <2>4
  <2>. HIDE DEF m
  <2>7. 0 <= m
    BY <2>3, <2>4
  <2>. QED
    BY <2>1, <2>4, <2>5, <2>6, <2>7
<1>2. EndLba # m + SectorsAtOnce
  <2>1. Aligned(m)
    <3>1. LastBlock \in Int
      BY <1>1
    <3>. QED
      BY <3>1, MultipleAligned, Zenon
  <2>2. Aligned(m + SectorsAtOnce)
    BY <1>1, <2>1, NextAlignedIs
  <2>. QED
    BY <2>2 DEF Aligned
<1>3. BlockOf(EndLba) = LastBlock /\ EndLba = m + (EndLba % SectorsAtOnce)
  <2>1. BlockOf(EndLba) = LastBlock
    BY <1>1, <1>2, BlockOfIs
  <2>. QED
    BY <1>1, <2>1, BlockOfIs
<1>4. EndLba % SectorsAtOnce \in Int
  BY <1>1
<1>5. ASSUME NEW s \in Lba PROVE BlockOf(s) = LastBlock <=> m <= s
  <2>1. s \in Int /\ s < EndLba
    BY <1>1 DEF Lba
  <2>2. BlockOf(s) = LastBlock => m <= s
    BY <1>1, <2>1, BlockOfIs
  <2>3. m <= s => BlockOf(s) = LastBlock
    BY <1>1, <2>1, BlockOfIs
  <2>. QED
    BY <2>2, <2>3
<1>6. SectorsOf({LastBlock}) = {s \in Lba : m <= s}
  BY <1>5 DEF SectorsOf
<1>. HIDE DEF m
<1>7. Block(m, EndLba % SectorsAtOnce) = {s \in Lba : m <= s}
  <2>1. m + (EndLba % SectorsAtOnce) - 1 = EndLba - 1
    BY <1>1, <1>3
  <2>. QED
    BY <1>1, <2>1 DEF Block, Lba
<1>. QED
  BY <1>6, <1>7 DEF CountedSize, LastBlock, m

LEMMA TotalCounts ==
  ASSUME NEW bs \in SUBSET Blocks, EndLba % SectorsAtOnce # 0
  PROVE  Total(bs) = Cardinality(SectorsOf(bs))
<1>. DEFINE full == bs \ {LastBlock}
            rest == bs \cap {LastBlock}
            k == EndLba % SectorsAtOnce
<1>1. full \in SUBSET (Blocks \ {LastBlock})
  OBVIOUS
<1>2. /\ IsFiniteSet(SectorsOf(full)) /\ IsFiniteSet(full)
      /\ Cardinality(SectorsOf(full)) = Cardinality(full) * SectorsAtOnce
  BY <1>1, FullBlocks
<1>3. SectorsOf(bs) = SectorsOf(full) \cup SectorsOf(rest)
      /\ SectorsOf(full) \cap SectorsOf(rest) = {}
  BY DEF SectorsOf
<1>4. /\ SectorsOf({LastBlock}) = Block(SectorsAtOnce * LastBlock, k)
      /\ CountedSize(LastBlock) = k /\ k \in Nat
      /\ SectorsAtOnce * LastBlock \in Int
  BY LastBlockSize, SizeAssumption, BlocksAre, Monotone DEF LastBlock
<1>5. /\ IsFiniteSet(SectorsOf(rest))
      /\ Cardinality(SectorsOf(rest)) = IF LastBlock \in bs THEN k ELSE 0
  <2>1. CASE LastBlock \in bs
    <3>1. rest = {LastBlock}
      BY <2>1
    <3>. HIDE DEF rest, k
    <3>. QED
      BY <1>4, <2>1, <3>1, BlockSize
  <2>2. CASE LastBlock \notin bs
    <3>1. SectorsOf(rest) = {}
      BY <2>2 DEF SectorsOf
    <3>. HIDE DEF rest
    <3>. QED
      BY <2>2, <3>1, FS_EmptySet
  <2>. QED
    BY <2>1, <2>2
<1>6. Cardinality(SectorsOf(bs)) = Cardinality(SectorsOf(full)) + Cardinality(SectorsOf(rest))
  <2>1. Cardinality(SectorsOf(full) \cup SectorsOf(rest)) =
          Cardinality(SectorsOf(full)) + Cardinality(SectorsOf(rest))
            - Cardinality(SectorsOf(full) \cap SectorsOf(rest))
    BY <1>2, <1>5, FS_Union
  <2>2. Cardinality(SectorsOf(full) \cap SectorsOf(rest)) = 0
    BY <1>3, FS_EmptySet
  <2>3. Cardinality(SectorsOf(full)) \in Nat /\ Cardinality(SectorsOf(rest)) \in Nat
    BY <1>2, <1>5, FS_CardinalityType
  <2>. HIDE DEF full, rest
  <2>. QED
    BY <1>3, <2>1, <2>2, <2>3
<1>. QED
  BY <1>2, <1>4, <1>5, <1>6 DEF Total, LastBlock

-----------------------------------------------------------------------------
(* The number beside "unread space" counts what the table still holds and     *)
(* what the reports on their way tell of.                                     *)
PendingSectors == {s \in Lba : \E r \in Elems(Pending) : BlockOf(s) = BlockOf(r.lba)}
CountInv == Showing => unreadCount = Cardinality(Covered(zones) \cup PendingSectors)

LEMMA WrapSmall ==
  ASSUME NEW x \in Int, 0 <= x, x < UintLimit
  PROVE  WrapUint(x) = x
<1>1. UintLimit \in Int /\ UintLimit > 0
  BY ScreenAssumption
<1>. QED
  BY <1>1 DEF WrapUint

LEMMA CoveredOnDevice ==
  ASSUME IInv
  PROVE  /\ Covered(zones) \subseteq Lba /\ IsFiniteSet(Covered(zones))
         /\ IsFiniteSet(Lba) /\ Cardinality(Lba) = EndLba /\ EndLba \in Nat
<1>1. WellFormed(zones)
  BY DEF IInv, TableSound
<1>2. EndLba \in Nat /\ EndLba > 0
  BY SizeAssumption
<1>3. IsFiniteSet(0 .. EndLba - 1)
      /\ Cardinality(0 .. EndLba - 1) = IF 0 > EndLba - 1 THEN 0 ELSE (EndLba - 1) - 0 + 1
  BY <1>2, FS_Interval
<1>. QED
  BY <1>1, <1>2, <1>3, CoveredFinite DEF Lba

LEMMA OpenCounts ==
  ASSUME IInv, BlockInv, ScreenTypes, OpenScreen, EndLba % SectorsAtOnce # 0
  PROVE  unreadCount' = Cardinality(Covered(zones))
<1>1. pc = "loop" /\ screen = "off" /\ Running
  BY DEF OpenScreen, Running
<1>2. CASE useJournal
  <2>. DEFINE bs == {b \in Blocks : FirstStatus(b) = "Unread"}
  <2>1. Covered(zones) = UnreadSectors(journal)
    BY <1>1, <1>2 DEF IInv, TableMatchesJournal
  <2>2. ASSUME NEW s \in Lba
        PROVE  BlockOf(s) \in bs <=> journal[s] = "Unread"
    <3>1. BlockOf(s) \in Blocks
      BY BlocksAre
    <3>2. BlockOf(s) * SectorsAtOnce \in Lba
          /\ BlockOf(BlockOf(s) * SectorsAtOnce) = BlockOf(s)
      BY <3>1, BlocksAre
    <3>3. journal[BlockOf(s) * SectorsAtOnce] = journal[s]
      BY <3>2 DEF BlockInv, JournalUniform
    <3>. QED
      BY <3>1, <3>3 DEF FirstStatus
  <2>3. SectorsOf(bs) = UnreadSectors(journal)
    BY <2>2 DEF SectorsOf, UnreadSectors
  <2>4. unreadCount' = Total(bs)
    BY <1>2 DEF OpenScreen
  <2>. QED
    BY <2>1, <2>3, <2>4, TotalCounts
<1>3. CASE ~useJournal
  <2>1. unreadCount' = progress.den /\ progress.num = 0
    BY <1>1, <1>3 DEF OpenScreen, ScreenTypes
  <2>2. progress.den - progress.num = Cardinality(Covered(zones)) /\ progress.den \in Int
    BY <1>1 DEF IInv, ProgressExact, TypeOK, TypeTable
  <2>. QED
    BY <2>1, <2>2
<1>. QED
  BY <1>2, <1>3

LEMMA DrawCounts ==
  ASSUME IInv, ScreenTypes, QueueInv, CountInv, DrawReport, Showing, EndLba < UintLimit
  PROVE  unreadCount' = Cardinality(Covered(zones) \cup PendingSectors')
<1>. DEFINE h == Head(Pending)
            left == Covered(zones) \cup PendingSectors'
            gone == BlockSectors(BlockOf(h.lba))
<1>1. /\ Pending # << >> /\ Pending' = Tail(Pending) /\ Head(queue) = h
      /\ Pending \in Seq(Reports)
  BY DrawShown, PendingType
<1>2. /\ Apart(Pending)
      /\ \A r \in Elems(Pending) :
            ReportOfBlock(r) /\ BlockSectors(BlockOf(r.lba)) \cap Covered(zones) = {}
  BY DEF QueueInv
<1>3. /\ Elems(Pending) = Elems(Pending') \cup {h}
      /\ \A x \in Elems(Pending') : BlockOf(x.lba) # BlockOf(h.lba)
      /\ h \in Reports
  BY <1>1, <1>2, TailReport
<1>4. ReportOfBlock(h) /\ gone \cap Covered(zones) = {}
  BY <1>2, <1>3
<1>5. unreadCount' = WrapUint(unreadCount - h.n)
  <2>1. queue # << >> /\ \E r \in {Head(queue)} : CountReport(r)
    BY DEF DrawReport
  <2>. QED
    BY <1>1, <2>1 DEF CountReport
<1>6. PendingSectors = PendingSectors' \cup gone
  BY <1>3 DEF PendingSectors, BlockSectors
<1>7. gone \cap left = {}
  BY <1>3, <1>4 DEF PendingSectors, BlockSectors
<1>8. /\ gone = Block(h.lba, h.n) /\ h.n > 0 /\ h.n \in Nat /\ h.lba \in Int
  BY <1>3, <1>4, SizeAssumption DEF ReportOfBlock, Reports, Lba
<1>9. IsFiniteSet(gone) /\ Cardinality(gone) = h.n
  BY <1>8, BlockSize
<1>10. left \subseteq Lba /\ gone \subseteq Lba
  BY CoveredOnDevice DEF PendingSectors, BlockSectors
<1>. HIDE DEF h, left, gone
<1>11. IsFiniteSet(left) /\ IsFiniteSet(left \cup gone)
  BY <1>10, CoveredOnDevice, FS_Subset, FS_Union
<1>12. Cardinality(left \cup gone) = Cardinality(left) + Cardinality(gone)
  <2>1. Cardinality(left \cup gone) =
          Cardinality(left) + Cardinality(gone) - Cardinality(left \cap gone)
    BY <1>9, <1>11, FS_Union
  <2>2. Cardinality(left \cap gone) = 0
    BY <1>7, FS_EmptySet
  <2>3. Cardinality(left) \in Nat
    BY <1>11, FS_CardinalityType
  <2>. QED
    BY <1>8, <1>9, <2>1, <2>2, <2>3
<1>13. unreadCount = Cardinality(left \cup gone)
  <2>1. left \cup gone = Covered(zones) \cup PendingSectors
    BY <1>6 DEF left
  <2>. QED
    BY <2>1 DEF CountInv
<1>14. Cardinality(left) \in Nat /\ Cardinality(left) <= EndLba
  BY <1>10, <1>11, CoveredOnDevice, FS_Subset, FS_CardinalityType
<1>15. unreadCount - h.n = Cardinality(left)
  BY <1>8, <1>9, <1>12, <1>13, <1>14
<1>16. WrapUint(Cardinality(left)) = Cardinality(left)
  BY <1>14, WrapSmall, CoveredOnDevice, ScreenAssumption
<1>. QED
  BY <1>5, <1>15, <1>16 DEF left

LEMMA NextCount ==
  ASSUME EndLba % SectorsAtOnce # 0, EndLba < UintLimit,
         IInv, BlockInv, ScreenTypes, QueueInv, CountInv, [ScreenNext]_<<vars, screenVars>>
  PROVE  CountInv'
<1>. SUFFICES ASSUME Showing'
              PROVE  unreadCount' = Cardinality(Covered(zones') \cup PendingSectors')
  BY DEF CountInv, Covered, Sectors
<1>1. CASE OpenScreen
  <2>1. pc' = "loop" /\ queue' = << >> /\ zones' = zones
    BY <1>1 DEF OpenScreen, vars, process, table, ScreenTypes
  <2>2. DOMAIN << >> = {}
    OBVIOUS
  <2>3. PendingSectors' = {}
    BY <2>1, <2>2 DEF PendingSectors, Pending, Elems
  <2>4. unreadCount' = Cardinality(Covered(zones))
    BY <1>1, OpenCounts
  <2>5. Covered(zones') \cup PendingSectors' = Covered(zones)
    BY <2>1, <2>3
  <2>. QED
    BY <2>4, <2>5
<1>2. CASE UseResults /\ UNCHANGED screenVars /\ Showing
  <2>1. /\ Pending = queue /\ Pending' = Append(queue, report)
        /\ ReportOfBlock(report) /\ BlockSectors(BlockOf(report.lba)) = TaskSectors
        /\ Covered(zones') = Covered(zones) \ TaskSectors
        /\ TaskSectors \subseteq Covered(zones)
    BY <1>2, UseResultsShown
  <2>2. Elems(Pending') = Elems(Pending) \cup {report}
    BY <2>1, PendingType, AppendReport
  <2>3. PendingSectors' = PendingSectors \cup TaskSectors
    BY <2>1, <2>2 DEF PendingSectors, BlockSectors
  <2>4. Covered(zones') \cup PendingSectors' = Covered(zones) \cup PendingSectors
    BY <2>1, <2>3
  <2>5. unreadCount' = unreadCount
    BY <1>2 DEF screenVars, counts
  <2>. QED
    BY <1>2, <2>4, <2>5 DEF CountInv
<1>3. CASE DrawReport /\ Showing
  <2>1. zones' = zones
    BY <1>3, DrawShown DEF vars, process, table
  <2>. QED
    BY <1>3, <2>1, DrawCounts
<1>4. CASE QuietStep
  <2>1. /\ Showing /\ Covered(zones') = Covered(zones)
        /\ Pending' = Pending /\ unreadCount' = unreadCount
    BY <1>4 DEF QuietStep
  <2>2. PendingSectors' = PendingSectors
    BY <2>1 DEF PendingSectors
  <2>. QED
    BY <2>1, <2>2 DEF CountInv
<1>. QED
  BY <1>1, <1>2, <1>3, <1>4, ShownStep

(* What awaits the renderer is what CountsAgree calls awaited. *)
LEMMA AwaitedIs ==
  ASSUME IInv, ScreenTypes
  PROVE  Awaited = Elems(Pending)
<1>1. Elems(Append(queue, report)) = Elems(queue) \cup {report}
  BY PendingType, AppendReport
<1>. QED
  BY <1>1 DEF Awaited, Pending, Elems

(* The number beside "unread space" is what progress says is left and what    *)
(* the reports on their way will take away: on every device whose last        *)
(* display block is not a whole one, by every strategy that keeps to the      *)
(* display blocks, whatever reads and writes fail.                            *)
THEOREM CountsAgreeOnScreen ==
  ASSUME KeepsToBlocks, JournalWhole, EndLba % SectorsAtOnce # 0, EndLba < UintLimit
  PROVE  ScreenSpec => []CountsAgree
<1>. DEFINE Inv == IInv /\ BlockInv /\ ScreenTypes /\ QueueInv /\ CountInv
<1>1. Init /\ ScreenInit => Inv
  BY InitIInv, InitBlockInv, InitScreenTypes DEF ScreenInit, Showing, QueueInv, CountInv
<1>2. Inv /\ [ScreenNext]_<<vars, screenVars>> => Inv'
  BY ScreenStep, NextIInv, NextBlocks, NextScreenTypes, NextQueue, NextCount
<1>3. Inv => CountsAgree
  <2>. SUFFICES ASSUME Inv, Showing
                PROVE  unreadCount = progress.den - progress.num
                         + Cardinality(UNION {Block(r.lba, r.n) : r \in Awaited})
    BY DEF CountsAgree, Showing
  <2>1. \A r \in Elems(Pending) :
           ReportOfBlock(r) /\ BlockSectors(BlockOf(r.lba)) \cap Covered(zones) = {}
    BY DEF QueueInv
  <2>2. UNION {Block(r.lba, r.n) : r \in Awaited} = PendingSectors
    BY <2>1, AwaitedIs DEF PendingSectors, ReportOfBlock, BlockSectors
  <2>3. PendingSectors \cap Covered(zones) = {} /\ PendingSectors \subseteq Lba
    BY <2>1 DEF PendingSectors, BlockSectors
  <2>4. /\ IsFiniteSet(PendingSectors) /\ Cardinality(PendingSectors) \in Nat
        /\ IsFiniteSet(Covered(zones)) /\ Cardinality(Covered(zones)) \in Nat
    BY <2>3, CoveredOnDevice, FS_Subset, FS_CardinalityType
  <2>5. Cardinality(Covered(zones) \cup PendingSectors) =
          Cardinality(Covered(zones)) + Cardinality(PendingSectors)
            - Cardinality(Covered(zones) \cap PendingSectors)
    BY <2>4, FS_Union
  <2>6. Cardinality(Covered(zones) \cap PendingSectors) = 0
    BY <2>3, FS_EmptySet
  <2>7. progress.den - progress.num = Cardinality(Covered(zones))
    BY DEF IInv, ProgressExact, Showing
  <2>8. unreadCount = Cardinality(Covered(zones) \cup PendingSectors)
    BY DEF CountInv
  <2>9. unreadCount = Cardinality(Covered(zones)) + Cardinality(PendingSectors)
    BY <2>4, <2>5, <2>6, <2>8
  <2>. QED
    BY <2>2, <2>7, <2>9
<1>. HIDE DEF Inv
<1>. QED
  BY <1>1, <1>2, <1>3, PTL DEF ScreenSpec

-----------------------------------------------------------------------------
(* The map.  A report says of its block what the journal says already, so the *)
(* map shows what the journal says of every block that no report is about.    *)
ToldOf(r) == IF r.status = "ok" THEN "ReadOk" ELSE "error"

ReportsTold ==
    Showing /\ useJournal =>
        \A r \in Elems(Pending) : \A s \in BlockSectors(BlockOf(r.lba)) :
            Class(journal[s]) = ToldOf(r)

SettledSector(s) ==
    /\ pc = "use" => s \notin TaskSectors
    /\ \A r \in Elems(Pending) : BlockOf(r.lba) # BlockOf(s)

MapFollows ==
    Showing /\ useJournal =>
        \A s \in Lba : SettledSector(s) => Class(blocksMap[BlockOf(s)]) = Class(journal[s])

LEMMA TaskToldAs ==
  ASSUME IInv, BlockInv, FlagInv, pc = "use", useJournal
  PROVE  \A s \in TaskSectors : Class(journal[s]) = ToldOf(report)
<1>1. \A s \in TaskSectors : journal[s] = TaskFate
  BY DEF FlagInv, FateRecorded
<1>2. report.status # "ok" <=> errorFlag
  BY DEF FlagInv, StatusAgrees, Failed
<1>3. Class(TaskFate) = ToldOf(report)
  BY <1>2 DEF Class, ErrorStatus, TaskFate, ToldOf
<1>. QED
  BY <1>1, <1>3

LEMMA NextTold ==
  ASSUME IInv, BlockInv, FlagInv, ScreenTypes, QueueInv, ReportsTold,
         [ScreenNext]_<<vars, screenVars>>
  PROVE  ReportsTold'
<1>. SUFFICES ASSUME Showing', useJournal',
                     NEW r \in Elems(Pending'), NEW s \in BlockSectors(BlockOf(r.lba))
              PROVE  Class(journal'[s]) = ToldOf(r)
  BY DEF ReportsTold, BlockSectors, Class, ToldOf
<1>1. CASE OpenScreen
  <2>1. pc' = "loop" /\ queue' = << >>
    BY <1>1 DEF OpenScreen, vars, ScreenTypes
  <2>2. DOMAIN << >> = {}
    OBVIOUS
  <2>. QED
    BY <2>1, <2>2 DEF Pending, Elems
<1>2. CASE UseResults /\ UNCHANGED screenVars /\ Showing
  <2>1. /\ Pending = queue /\ Pending' = Append(queue, report)
        /\ BlockSectors(BlockOf(report.lba)) = TaskSectors
    BY <1>2, UseResultsShown
  <2>2. Elems(Pending') = Elems(Pending) \cup {report}
    BY <2>1, PendingType, AppendReport
  <2>3. pc = "use" /\ useJournal /\ journal' = journal
    BY <1>2 DEF UseResults, settings, disk
  <2>4. CASE r \in Elems(Pending)
    BY <1>2, <2>3, <2>4 DEF ReportsTold
  <2>5. CASE r = report
    BY <2>1, <2>3, <2>5, TaskToldAs
  <2>. QED
    BY <2>2, <2>4, <2>5
<1>3. CASE DrawReport /\ Showing
  <2>1. Pending # << >> /\ Pending' = Tail(Pending) /\ UNCHANGED <<journal, useJournal>>
    BY <1>3, DrawShown DEF vars, process, settings, disk
  <2>2. r \in Elems(Pending)
    BY <2>1, PendingType, TailReport
  <2>. QED
    BY <1>3, <2>1, <2>2 DEF ReportsTold
<1>4. CASE QuietStep
  <2>1. Showing /\ Pending' = Pending /\ useJournal' = useJournal
        /\ (journal' = journal \/ WriteJournal)
    BY <1>4 DEF QuietStep
  <2>2. journal'[s] = journal[s]
    <3>1. CASE WriteJournal
      <4>1. pc = "journal"
            /\ journal' = [t \in Lba |-> IF t \in TaskSectors THEN TaskFate ELSE journal[t]]
        BY <3>1 DEF WriteJournal
      <4>2. TaskSectors \subseteq Covered(zones)
        BY <4>1, TaskFacts
      <4>3. s \in Lba /\ s \notin Covered(zones)
        BY <2>1 DEF QueueInv, BlockSectors
      <4>. QED
        BY <4>1, <4>2, <4>3
    <3>. QED
      BY <2>1, <3>1
  <2>. QED
    BY <2>1, <2>2 DEF ReportsTold
<1>. QED
  BY <1>1, <1>2, <1>3, <1>4, ShownStep

LEMMA NextMap ==
  ASSUME IInv, BlockInv, FlagInv, ScreenTypes, QueueInv, ReportsTold, MapFollows,
         [ScreenNext]_<<vars, screenVars>>
  PROVE  MapFollows'
<1>. SUFFICES ASSUME Showing', useJournal', NEW s \in Lba, SettledSector(s)'
              PROVE  Class(blocksMap'[BlockOf(s)]) = Class(journal'[s])
  BY DEF MapFollows, SettledSector, Class, BlockOf, Lba
<1>0. BlockOf(s) \in Blocks
  BY BlocksAre
<1>1. CASE OpenScreen
  <2>1. useJournal /\ journal' = journal /\ blocksMap' = [b \in Blocks |-> FirstStatus(b)]
    BY <1>1 DEF OpenScreen, vars, process, settings, disk
  <2>2. BlockOf(s) * SectorsAtOnce \in Lba
        /\ BlockOf(BlockOf(s) * SectorsAtOnce) = BlockOf(s)
    BY <1>0, BlocksAre
  <2>3. journal[BlockOf(s) * SectorsAtOnce] = journal[s]
    BY <2>2 DEF BlockInv, JournalUniform
  <2>. QED
    BY <1>0, <2>1, <2>3 DEF FirstStatus
<1>2. CASE UseResults /\ UNCHANGED screenVars /\ Showing
  <2>1. /\ Pending = queue /\ Pending' = Append(queue, report)
        /\ BlockSectors(BlockOf(report.lba)) = TaskSectors
    BY <1>2, UseResultsShown
  <2>2. Elems(Pending') = Elems(Pending) \cup {report}
    BY <2>1, PendingType, AppendReport
  <2>3. useJournal /\ journal' = journal /\ blocksMap' = blocksMap
    BY <1>2 DEF UseResults, settings, disk, screenVars
  <2>4. BlockOf(report.lba) # BlockOf(s) /\ \A r \in Elems(Pending) : BlockOf(r.lba) # BlockOf(s)
    BY <1>2, <2>2 DEF SettledSector, UseResults
  <2>5. s \notin TaskSectors
    BY <2>1, <2>4 DEF BlockSectors
  <2>. QED
    BY <1>2, <2>3, <2>4, <2>5 DEF MapFollows, SettledSector
<1>3. CASE DrawReport /\ Showing
  <2>. DEFINE h == Head(Pending)
  <2>1. /\ Pending # << >> /\ Pending' = Tail(Pending) /\ Head(queue) = h
        /\ UNCHANGED <<pc, journal, useJournal, task>>
    BY <1>3, DrawShown DEF vars, process, settings, perform, disk
  <2>2. Elems(Pending) = Elems(Pending') \cup {h}
    BY <2>1, PendingType, TailReport
  <2>3. blocksMap' = [blocksMap EXCEPT ![BlockOf(h.lba)] =
                          IF h.status = "ok" THEN "ReadOk" ELSE "BlockReadError"]
    BY <1>3, <2>1 DEF DrawReport, ReportBlock
  <2>4. blocksMap \in [Blocks -> SectorStatus]
    BY DEF ScreenTypes
  <2>5. CASE BlockOf(s) = BlockOf(h.lba)
    <3>1. s \in BlockSectors(BlockOf(h.lba)) /\ h \in Elems(Pending)
      BY <2>2, <2>5 DEF BlockSectors
    <3>2. Class(journal[s]) = ToldOf(h)
      BY <1>3, <2>1, <3>1 DEF ReportsTold
    <3>3. Class(blocksMap'[BlockOf(s)]) = ToldOf(h)
      BY <1>0, <2>3, <2>4, <2>5 DEF Class, ErrorStatus, ToldOf
    <3>. QED
      BY <2>1, <3>2, <3>3
  <2>6. CASE BlockOf(s) # BlockOf(h.lba)
    <3>1. SettledSector(s)
      BY <2>1, <2>2, <2>6 DEF SettledSector, TaskSectors
    <3>2. blocksMap'[BlockOf(s)] = blocksMap[BlockOf(s)]
      BY <1>0, <2>3, <2>4, <2>6
    <3>. QED
      BY <1>3, <2>1, <3>1, <3>2 DEF MapFollows
  <2>. QED
    BY <2>5, <2>6
<1>4. CASE QuietStep
  <2>1. /\ Showing /\ Pending' = Pending /\ useJournal' = useJournal /\ blocksMap' = blocksMap
        /\ pc = "use" => pc' = "use" /\ task' = task
        /\ journal' = journal \/ (WriteJournal /\ UNCHANGED screenVars)
    BY <1>4 DEF QuietStep
  <2>2. SettledSector(s)
    BY <2>1 DEF SettledSector, TaskSectors
  <2>3. journal'[s] = journal[s]
    <3>1. CASE WriteJournal
      <4>1. /\ pc' = "use" /\ task' = task
            /\ journal' = [t \in Lba |-> IF t \in TaskSectors THEN TaskFate ELSE journal[t]]
        BY <3>1 DEF WriteJournal, process, perform
      <4>2. s \notin TaskSectors
        BY <4>1 DEF SettledSector, TaskSectors
      <4>. QED
        BY <4>1, <4>2
    <3>. QED
      BY <2>1, <3>1
  <2>. QED
    BY <2>1, <2>2, <2>3 DEF MapFollows
<1>. QED
  BY <1>1, <1>2, <1>3, <1>4, ShownStep

(* No block is a single sector: neither the full ones nor the last one.  A    *)
(* failure of such a block is put down in the journal in another way, which   *)
(* the map takes over but does not draw.                                      *)
LongBlocks == SectorsAtOnce # 1 /\ EndLba % SectorsAtOnce # 1

NoSingles ==
    /\ \A s \in Lba : journal[s] # "SectorReadError"
    /\ \A b \in Blocks : blocksMap[b] # "SectorReadError"

LEMMA TaskLong ==
  ASSUME IInv, BlockInv, LongBlocks, pc = "journal"
  PROVE  task.n # 1
<1>. SUFFICES ASSUME task.n = 1 PROVE FALSE
  OBVIOUS
<1>1. /\ task.lba \in Lba /\ Aligned(task.lba)
      /\ task.n < SectorsAtOnce => task.lba + task.n = EndLba
  BY TaskWhole
<1>2. task.lba \in Int /\ EndLba \in Int /\ SectorsAtOnce \in Int /\ SectorsAtOnce > 1
  BY <1>1, SizeAssumption DEF Lba, LongBlocks
<1>3. task.lba + 1 = EndLba
  BY <1>1, <1>2
<1>. DEFINE k == BlockOf(task.lba)
<1>4. k \in Int /\ SectorsAtOnce * k = task.lba
  BY <1>1, <1>2, AlignedIs, BlockOfIs
<1>. HIDE DEF k
<1>5. BlockOf(EndLba) = k
  <2>1. SectorsAtOnce * k <= EndLba /\ EndLba < SectorsAtOnce * k + SectorsAtOnce
    BY <1>2, <1>3, <1>4
  <2>. QED
    BY <1>2, <1>4, <2>1, BlockOfIs
<1>6. EndLba = SectorsAtOnce * k + (EndLba % SectorsAtOnce)
  BY <1>2, <1>5, BlockOfIs
<1>7. EndLba % SectorsAtOnce \in Int
  BY <1>2
<1>8. EndLba % SectorsAtOnce = 1
  BY <1>2, <1>3, <1>4, <1>6, <1>7
<1>. QED
  BY <1>8 DEF LongBlocks

LEMMA NextNoSingles ==
  ASSUME JournalWhole, LongBlocks,
         IInv, BlockInv, ScreenTypes, NoSingles, [ScreenNext]_<<vars, screenVars>>
  PROVE  NoSingles'
<1>1. \A s \in Lba : journal'[s] # "SectorReadError"
  <2>1. CASE WriteJournal
    <3>1. /\ pc = "journal"
          /\ journal' = [s \in Lba |-> IF s \in TaskSectors THEN TaskFate ELSE journal[s]]
      BY <2>1 DEF WriteJournal
    <3>2. TaskFate # "SectorReadError"
      BY <3>1, TaskLong DEF TaskFate
    <3>. QED
      BY <3>1, <3>2 DEF NoSingles
  <2>2. CASE GetTask
    <3>1. journal' = journal
      BY <2>2, TaskChosen DEF disk
    <3>. QED
      BY <3>1 DEF NoSingles
  <2>3. CASE Open
    <3>1. journal' = journal
      BY <2>3 DEF Open, OpenWithoutJournal, OpenCreateJournal, OpenResume, OpenContext,
         OpenRefused, OpenDstFails
    <3>. QED
      BY <3>1 DEF NoSingles
  <2>4. CASE FillJournal \/ SyncJournal \/ LoopEnds \/ Read \/ Write \/ UseResults \/ Callback
    <3>1. journal' = journal
      BY <2>4 DEF FillJournal, SyncJournal, LoopEnds, Read, Write, UseResults, Callback, disk
    <3>. QED
      BY <3>1 DEF NoSingles
  <2>5. CASE Close \/ Interrupt \/ Crash \/ Reboot \/ UNCHANGED vars
    <3>1. journal' = journal
      BY <2>5 DEF Close, Interrupt, Crash, Reboot, vars, disk
    <3>. QED
      BY <3>1 DEF NoSingles
  <2>6. ~JournalFails /\ ~PowerLoss
    BY DEF JournalWhole, JournalFails, PowerLoss
  <2>. QED
    BY <2>1, <2>2, <2>3, <2>4, <2>5, <2>6, ScreenStep DEF Next, Step
<1>2. \A b \in Blocks : blocksMap'[b] # "SectorReadError"
  <2>1. CASE OpenScreen
    <3>1. blocksMap' = blocksMap \/ blocksMap' = [b \in Blocks |-> FirstStatus(b)]
      BY <2>1 DEF OpenScreen
    <3>2. \A b \in Blocks : FirstStatus(b) # "SectorReadError"
      <4>. SUFFICES ASSUME NEW b \in Blocks PROVE journal[b * SectorsAtOnce] # "SectorReadError"
        BY DEF FirstStatus
      <4>1. b * SectorsAtOnce \in Lba
        BY BlocksAre
      <4>. QED
        BY <4>1 DEF NoSingles
    <3>. QED
      BY <3>1, <3>2 DEF NoSingles
  <2>2. CASE DrawReport
    <3>1. PICK r \in {Head(queue)} :
             blocksMap' = [blocksMap EXCEPT ![ReportBlock(r)] =
                              IF r.status = "ok" THEN "ReadOk" ELSE "BlockReadError"]
      BY <2>2 DEF DrawReport
    <3>2. blocksMap \in [Blocks -> SectorStatus]
      BY DEF ScreenTypes
    <3>. QED
      BY <3>1, <3>2 DEF NoSingles
  <2>3. CASE CloseScreen \/ ((Crash \/ Reboot \/ PowerLoss) /\ ScreenOff)
    <3>1. blocksMap' = [b \in Blocks |-> "Unread"]
      BY <2>3 DEF CloseScreen, ScreenOff
    <3>. QED
      BY <3>1
  <2>4. CASE UNCHANGED blocksMap
    BY <2>4 DEF NoSingles
  <2>5. \/ OpenScreen \/ DrawReport
        \/ CloseScreen \/ ((Crash \/ Reboot \/ PowerLoss) /\ ScreenOff)
        \/ UNCHANGED blocksMap
    BY DEF ScreenNext, HandleReport, screenVars
  <2>. QED
    BY <2>1, <2>2, <2>3, <2>4, <2>5
<1>. QED
  BY <1>1, <1>2 DEF NoSingles

(* As long as Perform has not failed, a cell of the map whose blocks no       *)
(* report is about is drawn as the journal has its sectors: on every device   *)
(* whose blocks are longer than one sector, by every strategy that keeps to   *)
(* the display blocks, whatever reads fail.                                   *)
THEOREM CellsTellTheTruth ==
  ASSUME KeepsToBlocks, JournalWhole, LongBlocks, "write" \notin Faults
  PROVE  ScreenSpec => []CellsTruthful
<1>. DEFINE Inv == /\ IInv /\ FlagInv /\ BlockInv /\ ScreenTypes
                   /\ QueueInv /\ ReportsTold /\ MapFollows /\ NoSingles
<1>1. Init /\ ScreenInit => Inv
  <2>. SUFFICES ASSUME Init, ScreenInit PROVE Inv
    OBVIOUS
  <2>1. FlagInv
    BY DEF Init, FlagInv, StatusAgrees, FateRecorded, FlagsJustified, Running
  <2>2. NoSingles
    BY DEF Init, ScreenInit, NoSingles
  <2>3. QueueInv /\ ReportsTold /\ MapFollows
    BY DEF ScreenInit, Showing, QueueInv, ReportsTold, MapFollows
  <2>. QED
    BY <2>1, <2>2, <2>3, InitIInv, InitBlockInv, InitScreenTypes
<1>2. Inv /\ [ScreenNext]_<<vars, screenVars>> => Inv'
  <2>. SUFFICES ASSUME Inv, [ScreenNext]_<<vars, screenVars>> PROVE Inv'
    OBVIOUS
  <2>1. IInv' /\ FlagInv' /\ BlockInv'
    BY ScreenStep, NextIInv, NextFlags, NextBlocks
  <2>2. ScreenTypes' /\ QueueInv' /\ ReportsTold' /\ MapFollows' /\ NoSingles'
    BY NextScreenTypes, NextQueue, NextTold, NextMap, NextNoSingles
  <2>. QED
    BY <2>1, <2>2
<1>3. Inv => CellsTruthful
  <2>. SUFFICES ASSUME Inv, Showing, useJournal, NEW bs \in Cells, Settled(bs)
                PROVE  LET fates == {Class(journal[s]) :
                                        s \in UNION {BlockSectors(b) : b \in bs}}
                       IN  CellDrawn(bs) = IF "error" \in fates THEN "error"
                                           ELSE IF "Unread" \in fates THEN "Unread"
                                           ELSE "ReadOk"
    BY DEF CellsTruthful, Showing
  <2>. DEFINE fates == {Class(journal[s]) : s \in UNION {BlockSectors(b) : b \in bs}}
  <2>1. bs \subseteq Blocks
    BY DEF Cells
  <2>2. ASSUME NEW b \in bs, NEW s \in BlockSectors(b)
        PROVE  Class(journal[s]) = Class(blocksMap[b])
    <3>1. s \in Lba /\ BlockOf(s) = b
      BY DEF BlockSectors
    <3>2. ASSUME NEW r \in Elems(Pending) PROVE BlockOf(r.lba) # BlockOf(s)
      <4>1. r.n > 0 /\ r \in Awaited
        BY AwaitedIs DEF QueueInv, ReportOfBlock
      <4>. QED
        BY <3>1, <4>1 DEF Settled
    <3>3. pc = "use" => s \notin TaskSectors
      <4>1. pc = "use" => BlockOf(task.lba) # b /\ TaskSectors = BlockSectors(BlockOf(task.lba))
        BY TaskWhole DEF Settled
      <4>. QED
        BY <3>1, <4>1 DEF BlockSectors
    <3>. QED
      BY <3>1, <3>2, <3>3 DEF MapFollows, SettledSector
  <2>3. \A b \in bs : b * SectorsAtOnce \in BlockSectors(b)
    BY <2>1, BlocksAre DEF BlockSectors
  <2>4. fates = {Class(blocksMap[b]) : b \in bs}
    BY <2>2, <2>3
  <2>5. \A b \in bs : /\ blocksMap[b] \in SectorStatus /\ blocksMap[b] # "SectorReadError"
    BY <2>1 DEF ScreenTypes, NoSingles
  <2>6. \A b \in bs : /\ Class(blocksMap[b]) = "error" <=> blocksMap[b] = "BlockReadError"
                      /\ Class(blocksMap[b]) = "Unread" <=> blocksMap[b] = "Unread"
    BY <2>5 DEF Class, SectorStatus, ErrorStatus
  <2>. HIDE DEF fates
  <2>7. /\ "error" \in fates <=> \E b \in bs : blocksMap[b] = "BlockReadError"
        /\ "Unread" \in fates <=> \E b \in bs : blocksMap[b] = "Unread"
    BY <2>4, <2>6
  <2>. QED
    BY <2>7 DEF CellDrawn, fates
<1>. HIDE DEF Inv
<1>. QED
  BY <1>1, <1>2, <1>3, PTL DEF ScreenSpec
=============================================================================
