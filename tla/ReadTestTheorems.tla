--------------------------- MODULE ReadTestTheorems ---------------------------
(* The read test, for every device, block size and start, whatever fails; and *)
(* the screen that shows it, whenever the renderer's thread looks.            *)
EXTENDS ReadTestScreen, FiniteSetTheorems, TLAPS

-----------------------------------------------------------------------------
(* What the counters have to do with each other while a run goes on: the      *)
(* sectors before current_lba and those left make up the device, and the      *)
(* blocks of the run cover what the start leaves of it.                       *)
Total == EndLba - startLba

Counters ==
    /\ pc \in {"closed", "loop", "closing"}
    /\ pc = "loop" =>
          /\ startLba \in 0 .. EndLba - 1
          /\ lbaToProcess \in 0 .. EndLba
          /\ currentLba = EndLba - lbaToProcess
          /\ den \in Nat /\ num \in 0 .. den
          /\ Total <= SectorsAtOnce * den
          /\ SectorsAtOnce * den < Total + SectorsAtOnce
          /\ lbaToProcess > 0 => num < den /\ Total = SectorsAtOnce * num + lbaToProcess
          /\ lbaToProcess = 0 => num = den

(* What is before current_lba has been told, and by commands that name their  *)
(* sectors as it was answered, but for the block whose ioctl failed.          *)
ToldSoFar ==
    /\ pc \in {"loop", "closing"} =>
          /\ \A s \in Lba : startLba <= s /\ s < currentLba => told[s] # "untried"
          /\ api = "ata" =>
                \A s \in Lba : \/ told[s] = ToldAs(fate[s])
                               \/ stop /\ InLastBlock(s) /\ told[s] = "good"
    /\ pc = "closing" /\ ~interrupt /\ ~stop => currentLba = EndLba

(* The readahead that Open has saved.                                         *)
ReadaheadSaved == IF pc = "closed" THEN readahead = "on" ELSE oldReadahead = "on"

TestInv == Counters /\ ToldSoFar /\ OneBlockBehind /\ ReadaheadSaved

-----------------------------------------------------------------------------
(* The count of blocks: enough for a sectors, and not one too many. *)
LEMMA BlocksCover ==
  ASSUME NEW a \in Nat
  PROVE  /\ Blocks(a) \in Nat
         /\ a <= SectorsAtOnce * Blocks(a)
         /\ SectorsAtOnce * Blocks(a) < a + SectorsAtOnce
         /\ a > 0 => Blocks(a) > 0
<1>. DEFINE q == a \div SectorsAtOnce
<1>. DEFINE r == a % SectorsAtOnce
<1>1. SectorsAtOnce \in Nat /\ SectorsAtOnce > 0
  BY ReadTestAssumption
<1>2. a = SectorsAtOnce * q + r /\ q \in Int /\ r \in 0 .. SectorsAtOnce - 1
  BY <1>1
<1>3. Blocks(a) = q + (IF r # 0 THEN 1 ELSE 0)
  BY DEF Blocks
<1>. HIDE DEF q, r
<1>4. SectorsAtOnce * (q + 1) = SectorsAtOnce * q + SectorsAtOnce
  BY <1>1, <1>2
<1>5. q >= 0
  <2>1. q <= -1 => SectorsAtOnce * q <= -SectorsAtOnce
    BY <1>1, <1>2
  <2>. QED
    BY <1>1, <1>2, <2>1
<1>6. /\ Blocks(a) \in Nat /\ a <= SectorsAtOnce * Blocks(a)
      /\ SectorsAtOnce * Blocks(a) < a + SectorsAtOnce
  BY <1>1, <1>2, <1>3, <1>4, <1>5
<1>7. Blocks(a) = 0 => SectorsAtOnce * Blocks(a) = 0
  BY <1>1
<1>. QED
  BY <1>6, <1>7

(* What a start on the device leaves of it.                                   *)
LEMMA Behind ==
  ASSUME NEW x \in Nat, EndLba - x > 0
  PROVE  /\ EndLba - x \in Nat /\ EndLba - x \in 0 .. EndLba /\ EndLba - (EndLba - x) = x
         /\ x \in 0 .. EndLba - 1
BY ReadTestAssumption

(* A block lies behind those before it, by as many sectors as it has.         *)
LEMMA BlocksInARow ==
  ASSUME NEW n \in Nat
  PROVE  /\ SectorsAtOnce * n \in Nat
         /\ SectorsAtOnce * (n + 1) = SectorsAtOnce * n + SectorsAtOnce
         /\ n > 0 => SectorsAtOnce * (n - 1) = SectorsAtOnce * n - SectorsAtOnce
         /\ \A k \in 0 .. n - 1 : /\ SectorsAtOnce * k \in Nat
                                  /\ SectorsAtOnce * k + SectorsAtOnce <= SectorsAtOnce * n
<1>1. SectorsAtOnce \in Nat /\ SectorsAtOnce > 0
  BY ReadTestAssumption
<1>2. ASSUME NEW k \in 0 .. n - 1
      PROVE  /\ SectorsAtOnce * k \in Nat
             /\ SectorsAtOnce * k + SectorsAtOnce <= SectorsAtOnce * n
  <2>1. SectorsAtOnce * (k + 1) = SectorsAtOnce * k + SectorsAtOnce
    BY <1>1
  <2>2. SectorsAtOnce * (k + 1) <= SectorsAtOnce * n
    BY <1>1
  <2>. QED
    BY <1>1, <2>1, <2>2
<1>. QED
  BY <1>1, <1>2

-----------------------------------------------------------------------------
LEMMA InitTestInv == Init => TestInv
BY DEF Init, TestInv, Counters, ToldSoFar, OneBlockBehind, ReadaheadSaved

LEMMA OpenTestInv ==
  ASSUME Open, readahead = "on"
  PROVE  TestInv'
<1>. DEFINE total == EndLba - startLba'
<1>1. startLba' \in Nat /\ total > 0
  BY ReadTestAssumption DEF Open
<1>2. /\ total \in Nat /\ total \in 0 .. EndLba /\ EndLba - total = startLba'
      /\ startLba' \in 0 .. EndLba - 1
  BY <1>1, Behind
<1>3. lbaToProcess' = total /\ den' = Blocks(total)
  BY DEF Open
<1>4. Total' = total
  BY DEF Total
<1>5. /\ currentLba' = startLba' /\ num' = 0 /\ pc' = "loop" /\ position' = startLba'
      /\ oldReadahead' = readahead
  BY DEF Open
<1>. HIDE DEF total
<1>6. SectorsAtOnce \in Nat /\ SectorsAtOnce > 0 /\ EndLba \in Nat
  BY ReadTestAssumption
<1>7. /\ den' \in Nat /\ total <= SectorsAtOnce * den'
      /\ SectorsAtOnce * den' < total + SectorsAtOnce
      /\ total > 0 => den' > 0
      /\ SectorsAtOnce * 0 = 0
  BY <1>2, <1>3, <1>6, BlocksCover
<1>8. total > 0
  BY <1>1 DEF total
<1>9. Counters'
  <2>1. pc' \in {"closed", "loop", "closing"} /\ currentLba' = EndLba - total
    BY <1>2, <1>5
  <2>2. num' \in 0 .. den' /\ (total > 0 => num' < den')
    BY <1>5, <1>6, <1>7
  <2>3. Total' = SectorsAtOnce * num' + total
    BY <1>2, <1>4, <1>5, <1>7
  <2>. QED
    BY <1>2, <1>3, <1>4, <1>5, <1>7, <1>8, <2>1, <2>2, <2>3 DEF Counters
<1>10. ToldSoFar'
  <2>1. ASSUME NEW s \in Lba, startLba' <= s, s < currentLba' PROVE FALSE
    BY <1>2, <1>5, <1>6, <2>1 DEF Lba
  <2>2. \A s \in Lba : told'[s] = ToldAs(fate'[s])
    BY DEF Open, Untried, ToldAs
  <2>. QED
    BY <1>5, <2>1, <2>2 DEF ToldSoFar, InLastBlock
<1>11. OneBlockBehind'
  BY <1>5 DEF OneBlockBehind
<1>. QED
  BY <1>5, <1>9, <1>10, <1>11 DEF TestInv, ReadaheadSaved

(* A block under way has something to verify, and what Perform does to the    *)
(* counters is the same whatever the device answers.                          *)
LEMMA AdvanceCounts ==
  ASSUME Counters, Advance
  PROVE  /\ pc = "loop" /\ lbaToProcess > 0
         /\ Size \in 1 .. SectorsAtOnce /\ Size <= lbaToProcess
         /\ currentLba \in Lba /\ currentLba = startLba + SectorsAtOnce * num
         /\ currentLba' = currentLba + Size
         /\ num' < den' => Size = SectorsAtOnce
         /\ Counters'
<1>1. /\ SectorsAtOnce \in Nat /\ SectorsAtOnce > 0 /\ EndLba \in Nat
      /\ pc = "loop" /\ num < den /\ num' = num + 1 /\ pc' = "loop"
      /\ lbaToProcess' = lbaToProcess - Size /\ currentLba' = currentLba + Size
      /\ startLba' = startLba /\ den' = den
  BY ReadTestAssumption DEF Advance, run
<1>2. /\ num \in Nat /\ den \in Nat /\ startLba \in 0 .. EndLba - 1
      /\ lbaToProcess \in 0 .. EndLba /\ lbaToProcess > 0
      /\ currentLba = EndLba - lbaToProcess
      /\ Total = SectorsAtOnce * num + lbaToProcess
      /\ Total <= SectorsAtOnce * den /\ SectorsAtOnce * den < Total + SectorsAtOnce
  BY <1>1 DEF Counters
<1>3. Size \in 1 .. SectorsAtOnce /\ Size <= lbaToProcess
  BY <1>1, <1>2 DEF Size
<1>4. /\ SectorsAtOnce * num \in Nat /\ SectorsAtOnce * den \in Nat
      /\ SectorsAtOnce * (num + 1) = SectorsAtOnce * num + SectorsAtOnce
      /\ SectorsAtOnce * (num + 2) = SectorsAtOnce * num + 2 * SectorsAtOnce
  <2>1. SectorsAtOnce * ((num + 1) + 1) = SectorsAtOnce * (num + 1) + SectorsAtOnce
    BY <1>2, BlocksInARow
  <2>. QED
    BY <1>1, <1>2, <2>1, BlocksInARow
<1>5. currentLba \in Lba /\ currentLba = startLba + SectorsAtOnce * num
  BY <1>1, <1>2, <1>4 DEF Total, Lba
<1>6. Total' = Total
  BY <1>1 DEF Total
<1>7. CASE lbaToProcess > SectorsAtOnce
  <2>1. Size = SectorsAtOnce
    BY <1>1, <1>2, <1>7 DEF Size
  <2>2. num + 1 < den
    <3>1. SectorsAtOnce * (num + 1) < SectorsAtOnce * den
      BY <1>1, <1>2, <1>4, <1>7
    <3>2. den <= num + 1 => SectorsAtOnce * den <= SectorsAtOnce * (num + 1)
      BY <1>1, <1>2
    <3>. QED
      BY <1>1, <1>2, <1>4, <3>1, <3>2
  <2>3. Counters'
    BY <1>1, <1>2, <1>4, <1>6, <1>7, <2>1, <2>2 DEF Counters
  <2>. QED
    BY <1>1, <1>2, <1>3, <1>5, <2>1, <2>3
<1>8. CASE lbaToProcess <= SectorsAtOnce
  <2>1. lbaToProcess' = 0
    BY <1>1, <1>2, <1>8 DEF Size
  <2>2. num + 1 = den
    <3>1. SectorsAtOnce * den < SectorsAtOnce * (num + 1) + SectorsAtOnce
      BY <1>1, <1>2, <1>4, <1>8
    <3>2. den >= num + 2 => SectorsAtOnce * den >= SectorsAtOnce * (num + 2)
      BY <1>1, <1>2
    <3>. QED
      BY <1>1, <1>2, <1>4, <3>1, <3>2
  <2>3. num' = den /\ SectorsAtOnce * num' = SectorsAtOnce * (num + 1)
    BY <1>1, <2>2
  <2>4. currentLba' = EndLba - lbaToProcess'
    BY <1>1, <1>2, <1>3
  <2>5. Counters'
    BY <1>1, <1>2, <1>6, <2>1, <2>3, <2>4 DEF Counters
  <2>. QED
    BY <1>1, <1>2, <1>3, <1>5, <2>2, <2>5
<1>. QED
  BY <1>1, <1>2, <1>7, <1>8

(* Perform marks the report's sectors, and fails or marks the device's.       *)
LEMMA PerformTestInv ==
  ASSUME TestInv, Perform
  PROVE  TestInv'
<1>1. Advance /\ (\E o \in {"good", "bad"} : Reported(o)) /\ api' = api
  BY DEF Perform, Verify, VerifyFails, VerifyLost, ReadDone, ReadFails, Advance, run
<1>2. PICK o \in {"good", "bad"} : told' = Mark(told, currentLba, Size, o)
  BY <1>1 DEF Reported
<1>3. Counters
  BY DEF TestInv
<1>4. /\ pc = "loop" /\ lbaToProcess > 0
      /\ Size \in 1 .. SectorsAtOnce /\ Size <= lbaToProcess
      /\ currentLba \in Lba /\ currentLba = startLba + SectorsAtOnce * num
      /\ currentLba' = currentLba + Size
      /\ num' < den' => Size = SectorsAtOnce
      /\ Counters'
  BY <1>1, <1>3, AdvanceCounts
<1>5. /\ pc' = "loop" /\ num' = num + 1 /\ startLba' = startLba /\ den' = den
      /\ ~stop /\ num < den /\ readahead' = readahead /\ oldReadahead' = oldReadahead
  BY <1>1 DEF Advance, run
<1>6. /\ SectorsAtOnce \in Nat /\ SectorsAtOnce > 0 /\ EndLba \in Nat
      /\ startLba \in Nat /\ num \in Nat /\ den \in Nat
  BY <1>3, <1>4, ReadTestAssumption DEF Counters
<1>7. ToldSoFar'
  <2>1. ASSUME NEW s \in Lba, startLba <= s, s < currentLba'
        PROVE  told'[s] # "untried"
    <3>1. s \in Int /\ currentLba \in Int /\ Size \in Int
      BY <1>4, <1>6 DEF Lba
    <3>2. told'[s] = IF currentLba <= s /\ s < currentLba + Size THEN o ELSE told[s]
      BY <1>2 DEF Mark
    <3>3. s < currentLba => told[s] # "untried"
      BY <1>4, <2>1 DEF TestInv, ToldSoFar
    <3>. QED
      BY <1>4, <2>1, <3>1, <3>2, <3>3
  <2>2. ASSUME NEW s \in Lba, api = "ata"
        PROVE  \/ told'[s] = ToldAs(fate'[s])
               \/ stop' /\ InLastBlock(s)' /\ told'[s] = "good"
    <3>1. s \in Int /\ currentLba \in Int /\ Size \in Int
      BY <1>4, <1>6 DEF Lba
    <3>2. told[s] = ToldAs(fate[s])
      BY <1>4, <1>5, <2>2 DEF TestInv, ToldSoFar
    <3>3. CASE Verify
      <4>1. PICK v \in {"good", "bad"} : /\ fate' = Mark(fate, currentLba, Size, v)
                                         /\ told' = Mark(told, currentLba, Size, v)
        BY <3>3 DEF Verify, Reported
      <4>. QED
        BY <3>2, <4>1 DEF Mark, ToldAs
    <3>4. CASE VerifyLost
      BY <3>2, <3>4 DEF VerifyLost, Reported, Mark, ToldAs
    <3>5. CASE VerifyFails
      <4>1. told' = Mark(told, currentLba, Size, "good") /\ stop' = TRUE /\ fate' = fate
        BY <3>5 DEF VerifyFails, Reported
      <4>2. CASE s < currentLba
        BY <3>1, <3>2, <4>1, <4>2 DEF Mark
      <4>3. CASE s >= currentLba + Size
        BY <3>1, <3>2, <4>1, <4>3 DEF Mark
      <4>4. CASE currentLba <= s /\ s < currentLba + Size
        <5>1. told'[s] = "good"
          BY <4>1, <4>4 DEF Mark
        <5>2. num' - 1 = num /\ num * SectorsAtOnce = SectorsAtOnce * num
          BY <1>5, <1>6
        <5>3. InLastBlock(s)'
          BY <1>4, <1>5, <4>4, <5>2 DEF InLastBlock
        <5>. QED
          BY <4>1, <5>1, <5>3
      <4>. QED
        BY <3>1, <4>2, <4>3, <4>4
    <3>. QED
      BY <2>2, <3>3, <3>4, <3>5 DEF Perform, ReadDone, ReadFails
  <2>. QED
    BY <1>1, <1>5, <2>1, <2>2 DEF ToldSoFar
<1>8. OneBlockBehind'
  <2>. SUFFICES ASSUME num' < den', api = "posix"
                PROVE  \/ position' = currentLba'
                       \/ num' > 0 /\ position' = startLba' + (num' - 1) * SectorsAtOnce
    BY <1>1, <1>5 DEF OneBlockBehind
  <2>1. Size = SectorsAtOnce
    BY <1>4
  <2>2. num' > 0 /\ num' - 1 = num /\ num * SectorsAtOnce = SectorsAtOnce * num
    BY <1>5, <1>6
  <2>3. CASE ReadDone
    <3>1. position' = position + Size
      BY <2>3 DEF ReadDone
    <3>2. CASE position = currentLba
      BY <1>4, <3>1, <3>2
    <3>3. CASE num > 0 /\ position = startLba + (num - 1) * SectorsAtOnce
      <4>1. (num - 1) * SectorsAtOnce = SectorsAtOnce * num - SectorsAtOnce
        BY <1>6, <3>3, BlocksInARow
      <4>. QED
        BY <1>4, <1>5, <1>6, <2>1, <2>2, <3>1, <3>3, <4>1, BlocksInARow
    <3>. QED
      BY <1>4, <1>5, <3>2, <3>3 DEF TestInv, OneBlockBehind
  <2>4. CASE ReadFails
    BY <1>4, <1>5, <2>2, <2>4 DEF ReadFails
  <2>. QED
    BY <2>3, <2>4 DEF Perform, Verify, VerifyFails, VerifyLost
<1>. QED
  BY <1>4, <1>5, <1>7, <1>8 DEF TestInv, ReadaheadSaved

LEMMA NextTestInv ==
  ASSUME TestInv, [Next]_vars
  PROVE  TestInv'
<1>1. CASE Open
  <2>1. readahead = "on"
    BY <1>1 DEF Open, TestInv, ReadaheadSaved
  <2>. QED
    BY <1>1, <2>1, OpenTestInv
<1>2. CASE LoopEnds
  <2>1. Counters' /\ OneBlockBehind' /\ ReadaheadSaved'
    BY <1>2 DEF LoopEnds, run, TestInv, Counters, OneBlockBehind, ReadaheadSaved
  <2>2. ~interrupt /\ ~stop => currentLba = EndLba
    <3>1. EndLba \in Nat
      BY ReadTestAssumption
    <3>. QED
      BY <1>2, <3>1 DEF LoopEnds, TestInv, Counters
  <2>3. ToldSoFar'
    BY <1>2, <2>2 DEF LoopEnds, run, TestInv, ToldSoFar, InLastBlock
  <2>. QED
    BY <2>1, <2>3 DEF TestInv
<1>3. CASE Perform
  BY <1>3, PerformTestInv
<1>4. CASE Interrupt
  BY <1>4 DEF Interrupt, run, TestInv, Counters, Total, ToldSoFar, InLastBlock,
              OneBlockBehind, ReadaheadSaved
<1>5. CASE Close
  BY <1>5 DEF Close, run, TestInv, Counters, ToldSoFar, InLastBlock, OneBlockBehind,
              ReadaheadSaved
<1>6. CASE UNCHANGED vars
  BY <1>6 DEF vars, run, TestInv, Counters, Total, ToldSoFar, InLastBlock,
              OneBlockBehind, ReadaheadSaved
<1>. QED
  BY <1>1, <1>2, <1>3, <1>4, <1>5, <1>6 DEF Next

(* The counters, the reports, the descriptor and the saved readahead, in      *)
(* every state of every run.                                                  *)
THEOREM TestInvariant == Spec => []TestInv
BY InitTestInv, NextTestInv, PTL DEF Spec

(* The count of blocks, the sectors left and the next sector tell the same.   *)
THEOREM CountsStayTrue == Spec => []CountsAgree
<1>1. TestInv => CountsAgree
  <2>. SUFFICES ASSUME TestInv, pc = "loop"
                PROVE  /\ currentLba + lbaToProcess = EndLba
                       /\ num < den <=> lbaToProcess > 0
                       /\ num < den => currentLba = startLba + num * SectorsAtOnce
    BY DEF CountsAgree
  <2>1. /\ EndLba \in Nat /\ SectorsAtOnce \in Nat /\ num \in Nat /\ den \in Nat
        /\ startLba \in Nat /\ lbaToProcess \in Nat
    BY ReadTestAssumption DEF TestInv, Counters
  <2>2. num * SectorsAtOnce = SectorsAtOnce * num /\ SectorsAtOnce * num \in Nat
    BY <2>1
  <2>. QED
    BY <2>1, <2>2 DEF TestInv, Counters, Total
<1>. QED
  BY <1>1, TestInvariant, PTL

(* A run that nothing stopped told of every sector from its start on, and by  *)
(* the ata api each was told as it was answered, but for what was given up    *)
(* and the block whose ioctl failed.                                          *)
THEOREM TestTellsAll == Spec => []AllTold
<1>1. TestInv => AllTold
  <2>. SUFFICES ASSUME TestInv, pc = "closing" PROVE AllTold
    BY DEF AllTold
  <2>1. ASSUME ~interrupt, ~stop, NEW s \in Lba, s >= startLba
        PROVE  told[s] # "untried"
    <3>1. currentLba = EndLba /\ EndLba \in Nat
      BY <2>1, ReadTestAssumption DEF TestInv, ToldSoFar
    <3>2. startLba <= s
      BY <2>1
    <3>. QED
      BY <2>1, <3>1, <3>2 DEF TestInv, ToldSoFar, Lba
  <2>. QED
    BY <2>1 DEF TestInv, ToldSoFar, AllTold
<1>. QED
  BY <1>1, TestInvariant, PTL

(* However many reads failed, the descriptor is at most one block behind.     *)
THEOREM DescriptorNear == Spec => []OneBlockBehind
<1>1. TestInv => OneBlockBehind
  BY DEF TestInv
<1>. QED
  BY <1>1, TestInvariant, PTL

(* A run leaves the device's readahead as it was. *)
THEOREM ReadaheadKept == Spec => []ReadaheadRestored
<1>1. TestInv => ReadaheadRestored
  BY DEF TestInv, ReadaheadSaved, ReadaheadRestored
<1>. QED
  BY <1>1, TestInvariant, PTL
-----------------------------------------------------------------------------
(* The screen beside the test.  What the renderer's thread has counted of a   *)
(* class, with what is still queued for it.                                   *)
Accounted(c) == timeStats[c] + Cardinality(OfClass(c))

Reports == [status : {"good", "bad"}, time : Nat]

ScreenTypes ==
    /\ screen \in {"off", "on", "ended"}
    /\ queue \in Seq(Reports)
    /\ timeStats \in [TimeClasses -> Nat] /\ errorStats \in Nat
    /\ clock \in Nat /\ startTime \in Nat

(* Without a screen nothing is counted, and a run has not begun or is over.   *)
OffIsEmpty ==
    screen = "off" =>
        /\ queue = << >> /\ timeStats = [c \in TimeClasses |-> 0] /\ errorStats = 0
        /\ bytesProcessed = 0
        /\ pc # "closing" /\ (pc = "loop" => num = 0 /\ currentLba = startLba)

(* With one, each block of the run is counted or queued in just one place.    *)
OnAccounts ==
    screen # "off" =>
        /\ num \in Nat /\ startLba \in Nat
        /\ currentLba \in startLba .. EndLba
        /\ bytesProcessed = 512 * (currentLba - startLba)
        /\ num > 0 => curLba = currentLba
        /\ Accounted(1) + Accounted(2) + Accounted(3) + Accounted(4) + Accounted(5)
              + Accounted(6) = num - Cardinality(BadBlocks)
        /\ errorStats + Cardinality(Errors) = Cardinality(BadBlocks)

EndedIsDrawn ==
    screen = "ended" =>
        /\ pc = "closed" /\ queue = << >>
        /\ shown = [times |-> timeStats, errors |-> errorStats, lba |-> curLba]

ScreenInv == ScreenTypes /\ OffIsEmpty /\ OnAccounts /\ EndedIsDrawn /\ EtaSound

-----------------------------------------------------------------------------
(* The screen only watches: what runs under it is the read test. *)
LEMMA ScreenStep == [ScreenNext]_<<vars, screenVars>> => [Next]_vars
BY DEF ScreenNext, OpenScreen, PerformShown, DrawQueued, UpdateStats, CloseScreen,
       LeaveScreen, Next

THEOREM ScreenOnlyWatches == ScreenSpec => Spec
<1>1. ScreenInit => Init
  BY DEF ScreenInit
<1>. QED
  BY <1>1, ScreenStep, PTL DEF ScreenSpec, Spec

-----------------------------------------------------------------------------
LEMMA QueueFinite ==
  ASSUME ScreenTypes
  PROVE  /\ IsFiniteSet(Errors) /\ Cardinality(Errors) \in Nat
         /\ \A c : IsFiniteSet(OfClass(c)) /\ Cardinality(OfClass(c)) \in Nat
<1>1. DOMAIN queue = 1 .. Len(queue) /\ Len(queue) \in Nat
  BY DEF ScreenTypes
<1>2. IsFiniteSet(DOMAIN queue)
  BY <1>1, FS_Interval
<1>3. Errors \subseteq DOMAIN queue /\ \A c : OfClass(c) \subseteq DOMAIN queue
  BY DEF Errors, OfClass
<1>. QED
  BY <1>2, <1>3, FS_Subset, FS_CardinalityType

LEMMA BadBlocksFinite ==
  ASSUME num \in Nat
  PROVE  IsFiniteSet(BadBlocks) /\ Cardinality(BadBlocks) \in Nat
<1>1. IsFiniteSet(0 .. num - 1)
  BY FS_Interval
<1>2. BadBlocks \subseteq 0 .. num - 1
  BY DEF BadBlocks
<1>. QED
  BY <1>1, <1>2, FS_Subset, FS_CardinalityType

(* Every access time has a class in the legend.                               *)
LEMMA TimeHasClass ==
  ASSUME NEW t \in Nat
  PROVE  TimeClass(t) \in TimeClasses
<1>. DEFINE S == {i \in DOMAIN Limits : Limits[i] <= t}
<1>1. DOMAIN Limits = 1 .. 5
  BY DEF Limits
<1>2. IsFiniteSet(1 .. 5) /\ Cardinality(1 .. 5) = 5 - 1 + 1
  BY FS_Interval, 1 \in Int, 5 \in Int, ~(1 > 5)
<1>3. S \subseteq 1 .. 5
  BY <1>1
<1>4. Cardinality(S) \in Nat /\ Cardinality(S) <= 5
  BY <1>2, <1>3, FS_Subset, FS_CardinalityType
<1>. HIDE DEF S
<1>. QED
  BY <1>4 DEF TimeClass, TimeClasses, S

(* Speed is taken from bytes that never pass the capacity, so that the time   *)
(* the whole device takes is no less than the time elapsed.                   *)
LEMMA EtaBounded ==
  ASSUME NEW b \in Nat, b <= Capacity, NEW e \in Nat, e > 0,
         NEW v, v = (b * 1000) \div e, v # 0
  PROVE  (Capacity \div v - e \div 1000) % UintLimit <= Capacity \div v
<1>. DEFINE r == (b * 1000) % e
<1>. DEFINE q == e \div 1000
<1>. DEFINE t == Capacity \div v
<1>1. Capacity \in Nat /\ UintLimit \in Nat /\ UintLimit > 0
  BY ReadTestAssumption, ScreenAssumption DEF Capacity
<1>2. b * 1000 \in Nat /\ b * 1000 = e * v + r /\ r \in 0 .. e - 1 /\ v \in Int
  BY <1>1
<1>3. v >= 1
  <2>1. v <= -1 => e * v <= -e
    BY <1>2
  <2>2. e * v \in Int
    BY <1>2
  <2>. HIDE DEF r
  <2>. QED
    BY <1>2, <2>1, <2>2
<1>4. q \in Nat /\ 1000 * q <= e
  OBVIOUS
<1>5. Capacity = v * t + (Capacity % v) /\ Capacity % v \in 0 .. v - 1 /\ t \in Int
  BY <1>1, <1>2, <1>3
<1>6. q <= t
  <2>1. e * v <= 1000 * Capacity
    <3>1. e * v \in Int
      BY <1>2
    <3>. HIDE DEF r
    <3>. QED
      BY <1>1, <1>2, <3>1
  <2>2. (1000 * q) * v <= e * v
    <3>. HIDE DEF q
    <3>. QED
      BY <1>2, <1>3, <1>4
  <2>3. q * v <= Capacity
    <3>. HIDE DEF q
    <3>1. (1000 * q) * v = 1000 * (q * v) /\ q * v \in Int /\ e * v \in Int
      BY <1>2, <1>4
    <3>. QED
      BY <1>1, <2>1, <2>2, <3>1
  <2>4. q > t => v * q >= v * t + v
    <3>. HIDE DEF q, t
    <3>1. q > t => v * q >= v * (t + 1)
      BY <1>2, <1>3, <1>4, <1>5
    <3>2. v * (t + 1) = v * t + v
      BY <1>2, <1>5
    <3>. QED
      BY <3>1, <3>2
  <2>. HIDE DEF q, t
  <2>5. v * q = q * v /\ q * v \in Int /\ v * t \in Int
    BY <1>2, <1>4, <1>5
  <2>. QED
    BY <1>1, <1>2, <1>3, <1>4, <1>5, <2>3, <2>4, <2>5
<1>. HIDE DEF q, t
<1>7. t - q \in Nat /\ t - q <= t
  BY <1>4, <1>5, <1>6
<1>8. ASSUME NEW x \in Nat PROVE x % UintLimit <= x
  <2>. DEFINE d == x \div UintLimit
  <2>. DEFINE m == x % UintLimit
  <2>1. x = UintLimit * d + m /\ d \in Int /\ m \in 0 .. UintLimit - 1
    BY <1>1
  <2>. HIDE DEF d, m
  <2>2. d <= -1 => UintLimit * d <= -UintLimit
    BY <1>1, <2>1
  <2>3. d >= 0 => UintLimit * d >= 0
    BY <1>1, <2>1
  <2>4. UintLimit * d \in Int
    BY <1>1, <2>1
  <2>5. m <= x
    BY <1>1, <2>1, <2>2, <2>3, <2>4
  <2>. QED
    BY <2>5 DEF m
<1>9. (t - q) % UintLimit <= t - q /\ (t - q) % UintLimit \in Int
  BY <1>1, <1>7, <1>8
<1>10. (t - q) % UintLimit <= t
  BY <1>4, <1>5, <1>7, <1>9
<1>. QED
  BY <1>10 DEF t, q
-----------------------------------------------------------------------------
(* A report that is queued is counted once, as an error or in its class.      *)
LEMMA QueuedOnce ==
  ASSUME ScreenTypes, NEW r \in Reports, queue' = Append(queue, r)
  PROVE  /\ queue' \in Seq(Reports)
         /\ Cardinality(Errors') = Cardinality(Errors) + (IF r.status = "bad" THEN 1 ELSE 0)
         /\ \A c : Cardinality(OfClass(c)') = Cardinality(OfClass(c)) +
                      (IF r.status # "bad" /\ TimeClass(r.time) = c THEN 1 ELSE 0)
<1>. DEFINE n == Len(queue) + 1
<1>1. /\ Len(queue) \in Nat /\ DOMAIN queue = 1 .. Len(queue)
      /\ queue' \in Seq(Reports) /\ DOMAIN queue' = 1 .. Len(queue) + 1
      /\ queue'[n] = r /\ \A i \in DOMAIN queue : queue'[i] = queue[i]
  BY DEF ScreenTypes
<1>2. DOMAIN queue' = DOMAIN queue \cup {n} /\ n \notin DOMAIN queue
  BY <1>1
<1>. HIDE DEF n
<1>3. Errors' = IF r.status = "bad" THEN Errors \cup {n} ELSE Errors
  BY <1>1, <1>2 DEF Errors
<1>4. n \notin Errors /\ IsFiniteSet(Errors) /\ Cardinality(Errors) \in Nat
  BY <1>2, QueueFinite DEF Errors
<1>5. ASSUME NEW c
      PROVE  Cardinality(OfClass(c)') = Cardinality(OfClass(c)) +
               (IF r.status # "bad" /\ TimeClass(r.time) = c THEN 1 ELSE 0)
  <2>1. OfClass(c)' = {i \in DOMAIN queue' : /\ queue'[i].status # "bad"
                                             /\ TimeClass(queue'[i].time) = c}
    BY DEF OfClass, Errors
  <2>2. OfClass(c) = {i \in DOMAIN queue : /\ queue[i].status # "bad"
                                           /\ TimeClass(queue[i].time) = c}
    BY DEF OfClass, Errors
  <2>3. OfClass(c)' = IF r.status # "bad" /\ TimeClass(r.time) = c
                        THEN OfClass(c) \cup {n} ELSE OfClass(c)
    BY <1>1, <1>2, <2>1, <2>2
  <2>4. n \notin OfClass(c) /\ IsFiniteSet(OfClass(c)) /\ Cardinality(OfClass(c)) \in Nat
    BY <1>2, QueueFinite DEF OfClass
  <2>5. Cardinality(OfClass(c) \cup {n}) = Cardinality(OfClass(c)) + 1
    BY <2>4, FS_AddElement
  <2>. QED
    BY <2>3, <2>4, <2>5
<1>6. Cardinality(Errors \cup {n}) = Cardinality(Errors) + 1
  BY <1>4, FS_AddElement
<1>. QED
  BY <1>1, <1>3, <1>4, <1>5, <1>6

(* A block that is told adds itself to the blocks told as bad, or nothing.    *)
LEMMA BadBlockAdded ==
  ASSUME Counters, Advance, NEW o, told' = Mark(told, currentLba, Size, o)
  PROVE  Cardinality(BadBlocks') = Cardinality(BadBlocks) + (IF o = "bad" THEN 1 ELSE 0)
<1>1. /\ pc = "loop" /\ Size \in 1 .. SectorsAtOnce /\ currentLba \in Lba
      /\ currentLba = startLba + SectorsAtOnce * num
  BY AdvanceCounts
<1>2. num \in Nat /\ startLba \in Nat /\ num' = num + 1 /\ startLba' = startLba
  BY <1>1, ReadTestAssumption DEF Counters, Advance, run
<1>3. SectorsAtOnce \in Nat /\ SectorsAtOnce > 0 /\ EndLba \in Nat
  BY ReadTestAssumption
<1>4. ASSUME NEW k \in 0 .. num - 1
      PROVE  told'[startLba + k * SectorsAtOnce] = told[startLba + k * SectorsAtOnce]
  <2>1. /\ SectorsAtOnce * k \in Nat /\ SectorsAtOnce * num \in Nat
        /\ SectorsAtOnce * k + SectorsAtOnce <= SectorsAtOnce * num
        /\ k * SectorsAtOnce = SectorsAtOnce * k
    BY <1>2, <1>3, BlocksInARow
  <2>2. startLba + SectorsAtOnce * k \in Lba /\ startLba + SectorsAtOnce * k < currentLba
    BY <1>1, <1>2, <1>3, <2>1 DEF Lba
  <2>. QED
    BY <1>1, <1>2, <1>3, <2>1, <2>2 DEF Mark, Lba
<1>5. told'[startLba + num * SectorsAtOnce] = o
  <2>1. num * SectorsAtOnce = SectorsAtOnce * num
    BY <1>2, <1>3
  <2>2. told'[currentLba] = o
    BY <1>1, <1>3 DEF Mark, Lba
  <2>. QED
    BY <1>1, <2>1, <2>2
<1>6. 0 .. num' - 1 = (0 .. num - 1) \cup {num} /\ num \notin 0 .. num - 1
  BY <1>2
<1>7. BadBlocks' = {k \in 0 .. num' - 1 : told'[startLba + k * SectorsAtOnce] = "bad"}
  BY <1>2 DEF BadBlocks
<1>8. BadBlocks' = IF o = "bad" THEN BadBlocks \cup {num} ELSE BadBlocks
  BY <1>4, <1>5, <1>6, <1>7 DEF BadBlocks
<1>9. num \notin BadBlocks
  BY <1>6 DEF BadBlocks
<1>. QED
  BY <1>2, <1>8, <1>9, BadBlocksFinite, FS_AddElement

LEMMA PerformScreenInv ==
  ASSUME ScreenInv, TestInv, PerformShown
  PROVE  ScreenInv'
<1>1. /\ Perform /\ Advance /\ (\E o \in {"good", "bad"} : Reported(o))
      /\ screen = "on" /\ screen' = "on" /\ timeStats' = timeStats /\ errorStats' = errorStats
      /\ curLba' = currentLba + Size /\ bytesProcessed' = bytesProcessed + 512 * Size
  BY DEF PerformShown, tally, CountBytes, Perform, Verify, VerifyFails, VerifyLost, ReadDone, ReadFails
<1>2. PICK o \in {"good", "bad"} : told' = Mark(told, currentLba, Size, o)
  BY <1>1 DEF Reported
<1>3. /\ Size \in 1 .. SectorsAtOnce /\ Size <= lbaToProcess /\ currentLba \in Lba
      /\ currentLba' = currentLba + Size
      /\ currentLba + lbaToProcess = EndLba /\ lbaToProcess \in Nat
      /\ startLba \in Nat /\ num \in Nat /\ num' = num + 1 /\ startLba' = startLba
      /\ SectorsAtOnce \in Nat /\ EndLba \in Nat
  BY <1>1, AdvanceCounts, ReadTestAssumption DEF TestInv, Counters, Advance, run
<1>4. told'[currentLba] = o
  BY <1>2, <1>3 DEF Mark, Lba
<1>5. PICK d \in Durations : /\ clock' = clock + d
                             /\ queue' = Append(queue, [status |-> o, time |-> d])
  BY <1>4 DEF PerformShown, Timed
<1>. DEFINE r == [status |-> o, time |-> d]
<1>6. d \in Nat /\ r \in Reports /\ r.status = o /\ r.time = d
  BY ScreenAssumption DEF Reports
<1>. HIDE DEF r
<1>types. ScreenTypes
  BY DEF ScreenInv
<1>7. /\ queue' \in Seq(Reports)
      /\ Cardinality(Errors') = Cardinality(Errors) + (IF o = "bad" THEN 1 ELSE 0)
      /\ \A c : Cardinality(OfClass(c)') = Cardinality(OfClass(c)) +
                   (IF o # "bad" /\ TimeClass(d) = c THEN 1 ELSE 0)
  BY <1>types, <1>5, <1>6, QueuedOnce DEF r
<1>8. Cardinality(BadBlocks') = Cardinality(BadBlocks) + (IF o = "bad" THEN 1 ELSE 0)
  BY <1>1, <1>2, BadBlockAdded DEF TestInv
<1>9. clock' \in Nat /\ startTime' \in Nat
  BY <1>types, <1>5, <1>6 DEF ScreenTypes, PerformShown, Estimate
<1>10. ScreenTypes'
  BY <1>types, <1>1, <1>7, <1>9 DEF ScreenTypes
<1>11. /\ currentLba' \in startLba .. EndLba
       /\ bytesProcessed' = 512 * (currentLba' - startLba)
       /\ bytesProcessed' \in Nat /\ bytesProcessed' <= Capacity
  BY <1>1, <1>3 DEF ScreenInv, OnAccounts, Capacity, Lba
<1>12. OnAccounts'
  <2>. DEFINE k(c) == IF o # "bad" /\ TimeClass(d) = c THEN 1 ELSE 0
  <2>1. ASSUME NEW c \in 1 .. 6
        PROVE  Accounted(c)' = Accounted(c) + k(c) /\ Accounted(c) \in Nat
    <3>1. Accounted(c)' = timeStats[c] + Cardinality(OfClass(c)')
      BY <1>1 DEF Accounted
    <3>2. timeStats[c] \in Nat /\ Cardinality(OfClass(c)) \in Nat
      BY <1>types, QueueFinite DEF ScreenTypes, TimeClasses
    <3>. QED
      BY <1>7, <3>1, <3>2 DEF Accounted
  <2>2. k(1) + k(2) + k(3) + k(4) + k(5) + k(6) = IF o = "bad" THEN 0 ELSE 1
    BY <1>6, TimeHasClass DEF TimeClasses
  <2>3. \A c \in 1 .. 6 : k(c) \in {0, 1}
    OBVIOUS
  <2>. HIDE DEF k
  <2>4. Cardinality(BadBlocks) \in Nat /\ Cardinality(Errors) \in Nat /\ errorStats \in Nat
    BY <1>types, <1>3, BadBlocksFinite, QueueFinite DEF ScreenTypes
  <2>5. /\ Accounted(1)' + Accounted(2)' + Accounted(3)' + Accounted(4)' + Accounted(5)'
             + Accounted(6)' = num' - Cardinality(BadBlocks')
    <3>1. Accounted(1) + Accounted(2) + Accounted(3) + Accounted(4) + Accounted(5)
             + Accounted(6) = num - Cardinality(BadBlocks)
      BY <1>1 DEF ScreenInv, OnAccounts
    <3>2. /\ Accounted(1)' = Accounted(1) + k(1) /\ Accounted(1) \in Nat
          /\ Accounted(2)' = Accounted(2) + k(2) /\ Accounted(2) \in Nat
          /\ Accounted(3)' = Accounted(3) + k(3) /\ Accounted(3) \in Nat
          /\ Accounted(4)' = Accounted(4) + k(4) /\ Accounted(4) \in Nat
          /\ Accounted(5)' = Accounted(5) + k(5) /\ Accounted(5) \in Nat
          /\ Accounted(6)' = Accounted(6) + k(6) /\ Accounted(6) \in Nat
      BY <2>1
    <3>. QED
      BY <1>3, <1>8, <2>2, <2>3, <2>4, <3>1, <3>2
  <2>6. errorStats' + Cardinality(Errors') = Cardinality(BadBlocks')
    <3>1. errorStats + Cardinality(Errors) = Cardinality(BadBlocks)
      BY <1>1 DEF ScreenInv, OnAccounts
    <3>. QED
      BY <1>1, <1>7, <1>8, <2>4, <3>1
  <2>. QED
    BY <1>1, <1>3, <1>11, <2>5, <2>6 DEF OnAccounts
<1>13. EtaSound'
  <2>1. Capacity \in Nat
    BY <1>3 DEF Capacity
  <2>2. CASE UNCHANGED <<speed, etaTime>>
    BY <2>2 DEF ScreenInv, EtaSound, Capacity
  <2>3. CASE /\ Elapsed > 0
             /\ speed' = (bytesProcessed' * 1000) \div Elapsed
             /\ etaTime' = (Capacity \div speed' - Elapsed \div 1000) % UintLimit
    <3>1. Elapsed \in Nat
      <4>1. Milliseconds(clock') \in Int /\ Milliseconds(startTime) \in Int
        BY <1>types, <1>9 DEF Milliseconds, ScreenTypes
      <4>. QED
        BY <2>3, <4>1 DEF Elapsed
    <3>2. speed' # 0 => etaTime' <= Capacity \div speed'
      BY <1>11, <2>3, <3>1, EtaBounded
    <3>. QED
      BY <3>2 DEF EtaSound, Capacity
  <2>. QED
    BY <2>2, <2>3 DEF PerformShown, Estimate
<1>. QED
  BY <1>1, <1>10, <1>12, <1>13 DEF ScreenInv, OffIsEmpty, EndedIsDrawn
(* render_queued moves what was queued to the counts.                         *)
LEMMA DrawScreenInv ==
  ASSUME ScreenInv, DrawQueued
  PROVE  ScreenInv'
<1>1. /\ screen = "on" /\ screen' = "on" /\ queue' = << >>
      /\ timeStats' = [c \in TimeClasses |-> timeStats[c] + Cardinality(OfClass(c))]
      /\ errorStats' = errorStats + Cardinality(Errors)
      /\ UNCHANGED <<vars, estimates>>
  BY DEF DrawQueued
<1>2. /\ IsFiniteSet(Errors) /\ Cardinality(Errors) \in Nat
      /\ \A c : Cardinality(OfClass(c)) \in Nat
  BY QueueFinite DEF ScreenInv
<1>3. ScreenTypes'
  BY <1>1, <1>2 DEF ScreenInv, ScreenTypes, estimates
<1>4. Errors' = {} /\ \A c : OfClass(c)' = {}
  BY <1>1 DEF Errors, OfClass
<1>5. Cardinality(Errors') = 0 /\ \A c : Cardinality(OfClass(c)') = 0
  BY <1>4, FS_EmptySet
<1>6. ASSUME NEW c \in 1 .. 6
      PROVE  Accounted(c)' = Accounted(c)
  <2>1. Accounted(c)' = timeStats'[c] + Cardinality(OfClass(c)')
    BY DEF Accounted
  <2>2. timeStats'[c] = timeStats[c] + Cardinality(OfClass(c)) /\ timeStats[c] \in Nat
    BY <1>1 DEF ScreenInv, ScreenTypes, TimeClasses
  <2>. QED
    BY <1>2, <1>5, <2>1, <2>2 DEF Accounted
<1>7. /\ Accounted(1)' = Accounted(1) /\ Accounted(2)' = Accounted(2)
      /\ Accounted(3)' = Accounted(3) /\ Accounted(4)' = Accounted(4)
      /\ Accounted(5)' = Accounted(5) /\ Accounted(6)' = Accounted(6)
  BY <1>6
<1>8. BadBlocks' = BadBlocks
  BY <1>1 DEF vars, run, BadBlocks
<1>9. errorStats' + Cardinality(Errors') = errorStats + Cardinality(Errors)
  BY <1>1, <1>2, <1>5 DEF ScreenInv, ScreenTypes
<1>10. OnAccounts'
  BY <1>1, <1>7, <1>8, <1>9 DEF ScreenInv, OnAccounts, vars, run, estimates
<1>11. EtaSound'
  BY <1>1 DEF ScreenInv, EtaSound, Capacity, estimates
<1>. QED
  BY <1>1, <1>3, <1>10, <1>11 DEF ScreenInv, OffIsEmpty, EndedIsDrawn

(* What leaves the run's counts, the queue and the tallies alone leaves the   *)
(* accounts alone.                                                            *)
LEMMA QuietAccounts ==
  ASSUME OnAccounts, screen # "off", UNCHANGED <<run, currentLba, num, told>>,
         UNCHANGED <<estimates, queue, tally>>
  PROVE  OnAccounts'
<1>1. /\ Errors' = Errors /\ BadBlocks' = BadBlocks
      /\ Accounted(1)' = Accounted(1) /\ Accounted(2)' = Accounted(2)
      /\ Accounted(3)' = Accounted(3) /\ Accounted(4)' = Accounted(4)
      /\ Accounted(5)' = Accounted(5) /\ Accounted(6)' = Accounted(6)
  BY DEF Errors, OfClass, Accounted, BadBlocks, run, tally
<1>. QED
  BY <1>1 DEF OnAccounts, run, estimates, tally

LEMMA QuietTypes ==
  ASSUME ScreenTypes, EtaSound, UNCHANGED <<estimates, queue, tally>>,
         screen' \in {"off", "on", "ended"}
  PROVE  ScreenTypes' /\ EtaSound'
BY DEF ScreenTypes, EtaSound, Capacity, estimates, tally

LEMMA NextScreenInv ==
  ASSUME ScreenInv, TestInv, [ScreenNext]_<<vars, screenVars>>
  PROVE  ScreenInv'
<1>0. ScreenTypes /\ EtaSound /\ OnAccounts /\ OffIsEmpty /\ EndedIsDrawn
  BY DEF ScreenInv
<1>1. CASE screen = "off" /\ Open /\ UNCHANGED screenVars
  <2>1. ScreenTypes' /\ EtaSound'
    BY <1>0, <1>1, QuietTypes DEF screenVars, ScreenTypes
  <2>. QED
    BY <1>0, <1>1, <2>1
       DEF ScreenInv, Open, OffIsEmpty, OnAccounts, EndedIsDrawn, screenVars, estimates, tally
<1>2. CASE OpenScreen
  <2>1. /\ pc = "loop" /\ screen = "off" /\ screen' = "on"
        /\ UNCHANGED <<vars, estimates, queue, tally>>
    BY <1>2 DEF OpenScreen
  <2>2. ScreenTypes' /\ EtaSound'
    BY <1>0, <2>1, QuietTypes
  <2>3. /\ num = 0 /\ currentLba = startLba /\ startLba \in 0 .. EndLba - 1
        /\ queue = << >> /\ timeStats = [c \in TimeClasses |-> 0] /\ errorStats = 0
        /\ bytesProcessed = 0
    BY <1>0, <2>1 DEF TestInv, Counters, OffIsEmpty
  <2>4. /\ EndLba \in Nat /\ startLba \in Nat /\ currentLba \in startLba .. EndLba
        /\ bytesProcessed = 512 * (currentLba - startLba)
    BY <2>3, ReadTestAssumption
  <2>5. Errors' = {} /\ BadBlocks' = {} /\ \A c : OfClass(c)' = {}
    BY <2>1, <2>3 DEF Errors, BadBlocks, OfClass, vars
  <2>6. Cardinality({}) = 0
    BY FS_EmptySet
  <2>7. \A c \in 1 .. 6 : timeStats[c] = 0
    BY <2>3 DEF TimeClasses
  <2>8. /\ Accounted(1)' = 0 /\ Accounted(2)' = 0 /\ Accounted(3)' = 0
        /\ Accounted(4)' = 0 /\ Accounted(5)' = 0 /\ Accounted(6)' = 0
    <3>1. ASSUME NEW c \in 1 .. 6 PROVE Accounted(c)' = 0
      <4>1. Accounted(c)' = timeStats'[c] + Cardinality(OfClass(c)')
        BY DEF Accounted
      <4>. QED
        BY <2>1, <2>5, <2>6, <2>7, <4>1 DEF tally
    <3>. QED
      BY <3>1
  <2>9. OnAccounts'
    BY <2>1, <2>3, <2>4, <2>5, <2>6, <2>8 DEF OnAccounts, vars, run, estimates, tally
  <2>. QED
    BY <2>1, <2>2, <2>9 DEF ScreenInv, OffIsEmpty, EndedIsDrawn
<1>3. CASE PerformShown
  BY <1>3, PerformScreenInv
<1>4. CASE screen = "on" /\ (LoopEnds \/ Interrupt \/ Close) /\ UNCHANGED screenVars
  <2>1. UNCHANGED <<run, currentLba, num, told>> /\ UNCHANGED <<estimates, queue, tally>>
    BY <1>4 DEF LoopEnds, Interrupt, Close, screenVars
  <2>2. ScreenTypes' /\ EtaSound'
    BY <1>0, <1>4, <2>1, QuietTypes DEF screenVars
  <2>3. OnAccounts'
    BY <1>0, <1>4, <2>1, QuietAccounts
  <2>. QED
    BY <1>4, <2>2, <2>3 DEF ScreenInv, OffIsEmpty, EndedIsDrawn, screenVars
<1>5. CASE DrawQueued
  BY <1>5, DrawScreenInv
<1>6. CASE UpdateStats \/ CloseScreen
  <2>1. UNCHANGED <<vars, estimates, queue, tally>> /\ screen = "on" /\ screen' \in {"on", "ended"}
    BY <1>6 DEF UpdateStats, CloseScreen
  <2>2. ScreenTypes' /\ EtaSound'
    BY <1>0, <2>1, QuietTypes
  <2>3. OnAccounts'
    BY <1>0, <2>1, QuietAccounts DEF vars
  <2>4. EndedIsDrawn'
    BY <1>6, <2>1 DEF UpdateStats, CloseScreen, EndedIsDrawn, vars, tally, estimates
  <2>. QED
    BY <2>1, <2>2, <2>3, <2>4 DEF ScreenInv, OffIsEmpty
<1>7. CASE LeaveScreen
  <2>1. ScreenTypes'
    BY <1>7 DEF LeaveScreen, ScreenOff, ScreenTypes
  <2>. QED
    BY <1>0, <1>7, <2>1 DEF ScreenInv, LeaveScreen, ScreenOff, OffIsEmpty, OnAccounts,
                             EndedIsDrawn, EtaSound, vars
<1>8. CASE UNCHANGED <<vars, screenVars>>
  <2>1. ScreenTypes' /\ EtaSound'
    BY <1>0, <1>8, QuietTypes DEF screenVars, ScreenTypes
  <2>2. OnAccounts'
    BY <1>0, <1>8, QuietAccounts DEF screenVars, vars, OnAccounts
  <2>. QED
    BY <1>0, <1>8, <2>1, <2>2
       DEF ScreenInv, OffIsEmpty, EndedIsDrawn, screenVars, vars, run, estimates, tally
<1>. QED
  BY <1>1, <1>2, <1>3, <1>4, <1>5, <1>6, <1>7, <1>8 DEF ScreenNext

LEMMA InitScreenInv == ScreenInit => ScreenInv
BY DEF ScreenInit, Init, ScreenInv, ScreenTypes, OffIsEmpty, OnAccounts, EndedIsDrawn, EtaSound

(* Each block of a run stands in one place: in a count on the renderer's      *)
(* side or in the queue before it.                                            *)
THEOREM ScreenInvariant == ScreenSpec => []ScreenInv
<1>1. ScreenSpec => []TestInv
  BY ScreenOnlyWatches, TestInvariant
<1>. QED
  BY <1>1, InitScreenInv, NextScreenInv, PTL DEF ScreenSpec

(* What stands on the screen when the test is over accounts for every block.  *)
THEOREM ScreenTellsAll == ScreenSpec => []ScreenAccounts
<1>1. ScreenInv => ScreenAccounts
  <2>. SUFFICES ASSUME ScreenInv, screen = "ended"
                PROVE  /\ shown.times[1] + shown.times[2] + shown.times[3] + shown.times[4]
                             + shown.times[5] + shown.times[6] = num - Cardinality(BadBlocks)
                       /\ shown.errors = Cardinality(BadBlocks)
                       /\ num > 0 => shown.lba = currentLba
    BY DEF ScreenAccounts
  <2>1. /\ queue = << >> /\ shown.times = timeStats /\ shown.errors = errorStats
        /\ shown.lba = curLba
    BY DEF ScreenInv, EndedIsDrawn
  <2>2. Errors = {} /\ \A c : OfClass(c) = {}
    BY <2>1 DEF Errors, OfClass
  <2>3. \A c \in 1 .. 6 : timeStats[c] \in Nat
    BY DEF ScreenInv, ScreenTypes, TimeClasses
  <2>4. Cardinality({}) = 0
    BY FS_EmptySet
  <2>5. \A c \in 1 .. 6 : Accounted(c) = timeStats[c]
    BY <2>2, <2>3, <2>4 DEF Accounted
  <2>6. /\ Accounted(1) = shown.times[1] /\ Accounted(2) = shown.times[2]
        /\ Accounted(3) = shown.times[3] /\ Accounted(4) = shown.times[4]
        /\ Accounted(5) = shown.times[5] /\ Accounted(6) = shown.times[6]
    BY <2>1, <2>5
  <2>7. shown.errors = errorStats + Cardinality(Errors)
    BY <2>1, <2>2, <2>4 DEF ScreenInv, ScreenTypes
  <2>. QED
    BY <2>1, <2>6, <2>7 DEF ScreenInv, OnAccounts
<1>. QED
  BY <1>1, ScreenInvariant, PTL

(* The remaining time never wraps.                                            *)
THEOREM EtaStaysSound == ScreenSpec => []EtaSound
<1>1. ScreenInv => EtaSound
  BY DEF ScreenInv
<1>. QED
  BY <1>1, ScreenInvariant, PTL
================================================================================
