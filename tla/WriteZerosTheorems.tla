-------------------------- MODULE WriteZerosTheorems --------------------------
(* From a start on the device, writing zeros implements BlockScan, whatever   *)
(* the device's size, the size of a block and the writes that fail.           *)
EXTENDS WriteZeros, TLAPS

(* The option is a sector of the device or its end, and the count of blocks   *)
(* fits its type.                                                             *)
Inside == Starts \subseteq 0 .. EndLba /\ EndLba < UintLimit

(* What the counters have to do with each other.  While there is something    *)
(* left, the sectors of the blocks so far and the sectors left make up the    *)
(* run, and the descriptor stands between them.                               *)
Total == EndLba - startLba

Counters ==
    /\ startLba \in 0 .. EndLba /\ toProcess \in 0 .. EndLba
    /\ pc = "loop" =>
          /\ blkIndex = num
          /\ Total <= SectorsAtOnce * den
          /\ SectorsAtOnce * den < Total + SectorsAtOnce
          /\ toProcess > 0 => /\ num < den
                              /\ Total = SectorsAtOnce * num + toProcess
                              /\ position = EndLba - toProcess
          /\ toProcess = 0 => num = den

(* What is behind the descriptor has been told. *)
ToldSoFar ==
    /\ pc \in {"loop", "closing"} =>
          \A s \in Lba : startLba <= s /\ s < EndLba - toProcess => told[s] # "untried"
    /\ pc = "closing" /\ ~interrupt => toProcess = 0

ZInv == TypeOK /\ Counters /\ ToldSoFar

-----------------------------------------------------------------------------
(* Sectors before and behind a place on the device. *)
LEMMA Behind ==
  ASSUME NEW x \in 0 .. EndLba
  PROVE  EndLba - x \in 0 .. EndLba /\ EndLba - (EndLba - x) = x
BY WriteZerosAssumption

(* The count of blocks: enough for a sectors, and not one too many. *)
LEMMA BlocksCover ==
  ASSUME NEW a \in Nat, a < UintLimit
  PROVE  /\ Blocks(a) \in 0 .. UintLimit - 1
         /\ a <= SectorsAtOnce * Blocks(a)
         /\ SectorsAtOnce * Blocks(a) < a + SectorsAtOnce
         /\ a > 0 <=> Blocks(a) > 0
<1>. DEFINE q == a \div SectorsAtOnce
<1>. DEFINE r == a % SectorsAtOnce
<1>. DEFINE b == IF r # 0 THEN q + 1 ELSE q
<1>1. SectorsAtOnce \in Nat /\ SectorsAtOnce > 0 /\ UintLimit \in Nat
  BY WriteZerosAssumption
<1>2. a = SectorsAtOnce * q + r /\ q \in Int /\ r \in 0 .. SectorsAtOnce - 1
  BY <1>1
<1>3. Blocks(a) = b % UintLimit
  BY <1>1 DEF Blocks, Quotient, HasRest
<1>. HIDE DEF q, r
<1>4. SectorsAtOnce * (q + 1) = SectorsAtOnce * q + SectorsAtOnce
  BY <1>1, <1>2
<1>5. q >= 0
  <2>1. q <= -1 => SectorsAtOnce * q <= -SectorsAtOnce
    BY <1>1, <1>2
  <2>. QED
    BY <1>1, <1>2, <2>1
<1>6. b \in Nat /\ a <= SectorsAtOnce * b /\ SectorsAtOnce * b < a + SectorsAtOnce
  BY <1>1, <1>2, <1>4, <1>5
<1>7. b <= a
  <2>1. SectorsAtOnce * q >= q
    BY <1>1, <1>2, <1>5
  <2>. QED
    BY <1>1, <1>2, <2>1
<1>8. b % UintLimit = b
  <2>. HIDE DEF b
  <2>. QED
    BY <1>1, <1>6, <1>7
<1>. HIDE DEF b
<1>9. a > 0 <=> b > 0
  <2>1. b > 0 => SectorsAtOnce * b >= SectorsAtOnce
    BY <1>1, <1>6
  <2>2. b = 0 => SectorsAtOnce * b = 0
    BY <1>1
  <2>3. SectorsAtOnce * b \in Int
    BY <1>1, <1>6
  <2>. QED
    BY <1>1, <1>6, <1>7, <2>1, <2>2, <2>3
<1>. QED
  BY <1>1, <1>3, <1>6, <1>7, <1>8, <1>9

(* Marking keeps the type, and marks what it is told to. *)
LEMMA MarkType ==
  ASSUME NEW S, NEW f \in [Lba -> S], NEW o \in S, NEW lba, NEW n
  PROVE  Mark(f, lba, n, o) \in [Lba -> S]
BY DEF Mark

-----------------------------------------------------------------------------
LEMMA InitZInv == Init => ZInv
<1>. SUFFICES ASSUME Init PROVE ZInv
  OBVIOUS
<1>1. EndLba \in Nat /\ UintLimit \in Nat /\ UintLimit > 0
  BY WriteZerosAssumption
<1>2. interrupt \in BOOLEAN
  BY Zenon DEF Init
<1>3. Counters /\ ToldSoFar
  BY <1>1 DEF Init, Counters, ToldSoFar
<1>4. fate \in [Lba -> {"untried", "good", "bad"}] /\ told \in [Lba -> {"untried", "good", "bad"}]
  BY DEF Init, Untried
<1>. QED
  BY <1>1, <1>2, <1>3, <1>4 DEF Init, ZInv, TypeOK

(* A write under way has something to write, and what it does to the counters *)
(* is the same whether it fails or not.                                       *)
LEMMA PerformedCounts ==
  ASSUME Inside, ZInv, NEW o \in {"good", "bad"}, Performed(o)
  PROVE  /\ toProcess > 0 /\ Size \in 1 .. SectorsAtOnce
         /\ toProcess' = toProcess - Size /\ toProcess' \in 0 .. EndLba
         /\ position = EndLba - toProcess
         /\ startLba + SectorsAtOnce * blkIndex = EndLba - toProcess
         /\ toProcess' > 0 => num + 1 < den /\ Total = SectorsAtOnce * (num + 1) + toProcess'
         /\ toProcess' = 0 => num + 1 = den
<1>1. /\ SectorsAtOnce \in Nat /\ SectorsAtOnce > 0 /\ EndLba \in Nat
      /\ num \in Nat /\ den \in Nat /\ startLba \in Int /\ toProcess \in 0 .. EndLba
  BY WriteZerosAssumption DEF ZInv, TypeOK, Counters
<1>2. pc = "loop" /\ num < den /\ toProcess' = toProcess - Size
  BY DEF Performed
<1>3. /\ blkIndex = num /\ toProcess > 0 /\ position = EndLba - toProcess
      /\ Total = SectorsAtOnce * num + toProcess
      /\ Total <= SectorsAtOnce * den /\ SectorsAtOnce * den < Total + SectorsAtOnce
  BY <1>1, <1>2 DEF ZInv, Counters
<1>4. Size \in 1 .. SectorsAtOnce /\ Size <= toProcess
  BY <1>1, <1>3 DEF Size
<1>5. SectorsAtOnce * (num + 1) = SectorsAtOnce * num + SectorsAtOnce
  BY <1>1
<1>6. startLba + SectorsAtOnce * blkIndex = EndLba - toProcess
  <2>1. SectorsAtOnce * num \in Int
    BY <1>1
  <2>. QED
    BY <1>1, <1>3, <2>1 DEF Total
<1>. DEFINE p == SectorsAtOnce * num
<1>. DEFINE d == SectorsAtOnce * den
<1>7. p \in Int /\ d \in Int
  BY <1>1
<1>8. CASE toProcess > SectorsAtOnce
  <2>1. Size = SectorsAtOnce /\ toProcess' = toProcess - SectorsAtOnce
    BY <1>1, <1>2, <1>8 DEF Size
  <2>2. Total = SectorsAtOnce * (num + 1) + toProcess'
    <3>. HIDE DEF p
    <3>. QED
      BY <1>1, <1>3, <1>5, <1>7, <2>1 DEF p
  <2>3. num + 1 < den
    <3>1. SectorsAtOnce * (num + 1) < SectorsAtOnce * den
      <4>. QED
        BY <1>1, <1>2, <1>3, <1>5, <1>7, <1>8
    <3>2. den <= num + 1 => SectorsAtOnce * den <= SectorsAtOnce * (num + 1)
      BY <1>1
    <3>. QED
      BY <1>1, <1>5, <1>7, <3>1, <3>2
  <2>. QED
    BY <1>1, <1>2, <1>3, <1>4, <1>6, <1>8, <2>1, <2>2, <2>3
<1>9. CASE toProcess <= SectorsAtOnce
  <2>1. toProcess' = 0
    BY <1>1, <1>2, <1>9 DEF Size
  <2>2. num + 1 = den
    <3>1. SectorsAtOnce * den < SectorsAtOnce * (num + 1) + SectorsAtOnce
      BY <1>1, <1>3, <1>5, <1>7, <1>9
    <3>2. den >= num + 2 => SectorsAtOnce * den >= SectorsAtOnce * (num + 2)
      BY <1>1
    <3>3. SectorsAtOnce * (num + 2) = SectorsAtOnce * (num + 1) + SectorsAtOnce
      BY <1>1
    <3>4. SectorsAtOnce * (num + 1) \in Int /\ SectorsAtOnce * (num + 2) \in Int
      BY <1>1
    <3>. QED
      BY <1>1, <1>2, <1>7, <3>1, <3>2, <3>3, <3>4
  <2>. QED
    BY <1>1, <1>2, <1>3, <1>4, <1>6, <2>1, <2>2
<1>. QED
  BY <1>1, <1>8, <1>9

LEMMA OpenZInv ==
  ASSUME Inside, ZInv, Open
  PROVE  ZInv'
<1>. DEFINE total == EndLba - startLba'
<1>1. /\ SectorsAtOnce \in Nat /\ SectorsAtOnce > 0 /\ EndLba \in Nat /\ UintLimit \in Nat
      /\ startLba' \in 0 .. EndLba
  BY WriteZerosAssumption DEF Inside, Open
<1>2. total \in 0 .. EndLba /\ EndLba - total = startLba'
  BY <1>1, Behind
<1>3. toProcess' = total /\ den' = Blocks(total)
  BY DEF Open
<1>4. /\ pc' = "loop" /\ blkIndex' = 0 /\ num' = 0 /\ position' = startLba'
      /\ fate' = Untried /\ told' = Untried
  BY <1>1 DEF Open
<1>. HIDE DEF total
<1>fits. total < UintLimit
  BY <1>1, <1>2 DEF Inside
<1>5. /\ den' \in 0 .. UintLimit - 1
      /\ total <= SectorsAtOnce * den' /\ SectorsAtOnce * den' < total + SectorsAtOnce
      /\ total > 0 <=> den' > 0
  BY <1>1, <1>2, <1>3, <1>fits, BlocksCover
<1>6. SectorsAtOnce * 0 = 0 /\ SectorsAtOnce * den' \in Int
  BY <1>1, <1>5
<1>7. Total' = total
  BY DEF Total, total
<1>8. Counters'
  BY <1>1, <1>2, <1>3, <1>4, <1>5, <1>6, <1>7 DEF Counters
<1>9. ToldSoFar'
  <2>1. ASSUME NEW s \in Lba, startLba' <= s, s < EndLba - toProcess' PROVE FALSE
    BY <1>1, <1>2, <1>3, <1>7, <2>1 DEF Lba
  <2>2. pc' # "closing"
    BY <1>4
  <2>. QED
    BY <2>1, <2>2 DEF ToldSoFar
<1>10. interrupt' \in BOOLEAN
  BY Zenon DEF Open
<1>11. /\ fate' \in [Lba -> {"untried", "good", "bad"}]
       /\ told' \in [Lba -> {"untried", "good", "bad"}]
  BY <1>4 DEF Untried
<1>. QED
  BY <1>1, <1>2, <1>3, <1>4, <1>5, <1>8, <1>9, <1>10, <1>11 DEF ZInv, TypeOK

(* A write that leaves the descriptor at the end of its block, or at the      *)
(* start of the next one, which is the same place.                            *)
LEMMA PerformZInv ==
  ASSUME Inside, ZInv, Perform
  PROVE  ZInv'
<1>1. PICK o \in {"good", "bad"} : Performed(o)
  BY DEF Perform, WriteDone, WriteFails
<1>2. /\ SectorsAtOnce \in Nat /\ SectorsAtOnce > 0 /\ EndLba \in Nat
      /\ num \in Nat /\ den \in Nat /\ startLba \in 0 .. EndLba /\ toProcess \in 0 .. EndLba
  BY WriteZerosAssumption DEF ZInv, TypeOK, Counters
<1>3. /\ toProcess > 0 /\ Size \in 1 .. SectorsAtOnce
      /\ toProcess' = toProcess - Size /\ toProcess' \in 0 .. EndLba
      /\ position = EndLba - toProcess
      /\ startLba + SectorsAtOnce * blkIndex = EndLba - toProcess
      /\ toProcess' > 0 => num + 1 < den /\ Total = SectorsAtOnce * (num + 1) + toProcess'
      /\ toProcess' = 0 => num + 1 = den
  BY <1>1, PerformedCounts
<1>4. /\ pc = "loop" /\ pc' = "loop" /\ blkIndex' = blkIndex + 1 /\ num' = num + 1
      /\ startLba' = startLba /\ den' = den /\ interrupt' = interrupt
      /\ fate' = Mark(fate, position, Size, o)
      /\ told' = Mark(told, startLba + SectorsAtOnce * blkIndex, Size, o)
  BY <1>1 DEF Performed
<1>5. blkIndex = num
  BY <1>4 DEF ZInv, Counters
<1>6. position' \in Nat /\ (toProcess' > 0 => position' = EndLba - toProcess')
  <2>1. CASE WriteDone
    BY <1>2, <1>3, <2>1 DEF WriteDone
  <2>2. CASE WriteFails
    <3>1. NextBlock = startLba + SectorsAtOnce * (num + 1)
      BY <1>5 DEF NextBlock
    <3>2. SectorsAtOnce * (num + 1) \in Nat
      BY <1>2
    <3>3. position' = NextBlock
      BY <1>2, <2>2, <3>1, <3>2 DEF WriteFails
    <3>. QED
      BY <1>2, <1>3, <3>1, <3>2, <3>3 DEF Total
  <2>. QED
    BY <2>1, <2>2 DEF Perform
<1>7. Counters'
  <2>1. Total' = Total
    BY <1>4 DEF Total
  <2>. QED
    BY <1>2, <1>3, <1>4, <1>5, <1>6, <2>1 DEF ZInv, Counters
<1>8. /\ fate' \in [Lba -> {"untried", "good", "bad"}]
      /\ told' \in [Lba -> {"untried", "good", "bad"}]
  BY <1>4, MarkType DEF ZInv, TypeOK
<1>9. ToldSoFar'
  <2>1. ASSUME NEW s \in Lba, startLba <= s, s < EndLba - toProcess'
        PROVE  told'[s] # "untried"
    <3>1. CASE s < EndLba - toProcess
      BY <1>1, <1>2, <1>3, <1>4, <2>1, <3>1 DEF ZInv, ToldSoFar, Mark, Lba
    <3>2. CASE EndLba - toProcess <= s
      BY <1>1, <1>2, <1>3, <1>4, <2>1, <3>2 DEF Mark, Lba
    <3>. QED
      BY <1>2, <2>1, <3>1, <3>2 DEF Lba
  <2>. QED
    BY <1>4, <2>1 DEF ToldSoFar
<1>10. num' \in 0 .. den'
  BY <1>2, <1>3, <1>4
<1>11. interrupt' \in BOOLEAN
  BY <1>4, Zenon DEF ZInv, TypeOK
<1>. QED
  BY <1>2, <1>3, <1>4, <1>6, <1>7, <1>8, <1>9, <1>10, <1>11 DEF ZInv, TypeOK

LEMMA NextZInv ==
  ASSUME Inside, ZInv, [Next]_vars
  PROVE  ZInv'
<1>0. EndLba \in Nat
  BY WriteZerosAssumption
<1>1. CASE Open
  BY <1>1, OpenZInv
<1>2. CASE LoopEnds
  <2>1. pc' = "closing" /\ (~interrupt => toProcess = 0)
    BY <1>0, <1>2 DEF LoopEnds, ZInv, TypeOK, Counters
  <2>2. /\ interrupt' = interrupt /\ toProcess' = toProcess /\ startLba' = startLba
        /\ told' = told /\ pc = "loop"
    BY <1>2 DEF LoopEnds
  <2>3. ToldSoFar'
    BY <2>1, <2>2 DEF ZInv, ToldSoFar
  <2>4. TypeOK' /\ Counters'
    BY <1>2 DEF LoopEnds, ZInv, TypeOK, Counters
  <2>. QED
    BY <2>3, <2>4 DEF ZInv
<1>3. CASE Perform
  BY <1>3, PerformZInv
<1>4. CASE Interrupt
  <2>1. interrupt' \in BOOLEAN
    BY <1>4, Zenon DEF Interrupt
  <2>2. Counters'
    BY <1>4 DEF Interrupt, ZInv, Counters, Total
  <2>3. ToldSoFar'
    BY <1>4 DEF Interrupt, ZInv, ToldSoFar
  <2>. QED
    BY <1>4, <2>1, <2>2, <2>3 DEF Interrupt, ZInv, TypeOK
<1>5. CASE Close
  BY <1>5 DEF Close, ZInv, TypeOK, Counters, ToldSoFar
<1>6. CASE UNCHANGED vars
  BY <1>6 DEF vars, ZInv, TypeOK, Counters, ToldSoFar, Total
<1>. QED
  BY <1>1, <1>2, <1>3, <1>4, <1>5, <1>6 DEF Next

(* The counters, the descriptor and the reports agree in every state of every *)
(* run.                                                                       *)
THEOREM ZeroInvariant == Inside /\ Spec => []ZInv
<1>1. Inside /\ ZInv /\ [Next]_vars => ZInv'
  BY NextZInv
<1>2. Inside => Inside'
  BY DEF Inside
<1>. QED
  BY <1>1, <1>2, InitZInv, PTL DEF Spec

(* Types of the variables. *)
THEOREM TypeCorrect == Inside /\ Spec => []TypeOK
<1>1. ZInv => TypeOK
  BY DEF ZInv
<1>. QED
  BY <1>1, ZeroInvariant, PTL

(* The descriptor stands where the next report will say, whatever failed      *)
(* before, and the count of blocks ends with the device.                      *)
THEOREM StaysInStep == Inside /\ Spec => []InStep
<1>1. ZInv => InStep
  <2>. SUFFICES ASSUME ZInv, pc = "loop"
                PROVE  /\ toProcess > 0 => /\ position = startLba + SectorsAtOnce * blkIndex
                                           /\ position = EndLba - toProcess
                       /\ num < den <=> toProcess > 0
    BY DEF InStep
  <2>1. /\ SectorsAtOnce \in Nat /\ EndLba \in Nat /\ num \in Nat /\ den \in Nat
        /\ startLba \in Int /\ toProcess \in 0 .. EndLba
    BY WriteZerosAssumption DEF ZInv, TypeOK, Counters
  <2>2. SectorsAtOnce * num \in Int
    BY <2>1
  <2>. QED
    BY <2>1, <2>2 DEF ZInv, Counters, Total
<1>. QED
  BY <1>1, ZeroInvariant, PTL

(* A run that was not interrupted told of every sector from its start on.     *)
THEOREM TellsAll == Inside /\ Spec => []AllTold
<1>1. ZInv => AllTold
  <2>. SUFFICES ASSUME ZInv, pc = "closing", ~interrupt, NEW s \in Lba, s >= startLba
                PROVE  told[s] # "untried"
    BY DEF AllTold
  <2>1. EndLba \in Nat /\ startLba \in Int
    BY WriteZerosAssumption DEF ZInv, TypeOK
  <2>. QED
    BY <2>1 DEF ZInv, ToldSoFar, Lba
<1>. QED
  BY <1>1, ZeroInvariant, PTL

-----------------------------------------------------------------------------
(* Writing zeros implements the abstract scan: every sector in turn, told as  *)
(* it was found.                                                              *)
LEMMA InitScan == Init => Scan!Init
<1>1. EndLba \in Nat
  BY WriteZerosAssumption
<1>. QED
  BY <1>1 DEF Init, Scan!Init, Untried, Scan!Untried, Lba, Scan!Lba

LEMMA PerformScan ==
  ASSUME Inside, ZInv, Perform
  PROVE  Scan!TryBlock
<1>1. PICK o \in {"good", "bad"} : Performed(o)
  BY DEF Perform, WriteDone, WriteFails
<1>2. /\ SectorsAtOnce \in Nat /\ EndLba \in Nat /\ toProcess \in 0 .. EndLba
  BY WriteZerosAssumption DEF ZInv, Counters
<1>3. /\ toProcess > 0 /\ Size \in 1 .. SectorsAtOnce /\ toProcess' = toProcess - Size
      /\ position = EndLba - toProcess
      /\ startLba + SectorsAtOnce * blkIndex = EndLba - toProcess
  BY <1>1, PerformedCounts
<1>4. Scan!BlockSize(EndLba - toProcess) = Size
  BY <1>2 DEF Scan!BlockSize, Size
<1>5. /\ pc = "loop" /\ pc' = "loop"
      /\ fate' = Mark(fate, EndLba - toProcess, Size, o)
      /\ told' = Mark(told, EndLba - toProcess, Size, o)
  BY <1>1, <1>3 DEF Performed
<1>. QED
  BY <1>2, <1>3, <1>4, <1>5 DEF Scan!TryBlock, Scan!Outcome, Scan!Mark, Mark, Scan!Lba, Lba

LEMMA NextScan ==
  ASSUME Inside, ZInv, [Next]_vars
  PROVE  [Scan!Next]_(Scan!vars)
<1>0. EndLba \in Nat
  BY WriteZerosAssumption
<1>1. CASE Open
  <2>1. EndLba - toProcess' \in 0 .. EndLba
    <3>1. startLba' \in 0 .. EndLba
      BY <1>0, <1>1 DEF Open, Inside
    <3>2. toProcess' = EndLba - startLba'
      BY <1>1 DEF Open
    <3>. QED
      BY <3>1, <3>2, Behind
  <2>2. pc = "closed" /\ pc' = "loop"
    BY <1>1 DEF Open
  <2>3. fate' = Scan!Untried /\ told' = Scan!Untried
    BY <1>1 DEF Open, Untried, Scan!Untried, Lba, Scan!Lba
  <2>4. Scan!Begin
    BY <2>1, <2>2, <2>3 DEF Scan!Begin
  <2>. QED
    BY <2>4 DEF Scan!Next
<1>2. CASE LoopEnds
  BY <1>2 DEF LoopEnds, Scan!vars
<1>3. CASE Perform
  BY <1>3, PerformScan DEF Scan!Next
<1>4. CASE Interrupt
  BY <1>4 DEF Interrupt, Scan!vars
<1>5. CASE Close
  BY <1>5 DEF Close, Scan!Next, Scan!End
<1>6. CASE UNCHANGED vars
  BY <1>6 DEF vars, Scan!vars
<1>. QED
  BY <1>1, <1>2, <1>3, <1>4, <1>5, <1>6 DEF Next

THEOREM ZerosImplementScan == Inside /\ Spec => ScanSpec
<1>1. Inside /\ ZInv /\ [Next]_vars => [Scan!Next]_(Scan!vars)
  BY NextScan
<1>2. Inside => Inside'
  BY DEF Inside
<1>. QED
  BY <1>1, <1>2, InitScan, ZeroInvariant, PTL DEF Spec, ScanSpec, Scan!Spec
=============================================================================
