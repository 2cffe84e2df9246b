------------------------ MODULE AtaPassThroughTheorems ------------------------
(* Theorems about AtaPassThrough and WholeSpaceCounters: the address and the  *)
(* count that the device gets, what is made of its answer, and the bytes that *)
(* two threads count of it, for every address, count and length of a run.     *)
EXTENDS WholeSpaceCounters, TLAPS

LEMMA BaseIs == Base \in Int /\ Base > 1
<1>1. Base \in Nat \ {0, 1}
  BY AtaPassThroughAssumption, Zenon
<1>. QED
  BY <1>1

-----------------------------------------------------------------------------
(* A number and its bytes. *)
LEMMA Multiple ==
  ASSUME NEW a \in Int, NEW b \in Int
  PROVE  Base * a \in Int /\ (a <= b => Base * a <= Base * b)
<1>1. Base * a \in Int /\ Base * b \in Int
  BY BaseIs
<1>. QED
  BY <1>1, BaseIs

(* What is above the lowest byte. *)
LEMMA LowByte ==
  ASSUME NEW n \in Nat
  PROVE  /\ n \div Base \in Nat /\ n % Base \in Nat /\ n % Base < Base
         /\ n = (n % Base) + Base * (n \div Base)
         /\ \A p \in Int : n < Base * p => n \div Base < p
<1>. DEFINE q == n \div Base
            r == n % Base
<1>1. Base \in Int /\ Base > 1
  BY BaseIs
<1>2. q \in Int /\ r \in Int /\ 0 <= r /\ r < Base /\ n = Base * q + r
  BY <1>1
<1>. HIDE DEF q, r
<1>3. Base * q \in Int /\ q \in Nat
  <2>1. Base * q \in Int
    BY <1>2, Multiple
  <2>2. q <= -1 => Base * q <= Base * (-1)
    BY <1>2, Multiple
  <2>3. Base * (-1) = - Base
    BY <1>1
  <2>. QED
    BY <1>1, <1>2, <2>1, <2>2, <2>3
<1>4. ASSUME NEW p \in Int, n < Base * p PROVE q < p
  <2>1. Base * p \in Int /\ (p <= q => Base * p <= Base * q)
    BY <1>2, <1>4, Multiple
  <2>. QED
    BY <1>2, <1>3, <1>4, <2>1
<1>. QED
  BY <1>2, <1>3, <1>4 DEF q, r

(* An address is made of its six bytes again. *)
LEMMA BytesMakeIt ==
  ASSUME NEW n \in Nat, n < AddressLimit
  PROVE  OfBytes(Bytes(n)) = n
<1>. DEFINE n1 == n \div Base
            n2 == n1 \div Base
            n3 == n2 \div Base
            n4 == n3 \div Base
            n5 == n4 \div Base
            l5 == Base
            l4 == Base * l5
            l3 == Base * l4
            l2 == Base * l3
            l1 == Base * l2
<1>1. l5 \in Int /\ l4 \in Int /\ l3 \in Int /\ l2 \in Int /\ l1 \in Int
  BY BaseIs, Multiple
<1>2. n < Base * l1
  BY DEF AddressLimit
<1>. HIDE DEF l5, l4, l3, l2, l1
<1>3. n1 \in Nat /\ n = (n % Base) + Base * n1 /\ n1 < l1
  BY <1>1, <1>2, LowByte
<1>. HIDE DEF n1
<1>4. n2 \in Nat /\ n1 = (n1 % Base) + Base * n2 /\ n2 < l2
  BY <1>1, <1>3, LowByte DEF l1
<1>. HIDE DEF n2
<1>5. n3 \in Nat /\ n2 = (n2 % Base) + Base * n3 /\ n3 < l3
  BY <1>1, <1>4, LowByte DEF l2
<1>. HIDE DEF n3
<1>6. n4 \in Nat /\ n3 = (n3 % Base) + Base * n4 /\ n4 < l4
  BY <1>1, <1>5, LowByte DEF l3
<1>. HIDE DEF n4
<1>7. n5 \in Nat /\ n4 = (n4 % Base) + Base * n5 /\ n5 < l5
  BY <1>1, <1>6, LowByte DEF l4
<1>. HIDE DEF n5
<1>8. n5 % Base = n5
  BY <1>7, BaseIs DEF l5
<1>9. Bytes(n) = <<n % Base, n1 % Base, n2 % Base, n3 % Base, n4 % Base, n5 % Base>>
  BY DEF Bytes, n1, n2, n3, n4, n5
<1>10. OfBytes(Bytes(n)) =
         (n % Base) + Base * ((n1 % Base) + Base * ((n2 % Base) + Base * ((n3 % Base)
            + Base * ((n4 % Base) + Base * (n5 % Base)))))
  BY <1>9 DEF OfBytes
<1>. QED
  BY <1>3, <1>4, <1>5, <1>6, <1>7, <1>8, <1>10

(* The way of an address through the ports and the command, and back out of a *)
(* descriptor.                                                                *)
LEMMA AddressWay ==
  ASSUME NEW address \in Nat, address < AddressLimit, NEW n
  PROVE  /\ DeviceLba(ScsiCommand(AtaCommand(address, n))) = address
         /\ ReturnedLba(ReturnedBytes(address)) = address
<1>. DEFINE a == Bytes(address)
<1>1. OfBytes(a) = address
  BY BytesMakeIt
<1>2. a = <<a[1], a[2], a[3], a[4], a[5], a[6]>>
  BY DEF Bytes
<1>. HIDE DEF a
<1>3. DeviceLba(ScsiCommand(AtaCommand(address, n))) =
        OfBytes(<<a[1], a[2], a[3], a[4], a[5], a[6]>>)
  BY DEF DeviceLba, ScsiCommand, AtaCommand, a
<1>4. ReturnedLba(ReturnedBytes(address)) = OfBytes(<<a[1], a[2], a[3], a[4], a[5], a[6]>>)
  BY DEF ReturnedLba, ReturnedBytes, a
<1>. QED
  BY <1>1, <1>2, <1>3, <1>4

(* The way of a count, of which the device takes 0 for the largest. *)
LEMMA CountWay ==
  ASSUME NEW address, NEW n \in Nat, n < CountLimit
  PROVE  DeviceCount(ScsiCommand(AtaCommand(address, n))) = IF n = 0 THEN CountLimit ELSE n
<1>. DEFINE h == n \div Base
            c == ScsiCommand(AtaCommand(address, n))
<1>1. h \in Nat /\ n = (n % Base) + Base * h /\ h < Base /\ n % Base \in Nat
  BY LowByte, BaseIs DEF CountLimit
<1>2. c[1] = h % Base /\ c[2] = n % Base
  BY DEF ScsiCommand, AtaCommand
<1>. HIDE DEF h, c
<1>3. h % Base = h
  BY <1>1, BaseIs
<1>4. Base * h \in Int /\ (1 <= h => Base * 1 <= Base * h) /\ Base * 0 = 0 /\ Base * 1 = Base
  BY <1>1, Multiple, BaseIs
<1>5. n = 0 <=> (h = 0 /\ n % Base = 0)
  BY <1>1, <1>4, BaseIs
<1>6. DeviceCount(c) = IF h = 0 /\ n % Base = 0 THEN CountLimit ELSE Base * h + (n % Base)
  BY <1>2, <1>3 DEF DeviceCount
<1>. QED
  BY <1>1, <1>4, <1>5, <1>6 DEF c

-----------------------------------------------------------------------------
(* What was sent is what was asked for, and the status is made of the answer  *)
(* that the device or the kernel gave.                                        *)
Asked == lba \in Addresses \cup {0} /\ count \in Counts \cup {0}
Sent == phase \in {"sent", "answered"} => cdb = ScsiCommand(AtaCommand(lba, count))

Told ==
    phase = "answered" =>
        /\ status = CheckReturnStatus(answer)
        /\ \/ truth \in Truths /\ \E f \in Formats : answer = Answer(truth, f)
           \/ truth = "lost" /\ answer = GivenUp

CommandInv ==
    /\ phase \in {"idle", "sent", "answered"}
    /\ Asked /\ Sent /\ Told

LEMMA StatusInRange == \A a : CheckReturnStatus(a) \in 0 .. 6
BY DEF CheckReturnStatus, eOk, eError, eTimeout, eUnc, eIdnf, eAbrt, eAmnf

LEMMA LimitsAre ==
  /\ AddressLimit \in Int /\ AddressLimit > 0 /\ CountLimit \in Int /\ CountLimit > 0
  /\ Addresses \subseteq Nat /\ \A n \in Addresses \cup {0} : n \in Nat /\ n < AddressLimit
  /\ Counts \subseteq Nat /\ \A n \in Counts \cup {0} : n \in Nat /\ n < CountLimit
<1>1. \A a \in Int : a >= 1 => Base * a \in Int /\ Base * a >= 1
  <2>. TAKE a \in Int
  <2>. HAVE a >= 1
  <2>1. Base * 1 = Base /\ Base * 1 <= Base * a /\ Base * a \in Int
    BY BaseIs, Multiple
  <2>. QED
    BY <2>1, BaseIs
<1>2. AddressLimit \in Int /\ AddressLimit > 0 /\ CountLimit \in Int /\ CountLimit > 0
  <2>. DEFINE l4 == Base * Base
              l3 == Base * l4
              l2 == Base * l3
              l1 == Base * l2
              l0 == Base * l1
  <2>1. l4 \in Int /\ l4 >= 1
    BY <1>1, BaseIs
  <2>. HIDE DEF l4
  <2>2. l3 \in Int /\ l3 >= 1
    BY <1>1, <2>1
  <2>. HIDE DEF l3
  <2>3. l2 \in Int /\ l2 >= 1
    BY <1>1, <2>2
  <2>. HIDE DEF l2
  <2>4. l1 \in Int /\ l1 >= 1
    BY <1>1, <2>3
  <2>. HIDE DEF l1
  <2>5. l0 \in Int /\ l0 >= 1
    BY <1>1, <2>4
  <2>6. AddressLimit = l0 /\ CountLimit = l4
    BY DEF AddressLimit, CountLimit, l4, l3, l2, l1
  <2>. HIDE DEF l0
  <2>. QED
    BY <2>1, <2>5, <2>6
<1>3. Addresses \subseteq 0 .. AddressLimit - 1 /\ Counts \subseteq 0 .. CountLimit - 1
  BY AtaPassThroughAssumption, Zenon
<1>. QED
  BY <1>2, <1>3

LEMMA NextCommand == CommandInv /\ [Next]_vars => CommandInv'
<1>. SUFFICES ASSUME CommandInv, [Next]_vars PROVE CommandInv'
  OBVIOUS
<1>1. CASE Send
  <2>1. /\ phase' = "sent" /\ lba' \in Addresses /\ count' \in Counts
        /\ cdb' = ScsiCommand(AtaCommand(lba', count'))
    BY <1>1 DEF Send
  <2>. QED
    BY <2>1 DEF CommandInv, Asked, Sent, Told
<1>2. CASE Answered
  <2>1. /\ phase = "sent" /\ phase' = "answered" /\ UNCHANGED <<lba, count, ckCond, cdb>>
        /\ status' = CheckReturnStatus(answer')
        /\ truth' \in Truths /\ \E f \in Formats : answer' = Answer(truth', f)
    BY <1>2 DEF Answered
  <2>2. \A t, f : Answer(t, f)' = Answer(t, f)
    BY <2>1 DEF Answer
  <2>3. Told'
    BY <2>1, <2>2 DEF Told, Answer
  <2>. QED
    BY <2>1, <2>3 DEF CommandInv, Asked, Sent
<1>3. CASE NotAnswered
  <2>1. /\ phase = "sent" /\ phase' = "answered" /\ UNCHANGED <<lba, count, ckCond, cdb>>
        /\ status' = CheckReturnStatus(GivenUp) /\ truth' = "lost" /\ answer' = GivenUp
    BY <1>3 DEF NotAnswered
  <2>2. Told'
    BY <2>1 DEF Told, GivenUp, Silent
  <2>. QED
    BY <2>1, <2>2 DEF CommandInv, Asked, Sent
<1>4. CASE Done
  BY <1>4 DEF Done, CommandInv, Asked, Sent, Told
<1>5. CASE UNCHANGED vars
  BY <1>5 DEF vars, CommandInv, Asked, Sent, Told, Answer
<1>. QED
  BY <1>1, <1>2, <1>3, <1>4, <1>5 DEF Next

LEMMA InitCommand == Init => CommandInv
BY DEF Init, CommandInv, Asked, Sent, Told

(* Whatever address and count a procedure asks for, the device gets them, and *)
(* the address read out of a descriptor is the one that was asked for.        *)
THEOREM AddressIsCarried == Spec => []AddressCarried
<1>1. CommandInv => AddressCarried
  <2>. SUFFICES ASSUME CommandInv PROVE AddressCarried
    OBVIOUS
  <2>1. /\ lba \in Nat /\ lba < AddressLimit /\ count \in Nat /\ count < CountLimit
    BY LimitsAre DEF CommandInv, Asked
  <2>2. ASSUME phase = "sent"
        PROVE  /\ DeviceLba(cdb) = lba
               /\ DeviceCount(cdb) = (IF count = 0 THEN CountLimit ELSE count)
    <3>1. cdb = ScsiCommand(AtaCommand(lba, count))
      BY <2>2 DEF CommandInv, Sent
    <3>. QED
      BY <2>1, <3>1, AddressWay, CountWay
  <2>3. ASSUME phase = "answered", answer.format = "descriptor"
        PROVE  AtaReturn(answer).lba = lba
    <3>1. answer.lba = ReturnedBytes(lba)
      <4>1. GivenUp.format = "none" /\ \A t, f : Answer(t, f).format = "descriptor" =>
                                            Answer(t, f).lba = ReturnedBytes(lba)
        BY DEF GivenUp, Silent, Answer
      <4>. QED
        BY <2>3, <4>1 DEF CommandInv, Told
    <3>2. AtaReturn(answer).lba = ReturnedLba(answer.lba)
      BY <2>3 DEF AtaReturn
    <3>. QED
      BY <2>1, <3>1, <3>2, AddressWay
  <2>. QED
    BY <2>2, <2>3 DEF AddressCarried
<1>. QED
  BY <1>1, InitCommand, NextCommand, PTL DEF Spec

(* Every sort of answer, in both formats, with the bit CK_COND and without. *)
LEMMA AnswerTold ==
  ASSUME NEW t \in Truths, NEW f \in {"descriptor", "fixed"}
  PROVE  IF t = "slow" /\ ~ckCond
           THEN CheckReturnStatus(Answer(t, f)) = eOk
           ELSE /\ CheckReturnStatus(Answer(t, f)) = eOk <=> t = "done"
                /\ Answer(t, f).format # "fixed" =>
                       CheckReturnStatus(Answer(t, f)) = Named[t]
<1>. DEFINE a == Answer(t, f)
<1>. USE DEF CheckReturnStatus, AtaReturn, SenseKeyOf, CheckCondition, eOk, eError, eTimeout,
        eUnc, eIdnf, eAbrt, eAmnf
<1>1. t = "busy" => a.scsiStatus = 8
  BY DEF Answer, Silent
<1>2. t \in {"done", "slow"} /\ ~ckCond => a.scsiStatus = 0
  BY DEF Answer, Silent
<1>3. t # "busy" /\ ~(t \in {"done", "slow"} /\ ~ckCond) =>
        /\ a.scsiStatus = 2 /\ a.format = f /\ a.key = SenseKey[t] /\ (a.late <=> t = "slow")
        /\ a.ata = (IF t \in DOMAIN ErrorBit THEN {"ERR"} ELSE {})
                      \cup (IF t = "df" THEN {"DF"} ELSE {})
        /\ a.error = IF t \in DOMAIN ErrorBit THEN {ErrorBit[t]} ELSE {}
  BY DEF Answer
<1>4. DOMAIN ErrorBit = {"unc", "idnf", "abrt", "amnf", "err"}
  BY DEF ErrorBit
<1>. HIDE DEF a
<1>5. CASE t = "busy"
  BY <1>1, <1>5 DEF Named, a
<1>6. CASE t \in {"done", "slow"} /\ ~ckCond
  <2>1. CheckReturnStatus(a) = eOk /\ Named["done"] = eOk
    BY <1>2, <1>6 DEF Named
  <2>. QED
    BY <1>6, <2>1 DEF a
<1>7. CASE t \in {"done", "slow"} /\ ckCond
  <2>1. AtaReturn(a).status = {} /\ SenseKeyOf(a) = 1 /\ a.scsiStatus = 2
    <3>1. a.ata = {} /\ a.key = 1 /\ a.scsiStatus = 2 /\ a.format = f
      BY <1>3, <1>4, <1>7 DEF SenseKey
    <3>. QED
      BY <3>1
  <2>2. CheckReturnStatus(a) = IF t = "slow" THEN eTimeout ELSE eOk
    BY <1>3, <1>7, <2>1
  <2>3. Named[t] = IF t = "slow" THEN eTimeout ELSE eOk
    BY <1>7 DEF Named
  <2>. QED
    BY <1>7, <2>2, <2>3 DEF a
<1>8. CASE t \in {"unc", "idnf", "abrt", "amnf", "err", "df"}
  <2>1. /\ a.scsiStatus = 2 /\ a.format = f /\ a.key = SenseKey[t] /\ SenseKey[t] > 1
        /\ SenseKeyOf(a) > 1
    BY <1>3, <1>8 DEF SenseKey
  <2>2. CASE f = "fixed"
    <3>1. AtaReturn(a).status = {}
      BY <2>1, <2>2
    <3>2. CheckReturnStatus(a) \in {eAbrt, eError}
      BY <2>1, <3>1
    <3>. QED
      BY <1>8, <2>1, <2>2, <3>2 DEF a
  <2>3. CASE f = "descriptor"
    <3>1. AtaReturn(a).status = a.ata /\ AtaReturn(a).error = a.error
      BY <2>1, <2>3
    <3>2. CASE t = "df"
      <4>1. a.ata = {"DF"}
        BY <1>3, <1>4, <3>2
      <4>2. CheckReturnStatus(a) = eError /\ Named["df"] = eError
        BY <2>1, <3>1, <4>1 DEF Named
      <4>. QED
        BY <3>2, <4>2 DEF a
    <3>3. CASE t # "df"
      <4>1. a.ata = {"ERR"} /\ a.error = {ErrorBit[t]}
        BY <1>3, <1>4, <1>8, <3>3
      <4>2. CheckReturnStatus(a) = Named[t] /\ Named[t] # eOk
        BY <1>8, <2>1, <3>1, <3>3, <4>1 DEF Named, ErrorBit
      <4>. QED
        BY <1>8, <4>2 DEF a
    <3>. QED
      BY <3>2, <3>3
  <2>. QED
    BY <2>2, <2>3
<1>. QED
  BY <1>5, <1>6, <1>7, <1>8 DEF Truths

(* No answer of the device hides a failure or invents one, but that a late    *)
(* one is told only with the bit CK_COND.                                     *)
THEOREM DefectsAreTold == Spec => []DefectsTold
<1>1. CommandInv => DefectsTold
  <2>. SUFFICES ASSUME CommandInv, phase = "answered", truth # "lost"
                PROVE  IF truth = "slow" /\ ~ckCond
                         THEN status = eOk
                         ELSE /\ status = eOk <=> truth = "done"
                              /\ answer.format # "fixed" => status = Named[truth]
    BY DEF DefectsTold
  <2>1. PICK f \in Formats : truth \in Truths /\ answer = Answer(truth, f)
    BY DEF CommandInv, Told
  <2>2. status = CheckReturnStatus(answer)
    BY DEF CommandInv, Told
  <2>3. f \in {"descriptor", "fixed"}
    BY AtaPassThroughAssumption, Zenon
  <2>. QED
    BY <2>1, <2>2, <2>3, AnswerTold
<1>. QED
  BY <1>1, InitCommand, NextCommand, PTL DEF Spec

-----------------------------------------------------------------------------
(* The two threads that count. *)
CountTypes ==
    /\ word \in [Words -> Nat] /\ sum \in Nat /\ old \in Nat
    /\ sectors \in Nat /\ sound \in Nat /\ spilled \in Nat
    /\ queue \in Seq(Words) /\ failure \in Words

(* What a thread has in its register when it counts bytes. *)
Within(bytes) == bytes >= 512 * sound /\ bytes <= 512 * sectors + spilled

Registers ==
    /\ handler \in {"idle", "loaded", "stored"}
    /\ handler # "idle" => phase = "answered" /\ OfBlock
    /\ handler = "loaded" => Within(sum)
    /\ renderer = "loaded" /\ failure = eAmnf => Within(old)

(* Nothing spills before an eAmnf was reported. *)
NoneTold ==
    ~amnfTold =>
        /\ sound = sectors
        /\ \A i \in 1 .. Len(queue) : queue[i] # eAmnf
        /\ ~(renderer = "loaded" /\ failure = eAmnf)

BytesInv == CommandInv /\ CountTypes /\ Registers /\ NoneTold /\ BytesWithin

LEMMA CountersStep == [CountersNext]_<<vars, counters>> => [Next]_vars
BY DEF CountersNext, Command, LoadBytes, StoreBytes, Enqueue, TakeReport, StoreCount, Next

(* The counters' module makes only the commands' steps. *)
THEOREM CountersOnlyWatch == CountersSpec => Spec
BY CountersStep, PTL DEF CountersSpec, CountersInit, Spec

LEMMA InitBytes == CountersInit => BytesInv
<1>. SUFFICES ASSUME CountersInit PROVE BytesInv
  OBVIOUS
<1>1. CommandInv
  BY InitCommand DEF CountersInit
<1>. QED
  BY <1>1 DEF CountersInit, BytesInv, CountTypes, Registers, NoneTold, BytesWithin, Words,
     bytesProcessed, eError

LEMMA NextBytes == BytesInv /\ [CountersNext]_<<vars, counters>> => BytesInv'
<1>. SUFFICES ASSUME BytesInv, [CountersNext]_<<vars, counters>> PROVE BytesInv'
  OBVIOUS
<1>. USE DEF bytesProcessed, Words, eOk, eAmnf, OfBlock
<1>0. /\ CommandInv' /\ CommandInv /\ CountTypes /\ Registers /\ NoneTold /\ BytesWithin
      /\ count \in Nat
  BY CountersStep, NextCommand, LimitsAre DEF BytesInv, CommandInv, Asked
<1>1. CASE Command
  <2>1. UNCHANGED <<word, sum, old, sectors, amnfTold, sound, spilled, queue, failure,
                    handler, renderer>>
    BY <1>1 DEF Command, counters, handling, rendering
  <2>2. handler # "idle" => phase' = "answered" /\ OfBlock'
    BY <1>0, <1>1 DEF Command, Send, Answered, NotAnswered, Done, Registers, OfBlock
  <2>. QED
    BY <1>0, <2>1, <2>2 DEF BytesInv, CountTypes, Registers, Within, NoneTold, BytesWithin
<1>2. CASE LoadBytes
  <2>1. Within(word[6])
    BY <1>0 DEF BytesWithin, Within
  <2>2. word[6] \in Nat
    BY <1>0 DEF CountTypes
  <2>. QED
    BY <1>0, <1>2, <2>1, <2>2
       DEF LoadBytes, vars, rendering, BytesInv, CountTypes, Registers, Within, NoneTold,
           BytesWithin
<1>3. CASE StoreBytes
  <2>1. /\ handler = "loaded" /\ handler' = "stored"
        /\ word' = [word EXCEPT ![6] = sum + 512 * count]
        /\ sectors' = sectors + count
        /\ sound' = IF amnfTold THEN sound ELSE sectors'
        /\ UNCHANGED <<vars, sum, amnfTold, queue, renderer, failure, old, spilled>>
    BY <1>3 DEF StoreBytes, rendering
  <2>2. /\ sum >= 512 * sound /\ sum <= 512 * sectors + spilled
        /\ sum \in Nat /\ sound \in Nat /\ sectors \in Nat /\ spilled \in Nat
    BY <1>0, <2>1 DEF Registers, Within, CountTypes
  <2>3. CountTypes'
    BY <1>0, <2>1, <2>2 DEF CountTypes
  <2>4. BytesWithin'
    <3>1. word'[6] = sum + 512 * count
      BY <1>0, <2>1 DEF CountTypes
    <3>. QED
      BY <1>0, <2>1, <2>2, <3>1 DEF BytesWithin, NoneTold
  <2>5. Registers'
    <3>1. ASSUME renderer = "loaded", failure = 6 PROVE Within(old)'
      <4>1. amnfTold /\ Within(old) /\ old \in Nat
        BY <1>0, <3>1 DEF Registers, NoneTold, CountTypes
      <4>. QED
        BY <1>0, <2>1, <2>2, <4>1 DEF Within
    <3>. QED
      BY <1>0, <2>1, <3>1 DEF Registers, vars
  <2>6. NoneTold'
    BY <1>0, <2>1 DEF NoneTold
  <2>. QED
    BY <1>0, <2>3, <2>4, <2>5, <2>6 DEF BytesInv
<1>4. CASE Enqueue
  <2>1. PICK s \in Reportable :
              /\ handler' = "idle" /\ phase = "answered" /\ queue' = Append(queue, s)
              /\ amnfTold' = (amnfTold \/ status = 6)
              /\ UNCHANGED <<sum, sectors, sound, renderer, failure, old, spilled, word>>
    BY <1>4 DEF Enqueue, Done, rendering
  <2>2. s \in 0 .. 6 /\ (s = 6 => status = 6)
    BY <1>0, <2>1, StatusInRange DEF CommandInv, Told, Reportable, eError
  <2>3. /\ Len(queue') = Len(queue) + 1 /\ queue' \in Seq(0 .. 6)
        /\ \A i \in 1 .. Len(queue') :
              queue'[i] = IF i <= Len(queue) THEN queue[i] ELSE s
    BY <1>0, <2>1, <2>2 DEF CountTypes
  <2>4. NoneTold'
    <3>1. ASSUME ~amnfTold', NEW i \in 1 .. Len(queue') PROVE queue'[i] # 6
      <4>1. ~amnfTold /\ status # 6 /\ Len(queue) \in Nat /\ i \in 1 .. Len(queue) + 1
        <5>1. ~amnfTold /\ status # 6
          BY <2>1, <3>1
        <5>2. Len(queue) \in Nat
          BY <1>0 DEF CountTypes
        <5>. QED
          BY <2>3, <5>1, <5>2
      <4>2. i <= Len(queue) => queue[i] # 6
        BY <1>0, <4>1 DEF NoneTold
      <4>. QED
        BY <2>2, <2>3, <3>1, <4>1, <4>2
    <3>. QED
      BY <1>0, <2>1, <3>1 DEF NoneTold
  <2>. QED
    BY <1>0, <2>1, <2>3, <2>4 DEF BytesInv, CountTypes, Registers, Within, BytesWithin
<1>5. CASE TakeReport
  <2>1. /\ queue # << >> /\ queue' = Tail(queue)
        /\ UNCHANGED <<vars, handler, sum, sectors, amnfTold, sound, spilled, word>>
    BY <1>5 DEF TakeReport, handling
  <2>2. /\ queue' \in Seq(0 .. 6) /\ Head(queue) \in 0 .. 6 /\ Head(queue) = queue[1]
        /\ 1 \in 1 .. Len(queue) /\ Len(queue') = Len(queue) - 1
        /\ \A i \in 1 .. Len(queue') : queue'[i] = queue[i + 1]
    BY <1>0, <2>1 DEF CountTypes
  <2>3. ASSUME renderer' = "loaded", failure' = 6 PROVE Within(old)' /\ amnfTold
    <3>1. CASE Head(queue) = 0
      BY <1>0, <1>5, <2>1, <2>3, <3>1 DEF TakeReport, Registers, NoneTold, Within
    <3>2. CASE Head(queue) # 0
      <4>1. old' = word[6] /\ Head(queue) = 6
        BY <1>5, <2>3, <3>2 DEF TakeReport, Element
      <4>. QED
        BY <1>0, <2>1, <2>2, <4>1 DEF NoneTold, BytesWithin, Within
    <3>. QED
      BY <3>1, <3>2
  <2>4. old' \in Nat /\ failure' \in 0 .. 6
    BY <1>0, <1>5, <2>2 DEF TakeReport, CountTypes, Element
  <2>5. NoneTold'
    BY <1>0, <2>1, <2>2, <2>3 DEF NoneTold
  <2>6. Registers'
    BY <1>0, <2>1, <2>3 DEF Registers, Within, vars
  <2>. QED
    BY <1>0, <2>1, <2>2, <2>4, <2>5, <2>6 DEF BytesInv, CountTypes, BytesWithin
<1>6. CASE StoreCount
  <2>1. /\ renderer = "loaded" /\ renderer' = "idle"
        /\ word' = [word EXCEPT ![failure] = old + 1]
        /\ spilled' = IF failure = 6 THEN spilled + 1 ELSE spilled
        /\ UNCHANGED <<vars, handler, sum, sectors, amnfTold, sound, queue, failure, old>>
    BY <1>6 DEF StoreCount, Element, handling
  <2>2. CountTypes'
    BY <1>0, <2>1 DEF CountTypes
  <2>3. BytesWithin'
    <3>1. word'[6] = IF failure = 6 THEN old + 1 ELSE word[6]
      BY <1>0, <2>1 DEF CountTypes
    <3>2. /\ old \in Nat /\ word[6] \in Nat /\ sound \in Nat /\ sectors \in Nat
          /\ spilled \in Nat
      BY <1>0 DEF CountTypes
    <3>3. failure = 6 => Within(old)
      BY <1>0, <2>1 DEF Registers
    <3>. QED
      BY <1>0, <2>1, <3>1, <3>2, <3>3 DEF BytesWithin, Within
  <2>4. Registers' /\ NoneTold'
    BY <1>0, <2>1 DEF Registers, NoneTold, Within, CountTypes, vars
  <2>. QED
    BY <1>0, <2>2, <2>3, <2>4 DEF BytesInv
<1>7. CASE UNCHANGED <<vars, counters>>
  BY <1>0, <1>7 DEF counters, handling, rendering, vars, BytesInv, CountTypes, Registers,
                    Within, NoneTold, BytesWithin
<1>. QED
  BY <1>1, <1>2, <1>3, <1>4, <1>5, <1>6, <1>7 DEF CountersNext

(* The bytes counted, in every interleaving of the two threads and for every  *)
(* length of a run: exact up to a first eAmnf, and bounded from then on.      *)
THEOREM BytesStayWithin == CountersSpec => []BytesWithin
<1>1. BytesInv => BytesWithin
  BY DEF BytesInv
<1>. QED
  BY <1>1, InitBytes, NextBytes, PTL DEF CountersSpec
=============================================================================
