-------------------------- MODULE ReportRingTheorems -------------------------
(* The ring is a queue, whatever its size, as long as the renderer sees the   *)
(* stores in order and fewer reports than the ring has slots await it.        *)
EXTENDS ReportRing, TLAPS

Speeds == InOrder /\ MaxBacklog < Slots

(* The report being handed over is the one after those in the ring. *)
Busy == worker \in {"handle", "copy", "finalize"}

Counted ==
    /\ worker # "copyLate"
    /\ made = IF Busy THEN seqnoWrite + 1 ELSE seqnoWrite

Bounded ==
    /\ seqnoRead <= seqnoWrite
    /\ seqnoWrite - seqnoRead <= IF Busy THEN MaxBacklog - 1 ELSE MaxBacklog
    /\ render \in {"check", "ended"} => queueLength = 0

(* Each queued report is in its slot, and so is the one being drawn. *)
Kept ==
    /\ \A n \in Nat : seqnoRead <= n /\ n < seqnoWrite => reports[Slot(n)] = n + 1
    /\ worker = "finalize" => reports[Slot(seqnoWrite)] = made
    /\ render = "show" =>
          /\ seqnoRead > 0 /\ queueLength > 0
          /\ curRep = Slot(seqnoRead - 1)
          /\ reports[curRep] = seqnoRead

Drawn ==
    /\ Len(rendered) = IF render = "show" THEN seqnoRead - 1 ELSE seqnoRead
    /\ DrawnFaithfully

RInv == TypeOK /\ NeverAhead /\ Counted /\ Bounded /\ Kept /\ Drawn

-----------------------------------------------------------------------------
(* Two numbers less than a ring apart have different slots. *)
LEMMA SlotsDiffer ==
  ASSUME NEW m \in Nat, NEW n \in Nat, m < n, n < m + Slots
  PROVE  Slot(m) # Slot(n)
<1>. SUFFICES ASSUME Slot(m) = Slot(n) PROVE FALSE
  OBVIOUS
<1>1. Slots \in Nat /\ Slots > 0
  BY RingAssumption
<1>2. PICK p \in Int, q \in Int : m = Slots * p + Slot(m) /\ n = Slots * q + Slot(n)
  <2>1. /\ m = Slots * (m \div Slots) + Slot(m) /\ m \div Slots \in Int
        /\ n = Slots * (n \div Slots) + Slot(n) /\ n \div Slots \in Int
    BY <1>1 DEF Slot
  <2>. QED
    BY <2>1
<1>. DEFINE k == q - p
<1>3. k \in Int /\ Slots * k = Slots * q - Slots * p
  BY <1>1
<1>. HIDE DEF k
<1>4. n - m = Slots * k
  <2>1. Slot(m) \in Int
    BY <1>1 DEF Slot
  <2>2. Slots * p \in Int /\ Slots * q \in Int
    BY <1>1
  <2>. HIDE DEF Slot
  <2>. QED
    BY <1>2, <1>3, <2>1, <2>2
<1>5. k >= 1 \/ k <= 0
  BY <1>3
<1>6. k >= 1 => Slots * k >= Slots
  BY <1>1, <1>3
<1>7. k <= 0 => Slots * k <= 0
  BY <1>1, <1>3
<1>. QED
  BY <1>1, <1>4, <1>5, <1>6, <1>7

LEMMA SlotInRing ==
  ASSUME NEW n \in Nat
  PROVE  Slot(n) \in 0 .. Slots - 1
BY RingAssumption DEF Slot

LEMMA InitRInv == Init => RInv
<1>. SUFFICES ASSUME Init PROVE RInv
  OBVIOUS
<1>1. TypeOK
  BY RingAssumption DEF Init, TypeOK
<1>. QED
  BY <1>1, RingAssumption DEF Init, RInv, NeverAhead, Counted, Busy, Bounded, Kept,
     Drawn, DrawnFaithfully

-----------------------------------------------------------------------------
(* The worker's steps. *)
LEMMA MakeReportRInv == Speeds /\ RInv /\ MakeReport => RInv'
<1>. SUFFICES ASSUME Speeds, RInv, MakeReport PROVE RInv'
  OBVIOUS
<1>1. /\ worker = "perform" /\ worker' = "handle" /\ made' = made + 1
      /\ seqnoWrite - seqnoRead < MaxBacklog
      /\ UNCHANGED <<reports, seqnoWrite, orderHangup>>
      /\ UNCHANGED <<seqnoRead, render, last, curRep, queueLength, rendered>>
  BY DEF MakeReport, reader
<1>2. TypeOK'
  BY <1>1 DEF RInv, TypeOK
<1>3. Counted' /\ Bounded'
  BY <1>1, RingAssumption DEF RInv, TypeOK, Counted, Bounded, Busy
<1>. QED
  BY <1>1, <1>2, <1>3 DEF RInv, NeverAhead, Kept, Drawn, DrawnFaithfully

(* A store into the slot of the report being handed over spares the others. *)
LEMMA StoreSpares ==
  ASSUME Speeds, RInv, Busy, NEW x, reports' = [reports EXCEPT ![Slot(seqnoWrite)] = x]
  PROVE  /\ \A n \in Nat : seqnoRead <= n /\ n < seqnoWrite => reports'[Slot(n)] = n + 1
         /\ render = "show" => reports'[curRep] = seqnoRead
<1>1. /\ seqnoWrite \in Nat /\ seqnoRead \in Nat /\ MaxBacklog \in Nat /\ Slots \in Nat
      /\ seqnoWrite - seqnoRead < MaxBacklog /\ MaxBacklog < Slots
      /\ seqnoRead <= seqnoWrite
  BY RingAssumption DEF RInv, TypeOK, Bounded, Speeds
<1>2. \A n \in Nat : seqnoRead <= n + 1 /\ n < seqnoWrite
                      => reports'[Slot(n)] = reports[Slot(n)]
  <2>. SUFFICES ASSUME NEW n \in Nat, seqnoRead <= n + 1, n < seqnoWrite
                PROVE  reports'[Slot(n)] = reports[Slot(n)]
    OBVIOUS
  <2>1. Slot(n) # Slot(seqnoWrite)
    BY <1>1, SlotsDiffer
  <2>2. Slot(n) \in 0 .. Slots - 1 /\ reports \in [0 .. Slots - 1 -> Nat \cup {Torn}]
    BY SlotInRing DEF RInv, TypeOK
  <2>. QED
    BY <2>1, <2>2
<1>3. \A n \in Nat : seqnoRead <= n /\ n < seqnoWrite => reports'[Slot(n)] = n + 1
  BY <1>1, <1>2 DEF RInv, Kept
<1>4. ASSUME render = "show" PROVE reports'[curRep] = seqnoRead
  <2>1. seqnoRead > 0 /\ curRep = Slot(seqnoRead - 1) /\ reports[curRep] = seqnoRead
    BY <1>4 DEF RInv, Kept
  <2>2. seqnoRead - 1 \in Nat /\ seqnoRead - 1 < seqnoWrite
    BY <1>1, <2>1
  <2>. QED
    BY <1>1, <1>2, <2>1, <2>2
<1>. QED
  BY <1>3, <1>4

LEMMA BeginCopyRInv == Speeds /\ RInv /\ BeginCopy => RInv'
<1>. SUFFICES ASSUME Speeds, RInv, BeginCopy PROVE RInv'
  OBVIOUS
<1>1. /\ worker = "handle" /\ worker' = "copy"
      /\ reports' = [reports EXCEPT ![Slot(seqnoWrite)] = Torn]
      /\ UNCHANGED <<made, seqnoWrite, orderHangup>>
      /\ UNCHANGED <<seqnoRead, render, last, curRep, queueLength, rendered>>
  BY DEF BeginCopy, reader
<1>2. TypeOK'
  BY <1>1 DEF RInv, TypeOK
<1>3. Kept'
  <2>1. Busy
    BY <1>1 DEF Busy
  <2>. QED
    BY <1>1, <2>1, StoreSpares DEF RInv, Kept
<1>. QED
  BY <1>1, <1>2, <1>3 DEF RInv, NeverAhead, Counted, Bounded, Busy, Drawn, DrawnFaithfully

LEMMA EndCopyRInv == Speeds /\ RInv /\ EndCopy => RInv'
<1>. SUFFICES ASSUME Speeds, RInv, EndCopy PROVE RInv'
  OBVIOUS
<1>1. /\ worker = "copy" /\ worker' = "finalize"
      /\ reports' = [reports EXCEPT ![Slot(seqnoWrite)] = made]
      /\ UNCHANGED <<made, seqnoWrite, orderHangup>>
      /\ UNCHANGED <<seqnoRead, render, last, curRep, queueLength, rendered>>
  BY DEF EndCopy, reader
<1>2. TypeOK'
  BY <1>1 DEF RInv, TypeOK
<1>3. Kept'
  <2>1. Busy
    BY <1>1 DEF Busy
  <2>2. reports'[Slot(seqnoWrite)] = made
    BY <1>1, SlotInRing DEF RInv, TypeOK
  <2>. QED
    BY <1>1, <2>1, <2>2, StoreSpares DEF RInv, Kept
<1>. QED
  BY <1>1, <1>2, <1>3 DEF RInv, NeverAhead, Counted, Bounded, Busy, Drawn, DrawnFaithfully

LEMMA FinalizeRInv == Speeds /\ RInv /\ Finalize => RInv'
<1>. SUFFICES ASSUME Speeds, RInv, Finalize PROVE RInv'
  OBVIOUS
<1>1. /\ worker = "finalize" /\ worker' = "perform"
      /\ seqnoWrite' = seqnoWrite + 1
      /\ UNCHANGED <<made, reports, orderHangup>>
      /\ UNCHANGED <<seqnoRead, render, last, curRep, queueLength, rendered>>
  BY DEF Finalize, reader
<1>2. TypeOK'
  BY <1>1 DEF RInv, TypeOK
<1>3. Counted' /\ Bounded' /\ NeverAhead'
  BY <1>1, RingAssumption DEF RInv, TypeOK, Counted, Bounded, Busy, NeverAhead
<1>4. Kept'
  <2>1. \A n \in Nat : n < seqnoWrite + 1 => n < seqnoWrite \/ n = seqnoWrite
    BY DEF RInv, TypeOK
  <2>2. reports[Slot(seqnoWrite)] = seqnoWrite + 1
    BY <1>1 DEF RInv, Kept, Counted, Busy
  <2>. QED
    BY <1>1, <2>1, <2>2 DEF RInv, Kept
<1>. QED
  BY <1>1, <1>2, <1>3, <1>4 DEF RInv, Drawn, DrawnFaithfully

(* The end of the procedure's loop and the request to the renderer. *)
LEMMA EndingRInv == RInv /\ (LoopEnds \/ Hangup) => RInv'
<1>. SUFFICES ASSUME RInv, LoopEnds \/ Hangup PROVE RInv'
  OBVIOUS
<1>1. /\ worker \in {"perform", "joined"} /\ worker' = "joined"
      /\ orderHangup' \in BOOLEAN
      /\ UNCHANGED <<made, reports, seqnoWrite>>
      /\ UNCHANGED <<seqnoRead, render, last, curRep, queueLength, rendered>>
  BY DEF LoopEnds, Hangup, reader, RInv, TypeOK
<1>2. TypeOK'
  BY <1>1 DEF RInv, TypeOK
<1>. QED
  BY <1>1, <1>2 DEF RInv, NeverAhead, Counted, Bounded, Busy, Kept, Drawn, DrawnFaithfully

-----------------------------------------------------------------------------
(* The renderer's steps. *)
LEMMA LookRInv == RInv /\ (CheckHangup \/ GetQueueLength \/ QueueDrawn) => RInv'
<1>. SUFFICES ASSUME RInv, CheckHangup \/ GetQueueLength \/ QueueDrawn PROVE RInv'
  OBVIOUS
<1>1. /\ UNCHANGED <<worker, made, reports, seqnoWrite, orderHangup>>
      /\ UNCHANGED <<seqnoRead, curRep, rendered>>
      /\ \/ /\ render = "check" /\ render' = "look"
            /\ last' = orderHangup /\ queueLength' = queueLength
         \/ /\ render = "look" /\ render' = "draw"
            /\ last' = last /\ queueLength' = seqnoWrite - seqnoRead
         \/ /\ render = "draw" /\ render' \in {"check", "ended"}
            /\ last' = last /\ queueLength' = queueLength /\ queueLength = 0
  BY DEF CheckHangup, GetQueueLength, QueueDrawn, writer
<1>2. TypeOK'
  BY <1>1 DEF RInv, TypeOK, Bounded
<1>3. NeverAhead' /\ Bounded'
  BY <1>1 DEF RInv, TypeOK, Bounded, NeverAhead, Busy
<1>. QED
  BY <1>1, <1>2, <1>3 DEF RInv, Counted, Busy, Kept, Drawn, DrawnFaithfully

LEMMA ReadReportRInv == RInv /\ ReadReport => RInv'
<1>. SUFFICES ASSUME RInv, ReadReport PROVE RInv'
  OBVIOUS
<1>1. /\ render = "draw" /\ render' = "show" /\ queueLength > 0
      /\ curRep' = Slot(seqnoRead) /\ seqnoRead' = seqnoRead + 1
      /\ UNCHANGED <<worker, made, reports, seqnoWrite, orderHangup>>
      /\ UNCHANGED <<last, queueLength, rendered>>
  BY DEF ReadReport, writer
<1>2. TypeOK'
  BY <1>1, SlotInRing DEF RInv, TypeOK
<1>3. NeverAhead' /\ Bounded'
  BY <1>1, RingAssumption DEF RInv, TypeOK, Bounded, NeverAhead, Busy
<1>4. Kept'
  <2>1. seqnoRead \in Nat /\ seqnoRead < seqnoWrite /\ seqnoWrite \in Nat
    BY <1>1 DEF RInv, TypeOK, NeverAhead
  <2>2. reports[Slot(seqnoRead)] = seqnoRead + 1
    BY <2>1 DEF RInv, Kept
  <2>3. seqnoRead + 1 - 1 = seqnoRead
    BY <2>1
  <2>. QED
    BY <1>1, <2>1, <2>2, <2>3 DEF RInv, Kept
<1>5. Drawn'
  BY <1>1 DEF RInv, TypeOK, Drawn, DrawnFaithfully
<1>. QED
  BY <1>1, <1>2, <1>3, <1>4, <1>5 DEF RInv, Counted, Busy

LEMMA ShowReportRInv == RInv /\ ShowReport => RInv'
<1>. SUFFICES ASSUME RInv, ShowReport PROVE RInv'
  OBVIOUS
<1>1. /\ render = "show" /\ render' = "draw"
      /\ rendered' = Append(rendered, reports[curRep])
      /\ queueLength' = queueLength - 1
      /\ UNCHANGED <<worker, made, reports, seqnoWrite, orderHangup>>
      /\ UNCHANGED <<seqnoRead, last, curRep>>
  BY DEF ShowReport, writer
<1>2. /\ reports[curRep] = seqnoRead /\ queueLength > 0 /\ seqnoRead \in Nat
      /\ rendered \in Seq(Nat \cup {Torn}) /\ Len(rendered) = seqnoRead - 1
      /\ \A k \in DOMAIN rendered : rendered[k] = k
  BY <1>1 DEF RInv, TypeOK, Kept, Drawn, DrawnFaithfully
<1>3. TypeOK'
  BY <1>1, <1>2 DEF RInv, TypeOK
<1>4. Drawn'
  <2>1. Len(rendered') = seqnoRead
    BY <1>1, <1>2
  <2>2. \A k \in DOMAIN rendered' : rendered'[k] = k
    BY <1>1, <1>2
  <2>. QED
    BY <1>1, <2>1, <2>2 DEF Drawn, DrawnFaithfully
<1>5. NeverAhead' /\ Bounded'
  BY <1>1, <1>2 DEF RInv, TypeOK, Bounded, NeverAhead, Busy
<1>. QED
  BY <1>1, <1>3, <1>4, <1>5 DEF RInv, Counted, Busy, Kept

-----------------------------------------------------------------------------
LEMMA NextRInv == Speeds /\ RInv /\ [Next]_vars => RInv'
<1>. SUFFICES ASSUME Speeds, RInv, [Next]_vars PROVE RInv'
  OBVIOUS
<1>1. CASE MakeReport
  BY <1>1, MakeReportRInv
<1>2. CASE HandleReport
  <2>1. ~FinalizeEarly /\ ~CopyLate
    BY DEF Speeds, FinalizeEarly, CopyLate, RInv, Counted
  <2>. QED
    BY <1>2, <2>1, BeginCopyRInv, EndCopyRInv, FinalizeRInv DEF HandleReport
<1>3. CASE LoopEnds \/ Hangup
  BY <1>3, EndingRInv
<1>4. CASE Render
  BY <1>4, LookRInv, ReadReportRInv, ShowReportRInv DEF Render
<1>5. CASE UNCHANGED vars
  BY <1>5 DEF vars, RInv, TypeOK, NeverAhead, Counted, Bounded, Busy, Kept, Drawn,
     DrawnFaithfully
<1>. QED
  BY <1>1, <1>2, <1>3, <1>4, <1>5 DEF Next

THEOREM RingInvariance == Speeds /\ Spec => []RInv
<1>1. Speeds /\ Init => RInv
  BY InitRInv
<1>2. Speeds /\ RInv /\ [Next]_vars => RInv'
  BY NextRInv
<1>3. Speeds => []Speeds
  BY DEF Speeds
<1>. QED
  BY <1>1, <1>2, <1>3, PTL DEF Spec

(* The renderer's thread never means to draw what is not handed over yet      *)
(* (render_queued's queue_length, read once and used down to zero).           *)
THEOREM ReaderStaysBehind == Speeds /\ Spec => []NeverAhead
<1>1. RInv => NeverAhead
  BY DEF RInv
<1>. QED
  BY <1>1, RingInvariance, PTL

(* Every report drawn is the one handed over under its number, whole and not  *)
(* overwritten, though nothing locks the slots.                               *)
THEOREM RingIsFaithful == Speeds /\ Spec => []DrawnFaithfully
<1>1. RInv => DrawnFaithfully
  BY DEF RInv, Drawn
<1>. QED
  BY <1>1, RingInvariance, PTL

-----------------------------------------------------------------------------
(* Once the request to end is seen the ring only empties. *)
LastLook ==
    /\ orderHangup => worker = "joined"
    /\ last => orderHangup
    /\ last /\ render \in {"draw", "show"} =>
          seqnoRead + queueLength = seqnoWrite + (IF render = "show" THEN 1 ELSE 0)
    /\ render = "ended" => last /\ seqnoRead = seqnoWrite
    /\ last => render # "check"

EInv == RInv /\ LastLook

LEMMA NextLastLook == EInv /\ [Next]_vars => LastLook'
<1>. SUFFICES ASSUME EInv, [Next]_vars PROVE LastLook'
  OBVIOUS
<1>. USE DEF EInv, RInv, LastLook
<1>1. CASE MakeReport
  BY <1>1 DEF MakeReport, reader
<1>2. CASE HandleReport
  BY <1>2 DEF HandleReport, BeginCopy, EndCopy, Finalize, FinalizeEarly, CopyLate, reader
<1>3. CASE LoopEnds \/ Hangup
  BY <1>3 DEF LoopEnds, Hangup, reader
<1>4. CASE Render
  <2>1. CASE CheckHangup \/ GetQueueLength
    BY <2>1 DEF CheckHangup, GetQueueLength, writer, TypeOK, Bounded
  <2>2. CASE ReadReport
    BY <2>2 DEF ReadReport, writer, TypeOK
  <2>3. CASE ShowReport
    BY <2>3 DEF ShowReport, writer, TypeOK
  <2>4. CASE QueueDrawn
    BY <2>4 DEF QueueDrawn, writer, TypeOK
  <2>. QED
    BY <1>4, <2>1, <2>2, <2>3, <2>4 DEF Render
<1>5. CASE UNCHANGED vars
  BY <1>5 DEF vars
<1>. QED
  BY <1>1, <1>2, <1>3, <1>4, <1>5 DEF Next

THEOREM LastLookInvariance == Speeds /\ Spec => []EInv
<1>1. Speeds /\ Init => EInv
  BY InitRInv DEF EInv, LastLook, Init
<1>2. Speeds /\ EInv /\ [Next]_vars => EInv'
  BY NextRInv, NextLastLook DEF EInv
<1>3. Speeds => []Speeds
  BY DEF Speeds
<1>. QED
  BY <1>1, <1>2, <1>3, PTL DEF Spec

(* The look after order_hangup finds everything, since the procedure's thread *)
(* was joined before: nothing is left in the ring when the renderer ends.     *)
THEOREM RingIsEmptied == Speeds /\ Spec => []NothingLeft
<1>1. EInv => NothingLeft
  BY DEF EInv, RInv, LastLook, NothingLeft, Counted, Busy
<1>. QED
  BY <1>1, LastLookInvariance, PTL

-----------------------------------------------------------------------------
(* Each step of the ring is a step of the queue, or none. *)
LEMMA RingStep == Speeds /\ EInv /\ EInv' /\ [Next]_vars =>
                    [Queue!Next]_<<seqnoWrite, rendered,
                        IF render = "ended" THEN "closed"
                        ELSE IF orderHangup THEN "closing" ELSE "running">>
<1>. SUFFICES ASSUME Speeds, EInv, EInv', [Next]_vars
              PROVE  [Queue!Next]_<<seqnoWrite, rendered,
                        IF render = "ended" THEN "closed"
                        ELSE IF orderHangup THEN "closing" ELSE "running">>
  OBVIOUS
<1>1. CASE Finalize
  <2>1. ~orderHangup /\ render # "ended"
    BY <1>1 DEF Finalize, EInv, LastLook
  <2>. QED
    BY <1>1, <2>1 DEF Finalize, reader, Queue!Next, Queue!HandOver
<1>2. CASE ShowReport
  <2>1. /\ render = "show" /\ render' = "draw"
        /\ rendered' = Append(rendered, reports[curRep])
        /\ UNCHANGED <<seqnoWrite, orderHangup>>
    BY <1>2 DEF ShowReport, writer
  <2>2. /\ reports[curRep] = seqnoRead /\ Len(rendered) = seqnoRead - 1
        /\ seqnoRead \in Nat /\ seqnoWrite \in Nat /\ seqnoRead <= seqnoWrite
    BY <2>1 DEF EInv, RInv, TypeOK, Kept, Drawn, Bounded
  <2>3. Len(rendered) < seqnoWrite /\ reports[curRep] = Len(rendered) + 1
    BY <2>2
  <2>. QED
    BY <2>1, <2>3 DEF Queue!Next, Queue!Show
<1>3. CASE Hangup
  <2>1. render # "ended" /\ ~orderHangup /\ orderHangup'
    BY <1>3 DEF Hangup, EInv, LastLook
  <2>. QED
    BY <1>3, <2>1 DEF Hangup, reader, Queue!Next, Queue!StopAsked
<1>4. CASE QueueDrawn
  <2>1. /\ render = "draw" /\ render' = IF last THEN "ended" ELSE "check"
        /\ UNCHANGED <<seqnoWrite, orderHangup, rendered, seqnoRead>> /\ queueLength = 0
    BY <1>4 DEF QueueDrawn, writer
  <2>2. CASE last
    <3>1. orderHangup /\ seqnoRead = seqnoWrite /\ Len(rendered) = seqnoRead
      BY <2>1, <2>2 DEF EInv, LastLook, RInv, TypeOK, Drawn
    <3>. QED
      BY <2>1, <2>2, <3>1 DEF Queue!Next, Queue!End
  <2>3. CASE ~last
    BY <2>1, <2>3
  <2>. QED
    BY <2>2, <2>3
<1>5. CASE MakeReport \/ BeginCopy \/ EndCopy \/ LoopEnds
  BY <1>5 DEF MakeReport, BeginCopy, EndCopy, LoopEnds, reader
<1>6. CASE CheckHangup \/ GetQueueLength \/ ReadReport
  BY <1>6 DEF CheckHangup, GetQueueLength, ReadReport, writer
<1>7. CASE UNCHANGED vars
  BY <1>7 DEF vars
<1>8. ~FinalizeEarly /\ ~CopyLate
  BY DEF Speeds, FinalizeEarly, CopyLate, EInv, RInv, Counted
<1>. QED
  BY <1>1, <1>2, <1>3, <1>4, <1>5, <1>6, <1>7, <1>8 DEF Next, HandleReport, Render

(* The ring of slots implements the queue of reports: nothing is lost, drawn  *)
(* twice or drawn out of order, and nothing is left when the screen closes.   *)
THEOREM RingImplementsQueue == Speeds /\ Spec => QueueSpec
<1>1. Init => Queue!Init
  BY DEF Init, Queue!Init
<1>2. Speeds => []Speeds
  BY DEF Speeds
<1>. QED
  BY <1>1, <1>2, RingStep, LastLookInvariance, PTL DEF Spec, QueueSpec, Queue!Spec
=============================================================================
