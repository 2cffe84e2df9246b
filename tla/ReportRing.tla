------------------------------ MODULE ReportRing -----------------------------
(* The "lockless ringbuffer" between the procedure's thread, which hands each *)
(* block report to the renderer's handle_report, and the renderer's own       *)
(* thread, which draws the queued reports 25 times a second.  The two         *)
(* renderers (cui/whole_space_renderer.c, cui/sliding_window_renderer.c) have *)
(* the same code for it.  One action is one access to what the threads share. *)
EXTENDS Integers, Sequences

CONSTANTS
    Slots,        \* the 100*1000 of reports[]
    MaxBacklog,   \* the most reports the threads' speeds let await rendering
    MaxReports,   \* bound: reports the procedure makes
    InOrder       \* whether the renderer sees the stores in program order

ASSUME RingAssumption ==
    /\ Slots \in Nat \ {0}
    /\ MaxBacklog \in Nat
    /\ MaxReports \in Nat
    /\ InOrder \in BOOLEAN

VARIABLES
    worker,       \* where the procedure's thread is in handle_report
    made,         \* the number of the report it handles, or handled last
    reports,      \* the report in each slot, by its number; 0 at first
    seqnoWrite,   \* next_report_seqno_write
    seqnoRead,    \* next_report_seqno_read
    render,       \* where the renderer's thread is
    last,         \* whether it looks for the last time
    curRep,       \* the slot it draws from
    queueLength,  \* render_queued's queue_length
    orderHangup,  \* order_hangup
    rendered      \* the reports drawn so far

vars == <<worker, made, reports, seqnoWrite, seqnoRead,
          render, last, curRep, queueLength, orderHangup, rendered>>

(* A slot read while its report was being copied. *)
Torn == -1

(* mutant: the ring has one slot fewer than it was given *)
SlotShort(seqno) == seqno % (Slots - 1)

Slot(seqno) == seqno % Slots

Init ==
    /\ worker = "perform"
    /\ made = 0
    /\ reports = [i \in 0 .. Slots - 1 |-> 0]
    /\ seqnoWrite = 0 /\ seqnoRead = 0
    /\ render = "check" /\ last = FALSE
    /\ curRep = 0
    /\ queueLength = 0
    /\ orderHangup = FALSE
    /\ rendered = << >>

reader == <<seqnoRead, render, last, curRep, queueLength, rendered>>

-----------------------------------------------------------------------------
(* handle_report: the report is copied into the slot, then the index moves.   *)
(* Neither store is atomic or fenced, so a reader may see them swapped.       *)
MakeReport ==
    /\ worker = "perform"
    /\ made < MaxReports
    /\ seqnoWrite - seqnoRead < MaxBacklog
    /\ made' = made + 1
    /\ worker' = "handle"
    /\ UNCHANGED <<reports, seqnoWrite, orderHangup, reader>>

BeginCopy ==
    /\ worker = "handle"
    /\ reports' = [reports EXCEPT ![Slot(seqnoWrite)] = Torn]
    /\ worker' = "copy"
    /\ UNCHANGED <<made, seqnoWrite, orderHangup, reader>>

EndCopy ==
    /\ worker = "copy"
    /\ reports' = [reports EXCEPT ![Slot(seqnoWrite)] = made]
    /\ worker' = "finalize"
    /\ UNCHANGED <<made, seqnoWrite, orderHangup, reader>>

Finalize ==
    /\ worker = "finalize"
    /\ seqnoWrite' = seqnoWrite + 1
    /\ worker' = "perform"
    /\ UNCHANGED <<made, reports, orderHangup, reader>>

(* The stores in the other order. *)
FinalizeEarly ==
    /\ worker = "handle"
    /\ ~InOrder
    /\ seqnoWrite' = seqnoWrite + 1
    /\ worker' = "copyLate"
    /\ UNCHANGED <<made, reports, orderHangup, reader>>

CopyLate ==
    /\ worker = "copyLate"
    /\ reports' = [reports EXCEPT ![Slot(seqnoWrite - 1)] = made]
    /\ worker' = "perform"
    /\ UNCHANGED <<made, seqnoWrite, orderHangup, reader>>

HandleReport == BeginCopy \/ EndCopy \/ Finalize \/ FinalizeEarly \/ CopyLate

(* The procedure's loop ends; the main thread joins it and closes the         *)
(* renderer.                                                                  *)
LoopEnds ==
    /\ worker = "perform"
    /\ worker' = "joined"
    /\ UNCHANGED <<made, reports, seqnoWrite, orderHangup, reader>>

(* mutant: the renderer is closed while the procedure's thread still runs *)
HangupBeforeJoin ==
    /\ worker \in {"handle", "joined"}
    /\ ~orderHangup
    /\ orderHangup' = TRUE
    /\ UNCHANGED <<worker, made, reports, seqnoWrite, reader>>

Hangup ==
    /\ worker = "joined"
    /\ ~orderHangup
    /\ orderHangup' = TRUE
    /\ UNCHANGED <<worker, made, reports, seqnoWrite, reader>>

-----------------------------------------------------------------------------
(* render_thread_proc: it draws the reports that are queued when it looks,    *)
(* until it is asked to hang up; then it looks once more.                     *)
writer == <<worker, made, reports, seqnoWrite, orderHangup>>

CheckHangup ==
    /\ render = "check"
    /\ render' = "look"
    /\ last' = orderHangup
    /\ UNCHANGED <<writer, seqnoRead, curRep, queueLength, rendered>>

GetQueueLength ==
    /\ render = "look"
    /\ render' = "draw"
    /\ queueLength' = seqnoWrite - seqnoRead
    /\ UNCHANGED <<writer, seqnoRead, last, curRep, rendered>>

(* blk_rep_read gives up the slot before its report is looked at. *)
ReadReport ==
    /\ render = "draw"
    /\ queueLength > 0
    /\ render' = "show"
    /\ curRep' = Slot(seqnoRead)
    /\ seqnoRead' = seqnoRead + 1
    /\ UNCHANGED <<writer, last, queueLength, rendered>>

ShowReport ==
    /\ render = "show"
    /\ render' = "draw"
    /\ rendered' = Append(rendered, reports[curRep])
    /\ queueLength' = queueLength - 1
    /\ UNCHANGED <<writer, seqnoRead, last, curRep>>

(* mutant: the thread forgets that it was asked to end *)
QueueDrawnAgain ==
    /\ render = "draw"
    /\ queueLength = 0
    /\ render' = "check"
    /\ UNCHANGED <<writer, seqnoRead, last, curRep, queueLength, rendered>>

QueueDrawn ==
    /\ render = "draw"
    /\ queueLength = 0
    /\ render' = IF last THEN "ended" ELSE "check"
    /\ UNCHANGED <<writer, seqnoRead, last, curRep, queueLength, rendered>>

Render == CheckHangup \/ GetQueueLength \/ ReadReport \/ ShowReport \/ QueueDrawn

Next == MakeReport \/ HandleReport \/ LoopEnds \/ Hangup \/ Render

Spec == Init /\ [][Next]_vars

(* The operating system runs each thread; the procedure may go on for ever,   *)
(* but what it has begun to hand over it finishes.                            *)
FairSpec ==
    /\ Spec
    /\ WF_vars(HandleReport)
    /\ WF_vars(Hangup)
    /\ WF_vars(Render)

-----------------------------------------------------------------------------
(* Types of the variables; render_queued's length is never negative, so its   *)
(* loop, which counts down to zero, ends.                                     *)
TypeOK ==
    /\ worker \in {"perform", "handle", "copy", "finalize", "copyLate", "joined"}
    /\ made \in Nat
    /\ reports \in [0 .. Slots - 1 -> Nat \cup {Torn}]
    /\ seqnoWrite \in Nat /\ seqnoRead \in Nat
    /\ render \in {"check", "look", "draw", "show", "ended"}
    /\ last \in BOOLEAN
    /\ curRep \in 0 .. Slots - 1
    /\ queueLength \in Nat
    /\ orderHangup \in BOOLEAN
    /\ rendered \in Seq(Nat \cup {Torn})

(* The renderer never runs ahead of the procedure: what it means to draw is   *)
(* queued, whatever is handed over or drawn meanwhile.                        *)
NeverAhead ==
    render # "look" =>
        seqnoRead + queueLength <= seqnoWrite + (IF render = "show" THEN 1 ELSE 0)

(* The k-th report drawn is the k-th handed over: no slot is drawn before its *)
(* report is copied, nor after a later one took its place.                    *)
DrawnFaithfully == \A k \in DOMAIN rendered : rendered[k] = k

(* When the renderer's thread has ended nothing is left in the ring: the last *)
(* look comes after the procedure's thread was joined.                        *)
NothingLeft == render = "ended" => seqnoRead = made

(* A renderer that is asked to end does, however long the queue is and in     *)
(* whatever order it sees the procedure's stores.                             *)
Ends == worker = "joined" ~> render = "ended"

(* The ring implements the queue of reports. *)
Queue == INSTANCE ReportQueue WITH
    handed <- seqnoWrite,
    shown <- rendered,
    phase <- IF render = "ended" THEN "closed"
             ELSE IF orderHangup THEN "closing" ELSE "running"

QueueSpec == Queue!Spec
=============================================================================
