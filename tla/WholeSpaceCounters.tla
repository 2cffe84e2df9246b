-------------------------- MODULE WholeSpaceCounters -------------------------
(* What the whole_space renderer (cui/whole_space_renderer.c) counts of the   *)
(* commands' statuses.  HandleReport runs in the procedure's thread and adds  *)
(* a block's bytes to bytes_processed; update_blocks_info runs in the         *)
(* renderer's thread and counts a failure in error_stats_accum.  There is no  *)
(* lock, and the array has no element for eAmnf: what is counted there is the *)
(* next member of the structure, bytes_processed.  A load and the store that  *)
(* follows it are steps apart.                                                *)
EXTENDS AtaPassThrough, Sequences

CONSTANT MaxReports   \* bound: blocks of a run

ASSUME CountersAssumption == MaxReports \in Nat

VARIABLES
    handler,          \* the procedure's thread in HandleReport: "idle", "loaded",
                      \* "stored"
    sum,              \* its register
    queue,            \* the statuses in the ring
    renderer,         \* the renderer's thread: "idle", "loaded"
    failure, old,     \* its index and its register
    word,             \* the words of the structure from error_stats_accum on
    reports,          \* bound: the reports so far
    sectors,          \* the sectors of all reports so far
    amnfTold,         \* an eAmnf was reported
    sound,            \* the sectors of the reports up to the first of an eAmnf
    spilled           \* the reports of an eAmnf that were counted

handling == <<handler, sum, reports, sectors, amnfTold, sound>>
rendering == <<renderer, failure, old, spilled>>
counters == <<handling, queue, rendering, word>>

(* mutant: the array ends an element earlier *)
ElementShort(s) == IF s < eAbrt THEN s ELSE eAmnf

(* The word that error_stats_accum[s] is; the array has six. *)
Element(s) == s
bytesProcessed == 6
Words == 0 .. bytesProcessed

CountersInit ==
    /\ Init
    /\ handler = "idle" /\ sum = 0
    /\ queue = << >>
    /\ renderer = "idle" /\ failure = eError /\ old = 0
    /\ word = [i \in Words |-> 0]
    /\ reports = 0 /\ sectors = 0
    /\ amnfTold = FALSE /\ sound = 0 /\ spilled = 0

-----------------------------------------------------------------------------
(* The renderer is copy's, whose commands do without CK_COND; another command *)
(* that comes between has no report here.                                     *)
OfBlock == ~ckCond /\ count > 0

Command ==
    /\ \/ Send /\ (OfBlock' => reports < MaxReports)
       \/ Answered \/ NotAnswered
       \/ ~OfBlock /\ Done
    /\ UNCHANGED counters

(* bytes_processed += sectors_processed * 512 *)
LoadBytes ==
    /\ phase = "answered" /\ OfBlock
    /\ handler = "idle"
    /\ handler' = "loaded"
    /\ sum' = word[bytesProcessed]
    /\ UNCHANGED <<vars, reports, sectors, amnfTold, sound, queue, rendering, word>>

StoreBytes ==
    /\ handler = "loaded"
    /\ handler' = "stored"
    /\ word' = [word EXCEPT ![bytesProcessed] = sum + 512 * count]
    /\ sectors' = sectors + count
    /\ sound' = IF amnfTold THEN sound ELSE sectors'
    /\ UNCHANGED <<vars, sum, reports, amnfTold, queue, rendering>>

(* A block that was read may have failed to be written.                       *)
Reportable == IF status = eOk THEN {eOk, eError} ELSE {status}

(* The report goes into the ring, and HandleReport is done.                   *)
Enqueue ==
    /\ handler = "stored"
    /\ handler' = "idle"
    /\ Done
    /\ \E s \in Reportable : queue' = Append(queue, s)
    /\ reports' = reports + 1
    /\ amnfTold' = (amnfTold \/ status = eAmnf)
    /\ UNCHANGED <<sum, sectors, sound, rendering, word>>

(* render_queued takes a report; one of a success counts elsewhere. *)
TakeReport ==
    /\ renderer = "idle"
    /\ queue # << >>
    /\ queue' = Tail(queue)
    /\ IF Head(queue) = eOk
         THEN UNCHANGED <<renderer, failure, old>>
         ELSE /\ renderer' = "loaded"
              /\ failure' = Head(queue)
              /\ old' = word[Element(Head(queue))]
    /\ UNCHANGED <<vars, handling, spilled, word>>

(* error_stats_accum[blk_status]++ *)
StoreCount ==
    /\ renderer = "loaded"
    /\ renderer' = "idle"
    /\ word' = [word EXCEPT ![Element(failure)] = old + 1]
    /\ spilled' = IF failure = eAmnf THEN spilled + 1 ELSE spilled
    /\ UNCHANGED <<vars, handling, queue, failure, old>>

CountersNext == Command \/ LoadBytes \/ StoreBytes \/ Enqueue \/ TakeReport \/ StoreCount

CountersSpec == CountersInit /\ [][CountersNext]_<<vars, counters>>

-----------------------------------------------------------------------------
(* The bytes that the speed and the remaining time are computed from are      *)
(* those of the blocks reported, exactly, until a first eAmnf is reported.    *)
(* From then on each eAmnf may add 1 to them, and a count that races with     *)
(* HandleReport may lose blocks, but none that was reported up to the first.  *)
BytesWithin ==
    /\ word[bytesProcessed] >= 512 * sound
    /\ word[bytesProcessed] <= 512 * sectors + spilled
=============================================================================
