------------------------------ MODULE CopyScreen -----------------------------
(* The copy procedure under the whole_space renderer                          *)
(* (cui/whole_space_renderer.c): the map of display blocks and the three      *)
(* counters beside it, filled from the journal when the screen opens and      *)
(* then from the block reports.  The ring between the two threads is the      *)
(* queue that ReportRing implements.                                          *)
EXTENDS Copy, Sequences

CONSTANTS
    BlocksPerVis,     \* blocks_per_vis: display blocks in one cell of the map
    UintLimit,        \* 2^64, where the counters wrap
    QueueBound        \* bound: reports that await the renderer

ASSUME ScreenAssumption ==
    /\ BlocksPerVis \in Nat \ {0}
    /\ UintLimit \in Nat \ {0}
    /\ QueueBound \in Nat

VARIABLES
    screen,           \* "off", "on"
    queue,            \* the reports in the ring
    blocksMap,        \* blocks_map
    unreadCount,      \* unread_count
    readOkCount,      \* read_ok_count
    errorsCount       \* errors_count

counts == <<unreadCount, readOkCount, errorsCount>>
screenVars == <<screen, queue, blocksMap, counts>>

(* blk_size is SECTORS_AT_ONCE sectors; the last display block may be smaller. *)
NbBlocks == (EndLba + SectorsAtOnce - 1) \div SectorsAtOnce
Blocks == 0 .. NbBlocks - 1
BlockOf(lba) == lba \div SectorsAtOnce
BlockSectors(b) == {s \in Lba : BlockOf(s) = b}
WrapUint(x) == x % UintLimit

ScreenOff ==
    /\ screen' = "off"
    /\ queue' = << >>
    /\ blocksMap' = [b \in Blocks |-> "Unread"]
    /\ unreadCount' = 0 /\ readOkCount' = 0 /\ errorsCount' = 0

ScreenInit ==
    /\ screen = "off"
    /\ queue = << >>
    /\ blocksMap = [b \in Blocks |-> "Unread"]
    /\ unreadCount = 0 /\ readOkCount = 0 /\ errorsCount = 0

-----------------------------------------------------------------------------
(* The screen opens once the procedure is open.  With a journal it takes each *)
(* display block for what the journal says of the block's first sector.       *)
FirstStatus(b) == journal[b * SectorsAtOnce]

CountedSize(b) == IF b = NbBlocks - 1 THEN EndLba % SectorsAtOnce ELSE SectorsAtOnce

Total(bs) == Cardinality(bs \ {NbBlocks - 1}) * SectorsAtOnce
                + (IF NbBlocks - 1 \in bs THEN CountedSize(NbBlocks - 1) ELSE 0)

OpenScreen ==
    /\ pc = "loop" /\ screen = "off"
    /\ screen' = "on"
    /\ IF useJournal
         THEN /\ blocksMap' = [b \in Blocks |-> FirstStatus(b)]
              /\ unreadCount' = Total({b \in Blocks : FirstStatus(b) = "Unread"})
              /\ readOkCount' = Total({b \in Blocks : FirstStatus(b) = "ReadOk"})
              /\ errorsCount' = Total({b \in Blocks : FirstStatus(b) \in ErrorStatus})
         ELSE /\ unreadCount' = progress.den
              /\ UNCHANGED <<blocksMap, readOkCount, errorsCount>>
    /\ UNCHANGED <<vars, queue>>

(* The loop's callback enqueues the report, whatever it holds.                *)
HandleReport ==
    /\ Callback
    /\ screen = "on"
    /\ Len(queue) < QueueBound
    /\ queue' = Append(queue, report)
    /\ UNCHANGED <<screen, blocksMap, counts>>

(* update_blocks_info. *)
(* mutant: a failed block is not taken from the unread ones *)
CountReportOkOnly(r) ==
    /\ IF r.status = "ok"
         THEN readOkCount' = WrapUint(readOkCount + r.n) /\ UNCHANGED errorsCount
         ELSE errorsCount' = WrapUint(errorsCount + r.n) /\ UNCHANGED readOkCount
    /\ unreadCount' = IF r.status = "ok" THEN WrapUint(unreadCount - r.n) ELSE unreadCount

CountReport(r) ==
    /\ IF r.status = "ok"
         THEN readOkCount' = WrapUint(readOkCount + r.n) /\ UNCHANGED errorsCount
         ELSE errorsCount' = WrapUint(errorsCount + r.n) /\ UNCHANGED readOkCount
    /\ unreadCount' = WrapUint(unreadCount - r.n)

(* mutant: the block after the one reported *)
ReportBlockNext(r) == (r.lba + r.n) \div SectorsAtOnce
ReportBlock(r) == BlockOf(r.lba)

DrawReport ==
    /\ screen = "on"
    /\ queue # << >>
    /\ \E r \in {Head(queue)} :
          /\ blocksMap' = [blocksMap EXCEPT ![ReportBlock(r)] =
                               IF r.status = "ok" THEN "ReadOk" ELSE "BlockReadError"]
          /\ CountReport(r)
    /\ queue' = Tail(queue)
    /\ UNCHANGED <<vars, screen>>

(* The renderer is closed after the procedure is, when all is drawn. *)
CloseScreen ==
    /\ pc = "closed" /\ screen = "on"
    /\ queue = << >>
    /\ ScreenOff
    /\ UNCHANGED vars

-----------------------------------------------------------------------------
Working ==
    \/ LoopEnds \/ GetTask
    \/ Read \/ Write \/ WriteJournal \/ JournalFails \/ UseResults

ScreenNext ==
    \/ screen = "off" /\ (Open \/ FillJournal \/ SyncJournal) /\ UNCHANGED screenVars
    \/ OpenScreen
    \/ screen = "on" /\ (Working \/ Close \/ Interrupt) /\ UNCHANGED screenVars
    \/ HandleReport
    \/ DrawReport
    \/ CloseScreen
    \/ (Crash \/ Reboot \/ PowerLoss) /\ ScreenOff

ScreenSpec == Init /\ ScreenInit /\ [][ScreenNext]_<<vars, screenVars>>

-----------------------------------------------------------------------------
Class(status) == IF status \in ErrorStatus THEN "error" ELSE status

(* What the cell of a block is drawn as (render_map). *)
CellDrawn(bs) ==
    IF \E b \in bs : blocksMap[b] = "BlockReadError" THEN "error"
    ELSE IF \E b \in bs : blocksMap[b] = "Unread" THEN "Unread"
    ELSE "ReadOk"

Cells == {{b \in Blocks : b \div BlocksPerVis = i} : i \in 0 .. (NbBlocks - 1) \div BlocksPerVis}

(* The reports on their way to the renderer, which sees them after the        *)
(* journal does.                                                              *)
Awaited ==
    {queue[i] : i \in DOMAIN queue} \cup (IF pc = "callback" THEN {report} ELSE {})

Settled(bs) ==
    /\ \A r \in Awaited : r.n > 0 => BlockOf(r.lba) \notin bs
    /\ pc = "use" => BlockOf(task.lba) \notin bs

(* As long as Perform has not failed, a cell is drawn as copied space only if *)
(* the journal has all its sectors read, as an error if one of them failed,   *)
(* else as unread.  (A Perform that fails may not have renewed the report the *)
(* callback then hands over: in a run whose first Perform gives up that is a  *)
(* report of nothing at sector 0, which draws the first block as copied.)     *)
CellsTruthful ==
    screen = "on" /\ Running /\ useJournal /\ ret = 0 =>
        \A bs \in Cells : Settled(bs) =>
            LET fates == {Class(journal[s]) : s \in UNION {BlockSectors(b) : b \in bs}}
            IN  CellDrawn(bs) = IF "error" \in fates THEN "error"
                                ELSE IF "Unread" \in fates THEN "Unread"
                                ELSE "ReadOk"

(* With the same proviso, the number beside "unread space" is what progress   *)
(* says is left and what the reports that await the renderer will take away.  *)
CountsAgree ==
    screen = "on" /\ Running /\ ret = 0 =>
        unreadCount = progress.den - progress.num
                        + Cardinality(UNION {Block(r.lba, r.n) : r \in Awaited})
=============================================================================
