-------------------------------- MODULE Copy ---------------------------------
(* The copy procedure (libdevcheck/copy.c, copy_read_strategies.c) run by     *)
(* dc_procedure_perform_loop: it reads the source device in blocks, in the    *)
(* order its read strategy chooses, writes what it read to the destination    *)
(* and notes the fate of every sector in a journal that a later run resumes   *)
(* from.  One action is one system call of the handler and what follows it    *)
(* up to the next one, so that a crash can fall between any two of them.      *)
EXTENDS CopyZones

CONSTANTS
    Strategies,      \* the values of the option read_strategy the user picks
    Faults,          \* "ioctl", "write", "journal", "dstopen": calls that may fail;
                     \* "lost": commands the kernel gives up without a failing call;
                     \* "power": the machine may lose what was not synced
    Destinations,    \* the values of the option dst_file
    DstDevice,       \* of each destination: a device's sectors, 0 for a file
    Lost,            \* the sets of sectors a power loss may take
    MaxRuns          \* bound: how many times the procedure is opened

NoDestination == "no destination"
SmartStrategies == {"smart", "smart_noreverse"}
SkipfailStrategies == {"skipfail", "skipfail_noreverse"}

ASSUME CopyAssumption ==
    /\ Strategies \subseteq {"plain"} \cup SmartStrategies \cup SkipfailStrategies
    /\ Faults \subseteq {"ioctl", "lost", "write", "journal", "dstopen", "power"}
    /\ DstDevice \in [Destinations -> Nat]
    /\ NoDestination \notin Destinations
    /\ Lost \subseteq SUBSET Lba
    /\ MaxRuns \in Nat

VARIABLES
    (* The process: the procedure's context and its loop. *)
    pc,              \* "closed", or the next thing the procedure does
    strategy,        \* read_strategy
    useJournal,      \* use_journal
    zones, nbZones,  \* unread_zones and its length nb_zones
    cur,             \* current_zone, NoZone for NULL
    reverse,         \* current_zone_read_direction_reversive
    stage,           \* SmartStrategyCtx.stage
    progress,        \* progress.num and progress.den
    dest,            \* dst_file
    dstEnd,          \* dst_file_end_lba, 0 when there is no limit
    task,            \* lba_to_read, sectors_to_read
    report,          \* what the callback passes to the renderer
    errorFlag, ret,  \* Perform's error_flag and ret
    buf,             \* "source" when it holds the data of the task's sectors
    oldReadahead,    \* old_readahead
    interrupt,       \* ctx->interrupt
    (* What outlives the process. *)
    journal,         \* the journal file's bytes
    journalFile,     \* "absent", "partial" (created, not yet filled), "filled"
                     \* (of the right size), "synced"
    dst,             \* the sectors of each destination
    dstSize,         \* its size in sectors
    readahead,       \* the source device's readahead setting
    (* Kept for the properties: what happened so far. *)
    runs,            \* how often the procedure was opened
    recordedTo,      \* the destinations of the runs that used the journal
    missed,          \* sectors each destination lacks as a call or power failed
    unnoted,         \* those of them that were lost without an error of the read
    lapsed           \* since the last restart a run died or was refused

settings == <<strategy, useJournal, dest, dstEnd, oldReadahead>>
table == <<zones, nbZones>>
choice == <<cur, reverse, stage>>
perform == <<task, report, errorFlag, ret, buf>>
process == <<settings, table, choice, perform, progress>>
disk == <<journal, journalFile, dst, dstSize, readahead>>
history == <<runs, recordedTo, missed, unnoted, lapsed>>
vars == <<pc, process, interrupt, disk, history>>

NoTask == [lba |-> 0, n |-> 0]
NoReport == [lba |-> 0, n |-> 0, status |-> "ok"]
TaskSectors == Block(task.lba, task.n)

-----------------------------------------------------------------------------
(* A process that holds no context of the procedure. *)
Idle ==
    /\ pc' = "closed"
    /\ strategy' = "plain" /\ useJournal' = FALSE
    /\ dest' = NoDestination /\ dstEnd' = 0 /\ oldReadahead' = "on"
    /\ zones' = {} /\ nbZones' = 0
    /\ cur' = NoZone /\ reverse' = FALSE /\ stage' = 0
    /\ progress' = [num |-> 0, den |-> 0]
    /\ task' = NoTask /\ report' = NoReport
    /\ errorFlag' = FALSE /\ ret' = 0 /\ buf' = "stale"
    /\ interrupt' = FALSE

Init ==
    /\ pc = "closed"
    /\ strategy = "plain" /\ useJournal = FALSE
    /\ dest = NoDestination /\ dstEnd = 0 /\ oldReadahead = "on"
    /\ zones = {} /\ nbZones = 0
    /\ cur = NoZone /\ reverse = FALSE /\ stage = 0
    /\ progress = [num |-> 0, den |-> 0]
    /\ task = NoTask /\ report = NoReport
    /\ errorFlag = FALSE /\ ret = 0 /\ buf = "stale"
    /\ interrupt = FALSE
    /\ journal = [s \in Lba |-> "Unread"]
    /\ journalFile = "absent"
    /\ dst = [d \in Destinations |-> [s \in Lba |-> "none"]]
    /\ dstSize = DstDevice
    /\ readahead = "on"
    /\ runs = 0 /\ recordedTo = {} /\ lapsed = FALSE
    /\ missed = [d \in Destinations |-> {}]
    /\ unnoted = [d \in Destinations |-> {}]

-----------------------------------------------------------------------------
(* Open.  The journal decides where the run starts: no journal, a journal     *)
(* still to be filled, a complete one to resume from, or one of the wrong     *)
(* size, which is refused.                                                    *)
(* mutant: the denominator of a resumed run is not recounted *)
UseTableWholeDen(zs, n, den) ==
    /\ zones' = zs
    /\ nbZones' = n
    /\ progress' = [num |-> 0, den |-> EndLba]

UseTable(zs, n, den) ==
    /\ zones' = zs
    /\ nbZones' = n
    /\ progress' = [num |-> 0, den |-> den]

JournalAccepted == journalFile \in {"filled", "synced"}

OpenContext(s, j, d) ==
    /\ pc = "closed"
    /\ runs < MaxRuns
    /\ runs' = runs + 1
    /\ strategy' = s /\ useJournal' = j
    /\ dest' = d /\ dstEnd' = dstSize[d]
    /\ oldReadahead' = readahead
    /\ readahead' = "off"
    /\ recordedTo' = IF j THEN recordedTo \cup {d} ELSE recordedTo
    /\ UNCHANGED <<choice, perform, interrupt, journal, dst, dstSize>>
    /\ UNCHANGED <<missed, unnoted, lapsed>>

OpenWithoutJournal(s, d) ==
    /\ OpenContext(s, FALSE, d)
    /\ pc' = "loop"
    /\ UseTable(WholeDevice, 1, EndLba)
    /\ UNCHANGED journalFile

(* mutant: the journal is created but not filled *)
OpenCreateUnfilled(s, d) ==
    /\ journalFile = "absent"
    /\ OpenContext(s, TRUE, d)
    /\ pc' = "loop"
    /\ journalFile' = "partial"
    /\ UseTable(WholeDevice, 1, EndLba)

OpenCreateJournal(s, d) ==
    /\ journalFile = "absent"
    /\ OpenContext(s, TRUE, d)
    /\ pc' = "filling"
    /\ journalFile' = "partial"
    /\ UseTable(WholeDevice, 1, EndLba)

FillJournal ==
    /\ pc = "filling"
    /\ pc' = "syncing"
    /\ journalFile' = "filled"
    /\ UNCHANGED <<process, interrupt, journal, dst, dstSize, readahead, history>>

(* fdatasync, the only one of the procedure. *)
SyncJournal ==
    /\ pc = "syncing"
    /\ pc' = "loop"
    /\ journalFile' = "synced"
    /\ UNCHANGED <<process, interrupt, journal, dst, dstSize, readahead, history>>

OpenResume(s, d) ==
    /\ JournalAccepted
    /\ OpenContext(s, TRUE, d)
    /\ pc' = "loop"
    /\ UseTable(Parse(journal), Cardinality(Parse(journal)),
                Cardinality(UnreadSectors(journal)))
    /\ UNCHANGED journalFile

(* The journal has the wrong size or cannot be read, or the destination has   *)
(* no position to seek.  The failure path closes src_fd before it restores    *)
(* the readahead through it, so that ioctl fails and the setting stays off.   *)
OpenRefused ==
    /\ pc = "closed"
    /\ runs < MaxRuns
    /\ journalFile = "partial" \/ Faults \cap {"journal", "dstopen"} # {}
    /\ runs' = runs + 1
    /\ readahead' = "off"
    /\ lapsed' = TRUE
    /\ UNCHANGED <<pc, process, interrupt, journal, journalFile, dst, dstSize>>
    /\ UNCHANGED <<recordedTo, missed, unnoted>>

(* A destination that cannot be opened meets assert(0). *)
OpenDstFails ==
    /\ pc = "closed"
    /\ runs < MaxRuns
    /\ "dstopen" \in Faults
    /\ pc' = "aborted"
    /\ runs' = runs + 1
    /\ readahead' = "off"
    /\ UNCHANGED <<process, interrupt, journal, journalFile, dst, dstSize>>
    /\ UNCHANGED <<recordedTo, missed, unnoted, lapsed>>

Open ==
    \/ \E s \in Strategies, d \in Destinations :
          OpenWithoutJournal(s, d) \/ OpenCreateJournal(s, d) \/ OpenResume(s, d)
    \/ OpenRefused
    \/ OpenDstFails

-----------------------------------------------------------------------------
(* The head of dc_procedure_perform_loop. *)
LoopEnds ==
    /\ pc = "loop"
    /\ interrupt \/ progress.num >= progress.den
    /\ pc' = "closing"
    /\ UNCHANGED <<process, interrupt, disk, history>>

LoopGoesOn ==
    /\ pc = "loop"
    /\ ~interrupt
    /\ progress.num < progress.den

(* give_task_proceeding_current_zone and the rest of Perform's preparation.   *)
(* The report is renewed only when the block lies within the destination.     *)
FitsFirstSector(lba, n) == dstEnd = 0 \/ lba <= dstEnd    \* mutant
Fits(lba, n) == dstEnd = 0 \/ lba + n <= dstEnd

TaskSize(z) == IF Length(z) < SectorsAtOnce THEN Length(z) ELSE SectorsAtOnce
TaskLba(z, rev) == IF rev THEN z.end - TaskSize(z) ELSE z.begin

Proceed(z, rev) ==
    /\ cur' = z /\ reverse' = rev
    /\ task' = [lba |-> TaskLba(z, rev), n |-> TaskSize(z)]
    /\ errorFlag' = FALSE
    /\ buf' = "stale"
    /\ \/ /\ Fits(TaskLba(z, rev), TaskSize(z))
          /\ report' = [lba |-> TaskLba(z, rev), n |-> TaskSize(z), status |-> "ok"]
          /\ ret' = 0
          /\ pc' = "read"
       \/ /\ ~Fits(TaskLba(z, rev), TaskSize(z))
          /\ ret' = 1
          /\ pc' = "callback"
          /\ UNCHANGED report
    /\ UNCHANGED <<settings, progress, interrupt, disk, history>>

PlainTask ==
    /\ LoopGoesOn
    /\ strategy = "plain"
    /\ Proceed(First(zones), reverse)
    /\ UNCHANGED <<table, stage>>

(* Smart and skipfail stay in the zone they have. *)
KeepZone ==
    /\ LoopGoesOn
    /\ strategy # "plain"
    /\ cur # NoZone
    /\ Proceed(cur, reverse)
    /\ UNCHANGED <<table, stage>>

ChooseZone ==
    /\ LoopGoesOn
    /\ strategy # "plain"
    /\ cur = NoZone

-----------------------------------------------------------------------------
(* smart_get_task: a zone with an end that is not defective, else the largest *)
(* zone is cut in the middle, else every zone is read forward to its end.     *)
ReadsBackward(z) == strategy = "smart" /\ z.bdef /\ ~z.edef
SmartProcessable(z) == ~z.bdef \/ ReadsBackward(z)

SmartCanSplit ==
    /\ Length(LargestZone(zones)) > IndivisibleZone
    /\ nbZones < MaxZones

SmartTakeZone ==
    /\ ChooseZone
    /\ strategy \in SmartStrategies
    /\ stage = 0
    /\ \E z \in zones : SmartProcessable(z)
    /\ \E z \in {First({y \in zones : SmartProcessable(y)})} :
          Proceed(z, ReadsBackward(z))
    /\ UNCHANGED <<table, stage>>

SmartReadTheRest ==
    /\ ChooseZone
    /\ strategy \in SmartStrategies
    /\ stage = 1 \/ (~SmartCanSplit /\ \A z \in zones : ~SmartProcessable(z))
    /\ stage' = 1
    /\ Proceed(First(zones), FALSE)
    /\ UNCHANGED table

-----------------------------------------------------------------------------
(* skipfail_get_task: the first zone that can be read from a sound end or is  *)
(* long enough to jump into.  The end of the device is not read backward.     *)
SkipfailBackward(z) ==
    /\ strategy = "skipfail"
    /\ z.bdef /\ ~z.edef
    /\ ~IsLast(zones, z)

SkipfailJumpable(z) == Length(z) > JumpSectors

SkipfailChoices ==
    {z \in zones : ~z.bdef \/ SkipfailBackward(z) \/ SkipfailJumpable(z)}

SkipfailTakeZone ==
    /\ ChooseZone
    /\ strategy \in SkipfailStrategies
    /\ SkipfailChoices # {}
    /\ \E z \in {First(SkipfailChoices)} :
          /\ ~z.bdef \/ SkipfailBackward(z)
          /\ Proceed(z, SkipfailBackward(z))
    /\ UNCHANGED <<table, stage>>

(* No zone is long enough: Perform fails before it renews the report. *)
SkipfailGivesUp ==
    /\ ChooseZone
    /\ strategy \in SkipfailStrategies
    /\ SkipfailChoices = {}
    /\ ret' = 1
    /\ pc' = "callback"
    /\ UNCHANGED <<settings, table, choice, task, report, errorFlag, buf>>
    /\ UNCHANGED <<progress, interrupt, disk, history>>

-----------------------------------------------------------------------------
(* The zone a strategy cuts in two, if it is at that point, and where.        *)
SmartCut ==
    {z \in zones :
        /\ strategy \in SmartStrategies /\ stage = 0
        /\ \A y \in zones : ~SmartProcessable(y)
        /\ SmartCanSplit
        /\ z = LargestZone(zones)}

SkipfailCut ==
    {z \in SkipfailChoices :
        /\ strategy \in SkipfailStrategies
        /\ z = First(SkipfailChoices)
        /\ z.bdef /\ ~SkipfailBackward(z)}

Cuts == {[zone |-> z, at |-> Middle(z)] : z \in SmartCut}
            \cup {[zone |-> z, at |-> JumpTarget(z)] : z \in SkipfailCut}

(* The part before the cut has a sound end now: smart and skipfail read it    *)
(* backward, the others read the part after the cut.                          *)
SplitZone ==
    /\ ChooseZone
    /\ \E c \in Cuts :
          /\ Inside(c.zone, c.at)
          /\ zones' = Split(zones, c.zone, c.at)
          /\ IF strategy \in {"smart", "skipfail"}
               THEN Proceed(Lower(c.zone, c.at), TRUE)
               ELSE Proceed(Upper(c.zone, c.at), FALSE)
    /\ nbZones' = nbZones + 1
    /\ UNCHANGED stage

(* assert(entry->begin_lba < newentry->begin_lba < newentry->end_lba) *)
SplitAborts ==
    /\ ChooseZone
    /\ \E c \in Cuts : ~Inside(c.zone, c.at)
    /\ pc' = "aborted"
    /\ UNCHANGED <<process, interrupt, disk, history>>

GetTask ==
    \/ PlainTask
    \/ KeepZone
    \/ SmartTakeZone \/ SmartReadTheRest
    \/ SkipfailTakeZone \/ SkipfailGivesUp
    \/ SplitZone \/ SplitAborts

-----------------------------------------------------------------------------
(* The read of the block.  A failed SG_IO call makes Perform return 1, but    *)
(* the status it sets is overwritten by the one found in a command header     *)
(* that nobody filled in, which says the block is fine.                       *)
ReadGood ==
    /\ buf' = "source"
    /\ UNCHANGED <<errorFlag, report, ret>>

ReadBad ==
    /\ errorFlag' = TRUE
    /\ report' = [report EXCEPT !.status = "error"]
    /\ UNCHANGED <<buf, ret>>

IoctlFails ==
    /\ "ioctl" \in Faults
    /\ ret' = 1
    /\ UNCHANGED <<buf, errorFlag, report>>

(* A command the kernel gave up (a host or driver error) has no SCSI status:  *)
(* the SG_IO call returns 0 and the header says the block is fine.            *)
ReadLost ==
    /\ "lost" \in Faults
    /\ UNCHANGED <<buf, errorFlag, report, ret>>

Read ==
    /\ pc = "read"
    /\ ReadGood \/ ReadBad \/ IoctlFails \/ ReadLost
    /\ pc' = "write"
    /\ UNCHANGED <<settings, table, choice, progress, task>>
    /\ UNCHANGED <<interrupt, disk, history>>

(* The write of the block; one that fails may have written some sectors.      *)
WriteSectors(k) ==
    /\ dst' = [dst EXCEPT ![dest] =
                  [s \in Lba |-> IF s \in Block(task.lba, k) THEN buf ELSE @[s]]]
    /\ dstSize' = [dstSize EXCEPT ![dest] =
                      IF DstDevice[dest] = 0 /\ k > 0 /\ task.lba + k > @
                        THEN task.lba + k ELSE @]

Missed == {s \in TaskSectors : dst'[dest][s] # "source"}
Miss == missed' = [missed EXCEPT ![dest] = @ \cup Missed]
MissUnnoted == Miss /\ unnoted' = [unnoted EXCEPT ![dest] = @ \cup Missed]
MissNothing ==
    /\ missed' = [missed EXCEPT ![dest] = @ \ TaskSectors]
    /\ unnoted' = [unnoted EXCEPT ![dest] = @ \ TaskSectors]

WriteSkipped ==
    /\ errorFlag
    /\ UNCHANGED <<report, dst, dstSize, unnoted>>
    /\ Miss

(* mutant: the last sector of a block is not written *)
WriteAllButLast ==
    /\ ~errorFlag
    /\ WriteSectors(task.n - 1)
    /\ MissNothing
    /\ UNCHANGED report

WriteDone ==
    /\ ~errorFlag
    /\ WriteSectors(task.n)
    /\ IF buf = "source" THEN MissNothing ELSE MissUnnoted
    /\ UNCHANGED report

WriteFails ==
    /\ ~errorFlag
    /\ "write" \in Faults
    /\ \E k \in 0 .. task.n - 1 : WriteSectors(k)
    /\ MissUnnoted
    /\ report' = [report EXCEPT !.status = "error"]

Write ==
    /\ pc = "write"
    /\ WriteSkipped \/ WriteDone \/ WriteFails
    /\ pc' = IF useJournal THEN "journal" ELSE "use"
    /\ UNCHANGED <<settings, table, choice, progress, task, errorFlag, ret, buf>>
    /\ UNCHANGED <<interrupt, journal, journalFile, readahead>>
    /\ UNCHANGED <<runs, recordedTo, lapsed>>

(* mutant: the fate is taken from Perform's return value *)
TaskFateFromRet ==
    IF ret = 0 THEN "ReadOk"
    ELSE IF task.n = 1 THEN "SectorReadError" ELSE "BlockReadError"

(* The fate of the block's sectors, as the read alone decides it.             *)
TaskFate ==
    IF ~errorFlag THEN "ReadOk"
    ELSE IF task.n = 1 THEN "SectorReadError" ELSE "BlockReadError"

(* mutant: one sector too many *)
WriteJournalTooFar ==
    /\ pc = "journal"
    /\ pc' = "use"
    /\ journal' = [s \in Lba |-> IF s \in Block(task.lba, task.n + 1)
                                   THEN TaskFate ELSE journal[s]]
    /\ UNCHANGED <<process, interrupt, journalFile, dst, dstSize, readahead, history>>

WriteJournal ==
    /\ pc = "journal"
    /\ pc' = "use"
    /\ journal' = [s \in Lba |-> IF s \in TaskSectors THEN TaskFate ELSE journal[s]]
    /\ UNCHANGED <<process, interrupt, journalFile, dst, dstSize, readahead, history>>

(* The journal is written in full or an assertion stops the program. *)
JournalFails ==
    /\ "journal" \in Faults
    /\ \/ pc = "filling" /\ UNCHANGED journal
       \/ /\ pc = "journal"
          /\ \E k \in 0 .. task.n - 1 :
                journal' = [s \in Lba |-> IF s \in Block(task.lba, k)
                                           THEN TaskFate ELSE journal[s]]
    /\ pc' = "aborted"
    /\ UNCHANGED <<process, interrupt, journalFile, dst, dstSize, readahead, history>>

(* use_results: common_update_zones, then the strategy's own part.            *)
Failed == report.status # "ok"

ShrunkCur == Shrunk(cur, reverse, task.n, Failed)

(* mutant: nb_zones is left alone when a zone is used up *)
UpdateZonesNotCounting ==
    /\ zones' = Replaced(zones, cur, ShrunkCur)
    /\ nbZones' = nbZones

UpdateZones ==
    /\ zones' = Replaced(zones, cur, ShrunkCur)
    /\ nbZones' = IF ShrunkCur.begin = ShrunkCur.end THEN nbZones - 1 ELSE nbZones

(* Smart (before its last stage) and skipfail choose anew after a failure.    *)
ChooseAnewAtEnd == ShrunkCur.begin = ShrunkCur.end       \* mutant
ChooseAnew ==
    \/ ShrunkCur.begin = ShrunkCur.end
    \/ Failed /\ strategy \in SmartStrategies /\ stage = 0
    \/ Failed /\ strategy \in SkipfailStrategies

(* mutant: every strategy gives up at a failure *)
UseResultsAbort ==
    /\ pc = "use"
    /\ UpdateZones
    /\ cur' = IF ChooseAnew THEN NoZone ELSE ShrunkCur
    /\ ret' = IF Failed THEN 1 ELSE ret
    /\ progress' = [progress EXCEPT !.num = @ + task.n]
    /\ pc' = "callback"
    /\ UNCHANGED <<settings, reverse, stage, task, report, errorFlag, buf>>
    /\ UNCHANGED <<interrupt, disk, history>>

UseResults ==
    /\ pc = "use"
    /\ UpdateZones
    /\ cur' = IF ChooseAnew THEN NoZone ELSE ShrunkCur
    /\ ret' = IF strategy = "plain" /\ Failed THEN 1 ELSE ret
    /\ progress' = [progress EXCEPT !.num = @ + task.n]
    /\ pc' = "callback"
    /\ UNCHANGED <<settings, reverse, stage, task, report, errorFlag, buf>>
    /\ UNCHANGED <<interrupt, disk, history>>

(* The loop hands the report to the renderer and stops if Perform failed.     *)
(* mutant: the loop goes on when Perform failed *)
CallbackGoesOn ==
    /\ pc = "callback"
    /\ pc' = "loop"
    /\ UNCHANGED <<process, interrupt, disk, history>>

Callback ==
    /\ pc = "callback"
    /\ pc' = IF ret = 0 THEN "loop" ELSE "closing"
    /\ UNCHANGED <<process, interrupt, disk, history>>

(* mutant: the readahead is not restored *)
CloseOnly ==
    /\ pc = "closing"
    /\ Idle
    /\ UNCHANGED <<disk, history>>

Close ==
    /\ pc = "closing"
    /\ Idle
    /\ readahead' = oldReadahead
    /\ UNCHANGED <<journal, journalFile, dst, dstSize, history>>

-----------------------------------------------------------------------------
(* The main thread asks the loop to stop when a signal arrives. *)
Interrupt ==
    /\ pc \notin {"closed", "filling", "syncing", "closing", "aborted"}
    /\ ~interrupt
    /\ interrupt' = TRUE
    /\ UNCHANGED <<pc, process, disk, history>>

(* The process dies, of itself or after an assertion failed. *)
Crash ==
    /\ pc # "closed"
    /\ Idle
    /\ lapsed' = TRUE
    /\ UNCHANGED <<disk, runs, recordedTo, missed, unnoted>>

(* The machine is restarted in good order: the process is gone and the        *)
(* device has its default readahead.                                          *)
Reboot ==
    /\ Idle
    /\ readahead' = "on"
    /\ lapsed' = FALSE
    /\ UNCHANGED <<journal, journalFile, dst, dstSize>>
    /\ UNCHANGED <<runs, recordedTo, missed, unnoted>>

(* The machine loses its power.  The journal's size is safe once it was       *)
(* synced; any fate or data written since may not have reached the disk (a    *)
(* destination file keeps its size).                                          *)
Survives == IF journalFile = "synced" THEN {"synced"}
            ELSE IF journalFile = "filled" THEN {"absent", "partial", "synced"}
            ELSE {"absent", journalFile}

PowerLoss ==
    /\ "power" \in Faults
    /\ Idle
    /\ readahead' = "on" /\ lapsed' = FALSE
    /\ journalFile' \in Survives
    /\ recordedTo' = IF journalFile' = "absent" THEN {} ELSE recordedTo
    /\ \E l \in Lost :
          journal' = [s \in Lba |-> IF journalFile' = "absent" \/ s \in l
                                      THEN "Unread" ELSE journal[s]]
    /\ \E l \in Lost :
          /\ dst' = [d \in Destinations |->
                       [s \in Lba |-> IF s \in l THEN "none" ELSE dst[d][s]]]
          /\ missed' = [d \in Destinations |->
                          missed[d] \cup {s \in l : dst[d][s] = "source"}]
          /\ unnoted' = [d \in Destinations |->
                          unnoted[d] \cup {s \in l : dst[d][s] = "source"}]
    /\ UNCHANGED <<dstSize, runs>>

Step ==
    \/ FillJournal \/ SyncJournal
    \/ LoopEnds
    \/ GetTask
    \/ Read \/ Write \/ WriteJournal \/ JournalFails \/ UseResults
    \/ Callback
    \/ Close

Next == Open \/ Step \/ Interrupt \/ Crash \/ Reboot \/ PowerLoss

Spec == Init /\ [][Next]_vars
FairSpec == Spec /\ WF_vars(Step)

-----------------------------------------------------------------------------
(* Types of the variables. *)
TypeRun ==
    /\ pc \in {"closed", "filling", "syncing", "loop", "read", "write", "journal", "use",
               "callback", "closing", "aborted"}
    /\ strategy \in {"plain"} \cup SmartStrategies \cup SkipfailStrategies
    /\ dest \in Destinations \cup {NoDestination}
    /\ dstEnd \in Nat
    /\ oldReadahead \in {"on", "off"}

TypeFlags ==
    /\ useJournal \in BOOLEAN /\ interrupt \in BOOLEAN
    /\ reverse \in BOOLEAN /\ errorFlag \in BOOLEAN

TypeTable ==
    /\ zones \subseteq Zone
    /\ nbZones \in Int
    /\ cur \in Zone \cup {NoZone}
    /\ stage \in {0, 1}
    /\ progress \in [num : Nat, den : Nat]

TypePerform ==
    /\ task \in [lba : Int, n : Int]
    /\ report \in [lba : Int, n : Int, status : {"ok", "error"}]
    /\ ret \in {0, 1}
    /\ buf \in {"source", "stale"}

TypeDisk ==
    /\ journal \in [Lba -> SectorStatus]
    /\ journalFile \in {"absent", "partial", "filled", "synced"}
    /\ dst \in [Destinations -> [Lba -> {"none", "source", "stale"}]]
    /\ dstSize \in [Destinations -> Nat]
    /\ readahead \in {"on", "off"}

TypeHistory ==
    /\ runs \in Nat
    /\ recordedTo \subseteq Destinations
    /\ missed \in [Destinations -> SUBSET Lba]
    /\ unnoted \in [Destinations -> SUBSET Lba]
    /\ lapsed \in BOOLEAN

TypeOK ==
    /\ TypeRun /\ TypeFlags /\ TypeTable /\ TypePerform
    /\ TypeDisk /\ TypeHistory

Running == pc \notin {"closed", "aborted"}

(* The zones of the table never overlap, nb_zones counts them and             *)
(* current_zone never points to a zone that left the list, through splits,    *)
(* removals and resumes.                                                      *)
TableSound ==
    /\ WellFormed(zones)
    /\ nbZones = Cardinality(zones)
    /\ cur # NoZone => cur \in zones

(* The table in memory and the journal on disk agree on what is unread at     *)
(* every step but the one between writing a block's fate to the journal and   *)
(* taking the block out of the table; so a crash loses no sector and a resume *)
(* starts from the same table.                                                *)
TableMatchesJournal ==
    Running /\ useJournal =>
        Covered(zones) = UnreadSectors(journal) \cup
                             (IF pc = "use" THEN TaskSectors ELSE {})

(* What progress says is left is the number of sectors in the table; the loop *)
(* therefore never asks a strategy for a task from an empty table, which      *)
(* every strategy would dereference.                                          *)
ProgressExact ==
    Running => progress.den - progress.num = Cardinality(Covered(zones))

(* A zone's end is called defective only next to a sector that failed, which  *)
(* the journal shows; and a run that just began misses no such end, so that   *)
(* what a run before it knew of a failure is rebuilt in full.                 *)
FailedAt(s) == s \in Lba /\ journal[s] \in ErrorStatus

FlagsJustified ==
    Running /\ useJournal =>
        \A z \in zones : (z.bdef => FailedAt(z.begin - 1)) /\ (z.edef => FailedAt(z.end))

FlagsRebuilt ==
    pc \in {"filling", "syncing", "loop"} /\ progress.num = 0 /\ useJournal =>
        \A z \in zones : (FailedAt(z.begin - 1) => z.bdef) /\ (FailedAt(z.end) => z.edef)

DefectFlagsJustified == FlagsJustified /\ FlagsRebuilt

(* The data is written first: a sector the journal calls read has its data in *)
(* a destination of the journal's runs, whenever the process dies, whatever   *)
(* calls fail.                                                                *)
CopiedBeforeRecorded ==
    \A s \in Lba : journal[s] = "ReadOk" =>
        \E d \in recordedTo : dst[d][s] = "source"

(* What the code keeps of that promise: a sector the journal calls read has   *)
(* its data in a destination of the journal's runs, or that destination lost  *)
(* it to a command that was not answered, a failed write or the power, none   *)
(* of which reaches the journal.  A sector whose read failed, one not read    *)
(* yet or one written to no such destination is never called read.            *)
Kept(d, s) == dst[d][s] = "source" \/ s \in unnoted[d]

RecordedWithReason ==
    \A s \in Lba : journal[s] = "ReadOk" => \E d \in recordedTo : Kept(d, s)

(* "Copies entire device to given destination": when a run ends with nothing  *)
(* left, its destination has every sector's data, but for those a call or the *)
(* power failed for; with a journal, as long as no run to another destination *)
(* used it, for the journal's name tells only of the source.                  *)
CompleteCopy ==
    pc = "closing" /\ zones = {} /\ (useJournal => recordedTo = {dest}) =>
        \A s \in Lba : dst[dest][s] = "source" \/ s \in missed[dest]

(* A journal that Open refuses has recorded nothing: to delete it and begin   *)
(* again, as the user must, loses nothing (a power loss may, if the process   *)
(* that filled it died before it synced it).                                  *)
RefusedIsFresh == journalFile = "partial" => UnreadSectors(journal) = Lba

(* A device left without readahead has the reason in a run that died or was   *)
(* refused since the machine started: every other run gives it back, and what *)
(* one run gives back is not what the run before it took.                     *)
ReadaheadExplained == pc = "closed" /\ readahead = "off" => lapsed

(* Smart (until its last stage) and skipfail read no block next to a failure  *)
(* they know of, unless a jump or a cut left distance to it.                  *)
AvoidsDefects ==
    pc = "read" /\ strategy # "plain" /\ stage = 0 =>
        IF reverse THEN ~cur.edef ELSE ~cur.bdef

(* A run stops for a reason: it was told to, there is nothing left, plain met *)
(* a failure, skipfail has only zones next to failures too short to jump      *)
(* into, or the destination was smaller than the device when it was opened (a *)
(* file that an earlier run began is).  The smart strategies leave nothing.   *)
StopsForAReason ==
    pc = "closing" =>
        \/ interrupt
        \/ zones = {}
        \/ dstEnd \in 1 .. EndLba - 1
        \/ strategy = "plain" /\ Failed
        \/ /\ strategy \in SkipfailStrategies
           /\ \A z \in zones : z.bdef /\ ~SkipfailJumpable(z)

(* No assertion of the zone bookkeeping stops the program. *)
NoAbort == pc # "aborted"

(* Nothing is recorded of a sector that no destination of the journal's runs  *)
(* has room for, so that a later run to a larger one still copies it.         *)
SpaceRespected ==
    \A s \in Lba : journal[s] # "Unread" =>
        \E d \in recordedTo : DstDevice[d] = 0 \/ s < DstDevice[d]

(* Every run ends, whatever the sectors answer. *)
RunEnds == Running ~> ~Running

(* Copying with a journal or without one, by any strategy, across stops,      *)
(* crashes, failing calls and power losses, implements the promise of         *)
(* CopyIdeal; only a power loss makes the journal forget a fate.              *)
Fate(status) ==
    CASE status = "Unread" -> "unread"
      [] status = "ReadOk" -> "copied"
      [] OTHER -> "failed"

Ideal == INSTANCE CopyIdeal WITH
    fate <- [s \in Lba |-> Fate(journal[s])],
    handed <- {s \in Lba : \E d \in Destinations : Kept(d, s)},
    Forgetful <- "power" \in Faults

IdealSpec == Ideal!Spec
=============================================================================
