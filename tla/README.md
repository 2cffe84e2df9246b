# Verification of whdd

whdd is a diagnostic and recovery tool for hard disks: it reads, verifies,
copies and zeroes block devices and shows what happens to each block. This
directory holds TLA+ modules that model it, the configurations that TLC checks
and the theorems that TLAPS proves. Source references are to files below `src/`.

1. [The system](#1-the-system)
2. [Modules and plan](#2-modules-and-plan)
3. [The modules and the code](#3-the-modules-and-the-code)
4. [What is checked](#4-what-is-checked)
5. [What is proved](#5-what-is-proved)
6. [Where the code and its texts differ](#6-where-the-code-and-its-texts-differ)
7. [What is not modelled](#7-what-is-not-modelled)

## 1. The system

Two programs, `whdd` (curses, `cui/`) and `whdd-cli` (`cli/`), sit on one
library, `libdevcheck/`. A program lists the devices, asks for one and for a
*procedure* (copy, read_test, posix_write_zeros, hpa_set, smart_show), asks for
the procedure's options and opens it. A procedure with a `perform` then runs in
a thread of its own: a loop calls `perform` for one block at a time and a
callback for each block's report. In whdd the callback puts the report into a
renderer's ring, from which the renderer's thread draws. The main thread
meanwhile sleeps and looks at two flags; a signal (Ctrl+C) sets one of them.

| component | its state | its operations | what makes it correct |
|---|---|---|---|
| copy (`copy.c`) | journal file, destinations, readahead setting; progress; the block under way | Open (create, fill and sync the journal, or resume from it), Perform (read, write, journal, use), Close | a sector is journalled as copied only if its data was handed to the destination; a stop or a death loses no sector; a run that leaves nothing unread has copied the device; what is left is what progress says |
| read strategies (`copy_read_strategies.c`) | list of unread zones with defect flags, `nb_zones`, `current_zone` and its direction, smart's stage | get_task and use_results of plain, smart, smart_noreverse, skipfail, skipfail_noreverse | the zones are a partition of what is unread; the pointer stays in the list; defects are avoided; the run ends for a reason |
| read_test (`read_test.c`) | the counters of a run, the descriptor's position, readahead | Open, Perform (ATA verify or read), Close | each sector is told of once, as it was found; the descriptor and the report agree |
| posix_write_zeros | the counters of a run, the descriptor's position | Open, Perform, Close | zeros go where the report says, whatever failed before; the run ends with the device |
| hpa_set (`hpa_set.c`) | the device's reach | Open, with two commands | the reach changes only as was agreed |
| procedure loop (`procedure.c`) | progress, interrupt, finished | the loop, the detached thread | the loop ends; nothing runs on a freed context |
| perform until interrupt (`utils.c`, `render.c`) | signal handlers, `termination_signal_caught`, three threads | set up, spawn, poll, join, close | a run can always be stopped, and ends when it is told to |
| report ring (both renderers) | slots, two indices, `order_hangup` | handle_report; the renderer's thread | every report is drawn once and in order; the end waits for the last one |
| sliding window (`sliding_window_renderer.c`) | counters by access time and by error, bytes, speed, remaining time, the figures on the screen | handle_report; render_queued, render_update_stats; Close | the last figures account for every block; the remaining time does not wrap |
| map and counters (`whole_space_renderer.c`) | a status per display block, counters | Open from the journal, update from reports | map and counters agree with the journal and the zone table |
| ATA over SCSI (`ata.c`, `scsi.c`) | one command and its answer | prepare, fill in the descriptor, make a status | the sectors meant are the sectors asked for; no failure looks like success |
| menus and device list (`cui/main.c`, `cli/main.c`, `libdevcheck.c`) | the list, the choice, the answers | list, choose, confirm, answer the options, open | nothing invasive begins without its answers; the list is true |

**How they interact.** The menus open a procedure through the framework, whose
loop calls the procedure and the renderer's `handle_report`. The main thread
shares `interrupt`, `finished` and the signal flag with the procedure's thread
and the handler; the procedure's thread shares the ring with the renderer's.
Copy and its map share the journal file: the map is filled from it when a run
is resumed. Every device command goes through ATA over SCSI. hpa_set changes
the capacity that the device list shows and every procedure takes as its end.

**What is hard.** A process may die between any two system calls of copy, and
the journal must still be worth resuming from; a power loss may besides take
what was written since the journal's one sync. The journal is named after the
source, so several destinations may come to share it. Long sequences of
failures, cuts, removals and resumes move zone bounds, flags, counts and a
pointer separately. Three threads and a signal handler share plain variables
without a lock. A read or write that fails leaves a descriptor anywhere, and
everything after it depends on the lseek that follows. One block has one report
and several calls that may fail. `PROJECT.json` lists these hazards by line,
with the properties that would catch them.

## 2. Modules and plan

| order | module | what it is | composed with |
|---|---|---|---|
| 1 | `CopyZones` | the zone table as operators | |
| 2 | `Copy` | the copy procedure with its strategies, journal, crashes | extends `CopyZones`; implements `CopyIdeal` |
| 3 | `CopyTheorems` | lemmas on the table; the inductive invariant of `Copy`; strategies, ends, destinations; `CopyIdeal` is implemented | extends `Copy` |
| 4 | `ReportRing` | the ring between the two threads | implements `ReportQueue` |
| 5 | `ReportRingTheorems` | the ring is a queue | |
| 6 | `CopyScreen` | copy, the queue of reports and the map together | extends `Copy`, with the ring as the queue it implements |
| 7 | `Session` | main thread, procedure's thread, renderer's thread, signals | |
| 8 | `WriteZeros` | posix_write_zeros under the loop | implements `BlockScan` |
| 9 | `WriteZerosTheorems` | the invariant and the implementation | |
| 10 | `ReadTest` | read_test under the loop, both apis | |
| 11 | `Frontend` | menus, device list, hpa_set | |
| 12 | `AtaPassThrough` | one command after another, and its status | |
| 13 | `WholeSpaceCounters` | what two threads count of the statuses, load by load and store by store | extends `AtaPassThrough` |
| 14 | `ReadTestScreen` | read_test and the sliding_window renderer together | extends `ReadTest`, with the ring as the queue it implements |
| 15 | `SessionTheorems`, `FrontendTheorems`, `AtaPassThroughTheorems` | one invariant each, and what follows; the last one's also of the counters | the last extends `WholeSpaceCounters` |
| 16 | `ReadTestTheorems` | read_test alone, then under its renderer | extends `ReadTestScreen` |
| 17 | `CopyScreenTheorems` | the map and its counters | extends `CopyScreen` and `CopyTheorems` |

All of these exist. `MC*` modules and their `.cfg` files instantiate them for
TLC. Three abstract specifications say what a component promises: `CopyIdeal`
(every sector has one fate, told once, and "copied" only of what was handed to a
destination), `ReportQueue` (every report shown once, in order, none left at the
end) and `BlockScan` (every sector from the start on tried once, in order, and
told as it was found).

What comes next, in this order:

1. `CopyScreen` under smart, whose blocks meet parts of two display blocks, and
   after a power loss or a failed write of the journal, which may leave a
   block with two fates.
2. The other words that a renderer's two threads share without a lock (the map's
   cells are one thread's, `cur_lba` and the remaining time are not), as loads
   and stores.

## 3. The modules and the code

### Copy and CopyZones

`CopyZones` has the zone list as a set of zones. The code's list is always in
the order of the zones' addresses and its zones are disjoint, so the set and
`First` (the earliest zone) say the same; `TableSound` checks it. `Parse` is
the scan of the journal in Open, `Middle` and `JumpTarget` are the cuts of smart
and skipfail with the alignment to a block and the int arithmetic of
`skip_blocks` (`IntLimit`), `Shrunk` and `Replaced` are `common_update_zones`.

One action of `Copy` is one system call of the handler with what follows it up
to the next one: `pc` names the place. A turn of the loop is GetTask (with the
strategy's choice), Read, Write, WriteJournal, UseResults and Callback. `Crash`
may come at any `pc` and leaves the journal, the destinations and the readahead
as they are; `Reboot` also puts the readahead back. `Faults` adds calls that
fail: the ioctl, the write, the journal's write (an assertion) and the opening
of the destination (an assertion). Its `"lost"` is not a failing call: the
kernel gives up a command for a host or driver error, the SG_IO call returns 0
and the SCSI status is 0, which is all `scsi.c:69` looks at (`ReadLost`). The
block then counts as read and what is in the buffer is written and journalled.

`journalFile` is what a later Open finds of the journal: `"absent"`, `"partial"`
(created, its pages not yet written), `"filled"` (it has its size) or
`"synced"`. An Open that finds it partial is `OpenRefused`; filled and synced
ones are resumed from. `SyncJournal` is the one fdatasync of the procedure
(`copy.c:234`). `PowerLoss` is where the states differ: of a synced journal the
size survives, of a filled one any earlier state may be found, and any set in
`Lost` of the fates and of the data written since may be gone, each on its own,
as neither the journal nor the destination is synced again.

A destination is a device of `DstDevice` sectors or a file that grows. The user
picks one at every Open, while the journal's name tells only of the source:
`recordedTo` remembers the destinations whose runs used the journal since it was
created, and `missed` the sectors that a destination lacks because a read, a
write or the power failed. `unnoted` is the part of `missed` that the journal
does not know of: a write that failed, a buffer that was written although its
read was never answered, data that a power loss took. These three and `lapsed`
(a run died or was refused since the machine started) are history, which no
action of the code reads. The
content of a sector is abstracted to whether the destination holds the source's
data (`"source"`), something else that was in the buffer (`"stale"`) or nothing.

`CopyIdeal` has a fate for each sector and `handed`, the sectors whose data a
destination holds or lost without notice. "Copied" is told only of sectors of
`handed`, and only a power loss (`Forgetful`) makes it forget a fate.

### ReportRing

One action is one access to the shared slots and indices. A slot that is being
copied is `Torn`. `made` numbers the reports. The two stores of `handle_report`
(the copy of the report and the move of the index) are neither atomic nor
fenced: with `InOrder = FALSE` the reader may see the index first.
`MaxBacklog` bounds how far the renderer may fall behind; the code has no such
bound, only 100*1000 slots and a renderer that looks 25 times a second.

### CopyScreen

The map and its three counters beside `Copy`, with the ring as a queue, which
`ReportRingTheorems!RingImplementsQueue` justifies as long as the renderer keeps
up. `OpenScreen` fills both from the journal's byte of each block's first
sector; `DrawReport` is `update_blocks_info`. `CellDrawn` is what `render_map`
makes of a cell, which has several blocks. Signals and crashes come from `Copy`;
the renderer's thread is assumed to end only when the queue is empty, which is
`ReportRing`'s `NothingLeft`.

### Session

The main thread follows main, `render_procedure` and
`procedure_perform_until_interrupt` call by call; `main` names the next one. The
handler may be entered in any living thread, between any two steps of the
others, and it ends with the restoring of the default actions. A context is
`"none"`, `"open"` or `"freed"`. The module abstracts from the work: `Perform`
may fail or succeed, and work may or may not be left. `Faults` lets the screen
or the thread fail to open; `mishap` remembers that one did, and `orphan` that a
renderer's thread was left drawing.

### WriteZeros and ReadTest

A run under the loop of `procedure.c`, one action per Perform. `position` is the
descriptor's, which a failed or short write leaves anywhere in the block until
the lseek. `fate` is what the device did at each sector and `told` what the
reports said. Quotients are C's (towards zero) and `progress.den` is unsigned
(`UintLimit`). A failed ioctl of ReadTest sets `stop`, as the loop ends when
Perform returns an error. A verify that the kernel gave up (`VerifyLost`, fate
`"lost"`) is told as good, and the run goes on.

### ReadTestScreen

The callback (`PerformShown`, in the procedure's thread) times the command,
counts its bytes and, every `StatsEvery` blocks, divides them into a speed and a
remaining time, in milliseconds and in unsigned arithmetic (`UintLimit`). The
renderer's thread takes what was queued when it looked (`DrawQueued`) into the
counters by access time or error and puts the figures on the screen
(`UpdateStats`); it may do either at any time between two blocks, or not at all
until it is asked to end. `CloseScreen` is the last look, after the procedure's
thread was joined. A failed ioctl's block counts as the report calls it.

### Frontend

The questions before an invasive procedure, its options, the device list,
hpa_set's two commands and the world around them: devices are mounted and
unmounted, and the program may die anywhere and be started again. `entries` is
what the list holds of each device, `size` what the device really lets be
reached. A device of `Failing` may fail the commands the list asks it, and
`unknown` remembers which did: an IDENTIFY that fails makes a disk none, or
leaves the capacity of /proc/partitions; of a READ NATIVE MAX an ioctl that
fails leaves 0, while an answer that reports an error is read for its address
all the same (`utils.c:201`). `Misread` holds the capacities that an answer
which says nothing is read as. `Sent` is what a command says of an address, its
low six bytes (`ata.c:17`), with `LbaLimit` for 2^48. `Answers` is what asking
for an option may give: typed, taken from `~/.whddrc`, or the value the
procedure suggests from the list. `LongerNames` is there because a mount is
looked for by the beginning of a line of `/etc/mtab`: a mounted `sdaa` makes
`sda` look mounted too.

### AtaPassThrough

A byte has `Base` values. `AtaCommand` and `ScsiCommand` are the code's,
`DeviceLba`, `DeviceCount`, `ReturnedBytes`, `Answer` and `GivenUp` are the
layout of ATA PASS-THROUGH (16) and its return descriptor, which is outside the
repository. `truth` is what really came of the command. `ckCond` is the CK_COND
bit, which copy clears (`copy.c:292`): a command that was done then has no sense
data, and one that was done late is told like any other.

### WholeSpaceCounters

The whole_space renderer's statistics beside those commands. `HandleReport` adds
a block's bytes to `bytes_processed` in the procedure's thread (`LoadBytes`,
`StoreBytes`) before it queues the report (`Enqueue`); the renderer's thread
takes reports and counts failures (`TakeReport`, `StoreCount`). `word` has the
words of the structure from `error_stats_accum` on: the array has six elements,
and element 6, which eAmnf counts in, is `bytes_processed` itself. Each load and
each store is a step of its own, so either thread may store over what the other
has stored. That the compiler lays the members out one after the other and does
not keep one in a register is assumed, as in the builds the repository makes.
The other statistics of `HandleReport` are left out.

`PROJECT.json` maps every definition to the lines it models.

## 4. What is checked

| run | what it asks | bounds |
|---|---|---|
| `copy` | types; table sound; table = journal; progress exact; flags justified, and rebuilt by a resume; a refused journal is fresh; readahead explained; defects avoided; stops for a reason; no assertion fails; every run ends | 9 sectors in blocks of 2, zones cut above 4 sectors, at most 3 zones, jumps of 1 block, one destination, two runs with all five strategies |
| `copy_faults` | with every failing call, lost commands, power losses and a choice of destinations: a complete run has copied, nothing recorded beyond a destination, nothing recorded as read without a reason, implements CopyIdeal | 4 sectors in blocks of 2, zones cut above 4 sectors, jumps of 0, a device a sector short and a file, losses of nothing or of the first half, two runs of smart and skipfail |
| `copy_write_failure` | violated: copied before recorded, when a write fails | 5 sectors, smart |
| `report_ring` | reports drawn in order, implements ReportQueue, whose end leaves nothing | 4 slots, backlog 3, 9 reports |
| `report_ring_unordered` | ends, even when the stores are seen swapped and the backlog fills the ring | 3 slots, backlog 3, 7 reports |
| `copy_screen` | with failing ioctls and lost commands: cells and counters true | 11 sectors in blocks of 3 (a last block of 2), 2 blocks per cell, two runs, queue of 2 |
| `session` | threads outlive nothing they use; a run can be stopped; the menu is quiet; a run ends when asked | any number of runs, 3 signals, both programs, all faults |
| `write_zeros` | in step; all told; implements BlockScan; ends | 10 sectors in blocks of 3, every start |
| `read_test` | under its renderer: counts agree; all told; at most one block behind; readahead restored; the screen accounts for every block; the remaining time does not wrap | 10 sectors in blocks of 3, every start and two behind the end, both apis, failing ioctls and lost commands; commands of 2999, 3000 and 20000000 microseconds, an estimate every 2 blocks, counters of 10^6 |
| `read_test_posix` | violated: after a failed read the descriptor stands at the next block | as above, posix |
| `frontend` | invasive only as agreed; reach explained; whdd-cli's list true | one device of each sort, 3 sectors, five addresses of which a command says the remainder by 4, one disk that fails what the list asks it, SET MAX that fails, one name that begins another |
| `ata_pass_through` | address and count carried; failures told; the bytes counted are those reported, as far as eAmnf lets them | bytes of 2 values, three addresses in which no two bytes are alike, counts of 0, 1 and a byte's worth, with CK_COND and without, two blocks and any number of other commands |

Each property has a mutant: a changed definition, written beside the true one
and named "mutant" in its comment, under which TLC finds the property violated.

**Why the bounds are enough.** A zone is cut into at most two and a cut is of
interest when both parts can be cut or not: nine sectors in blocks of two have a
cut, a cut of a part, a short last block and zones that backward reading leaves
unaligned, and three zones reach the limit of the table. Two runs give every
journal that a first run, stopped anywhere, can leave; two runs are also what it
takes for a journal to be shared or lost. In `copy_faults` most parameters lie
at their edge: two blocks, a limit of two zones, jumps of no length, a
destination one sector short of the last block; what a block's read, write and
record leave behind when one of them fails does not depend on how many more
blocks there are, and cuts are `copy`'s. A loss that takes a part and leaves a
part, in the journal, the destination or both, has every case that the
properties tell apart, as they look at one sector at a time. In the ring, two
turns and one report make every slot be written over and read again. Ten sectors
in threes make starts for which the last block is of each size. 2999 and 3000
microseconds lie on either side of the legend's first limit, twenty seconds
beyond the last one and long enough for whole seconds to count in the remaining
time, and four blocks give two estimates. In `AtaPassThrough` the code moves
bytes about whole, so three addresses that tell the six bytes apart show where
each goes. Two blocks are enough for a count of an eAmnf to race with the bytes
of the next block, and any word that is stored over is so by one thread's one
store. In `Frontend` the addresses go past both the device's end and the six
bytes, so that one is cut to an address the device has. `MaxRuns`, `MaxReports`,
`MaxSignals`, `QueueBound`, `Durations`, `Lost`, `Mountable` and `Failing` are
the only bounds that the code does not have.

**Fairness.** Every liveness property assumes weak fairness of a thread's own
steps: the operating system schedules the procedure's thread (it is started with
its own scheduling policy), the renderer's and the main thread, and each system
call returns. That covers a read of a failing sector, which the drive or the
kernel gives up after its timeout. Nothing is assumed of signals, of the user
or of opening another run. In `ReportRing` the procedure may make reports for
ever; only what it has begun to hand over is finished. The runs of `copy` end
whatever the sectors answer (`RunEnds`); a read that is lost or a call that
fails takes the same way through the loop, or ends it. `CopyScreen`, `ReadTest`,
`ReadTestScreen`, `Frontend`, `AtaPassThrough` and `WholeSpaceCounters` are
checked for safety alone.

`CHECK_DEADLOCK FALSE` stands where the system may stop: at the bound on runs,
reports and signals, or because the program was killed.

## 5. What is proved

All proofs are for every value of the constants that the modules' assumptions
allow; no bound on runs, reports or sizes. Every safety property, action
property and refinement that a passing run checks is the statement of a theorem,
some under a proviso on the faults or the sizes that is named here and in the
theorem's ASSUME. Where a proviso is needed, §6 has the case behind it.

**Copy: table and journal** (`CopyTheorems`). Type correctness, `TableSound`,
`TableMatchesJournal`, `ProgressExact` and `ReadOnce`, for every device, block
and zone size, every option `skip_blocks`, every strategy, every set of
destinations and of faults, power loss included; `RefusedIsFresh` for every
fault but a power loss (a process may die before it syncs a journal it filled,
and a power loss after a later run take the size of it). None of them is
inductive alone. `IInv` adds that the task under way is the block at the end of
the current zone that is read next (`TaskAtEnd`: without it a shrunk zone could
be anything), that a block's sectors are no longer unread once its fate is in
the journal (`FateTold`), that a journal in use was filled (`JournalInUse`,
`JournalFresh`: a resumed run reads what a run wrote, a new one finds every
sector unread), and that an idle process has an empty table. The lemmas before
it show that parsing, cutting, shrinking and removing keep a table well formed,
say what each of them covers, and count the zones. `TaskFromTable` follows: the
loop never asks a strategy for a task when the list it would dereference is
empty.

**Copy: strategies and ends**, each on top of `IInv`:

| theorem | states | holds for | what had to be added |
|---|---|---|---|
| `DefectsAreAvoided` | `AvoidsDefects` | every fault | a task is at an end of the zone that the strategy may read (`EndIsSound`) |
| `FlagsAreJustified` | `DefectFlagsJustified`, both halves: no flag without a failure, and none missing when a run begins | every fault but a failing write | `errorFlag` and the report agree on the block under way (`StatusAgrees`), and its fate is in the journal before the table is told (`FateRecorded`). A failed write makes the table take the block for a failure that the journal does not have |
| `NothingAborts` | `NoAbort` | jumps no shorter than a block, and no failure of the journal's write or of the destination's opening | a cut's parts are not empty. The excluded cases are assertions that do fail (`skip_blocks = 0`) |
| `RunsStopForAReason` | `StopsForAReason` | every fault but a failing ioctl, with which Perform gives up | a Perform that gave up had one of the reasons (`WhyPerformFails`) |
| `ReadaheadIsExplained` | `ReadaheadExplained` | every fault | an open copy owes the device its readahead, and saved it "on" unless an earlier run lapsed (`ReadaheadOwed`) |

**Copy: destinations.** `CompleteCopy`, again for every fault. A run ends
knowing only its table, so the invariant `DataInv` has to carry the data from
the write to the end by way of the journal: a sector that has left the table is
held by the destination or missed for a reason (`LeftBehind`), one that the
journal has a fate for likewise, as long as one destination used the journal
(`RecordKept`: with it a resumed run may leave such sectors out), and so is the
block between its write and its record (`BlockHeld`). The proviso is needed: the
second destination of a shared journal lacks what the first one got. That an
Open adds its destination before anything is recorded (`DestChosen`) ties the
three together. `SpaceRespected`, for every fault: a device keeps its size
(`DevicesKeepSize`), Open found it (`EndKnown`), and a task that reaches the
read fits in (`TaskFits`).

`RecordedWithReason` and the refinement `Spec => IdealSpec` hold for every
fault. The first says what the journal's "read" is worth when calls fail: the
sector's data is in a destination of the journal's runs, or that destination
lost it to a command that was not answered, a failed write or the power; it is
never said of a sector whose read reported an error or that was not read.
`KeptInv` follows the reason through the block under way, and into the journal
that later runs share. `CopyIsIdeal` maps each step to a hand-over, a telling, a
forgetting or a stutter of `CopyIdeal`; it needs `FateTold` for "once".
`CopiedBeforeRecorded`, the promise without the reasons, is proved
(`CopiedFirst`) under `CallsAnswered`: no ioctl and no write fails, no command
is given up and the power stays on (reads may fail, processes may die, journals
be shared). Without it the code breaks the promise, which the run
`copy_write_failure` shows for the write and §6 tells for the others.

**CopyScreen** (`CopyScreenTheorems`). `ScreenSpec => Spec` first: what is
proved of a copy holds under its screen. Then two invariants of what the two
threads share.

- `BlockInv`: where a zone begins and ends a display block begins or ends
  (`TableAligned`), backward reading keeps to that (`BackAligned`), and the
  journal has one fate for a whole display block (`JournalUniform`).
- `QueueInv`: the reports on their way are about different display blocks, none
  of which is still in the table.

`CountsAgree` follows with `CountInv`: the number beside unread space counts
the sectors that are in the table or that a queued report is about. It assumes
strategies other than smart (`KeepsToBlocks`: smart reads the end of the device
backward, from where no display block need end), no half-written journal
(`JournalWhole`: no power loss, no failed write of the journal), a last display
block that is not whole (else the counters leave it out, §6) and a device whose
sectors the counter can hold; reads, ioctls and writes may fail. `CellsTruthful`
follows with `MapFollows` (the map has what the journal has of a block that no
report is about), `ReportsTold` (a report says what the journal says) and
`NoSingles`; it assumes `KeepsToBlocks`, `JournalWhole`, no failing write, and
blocks longer than a sector (`LongBlocks`: a failed block of one sector is
journalled with a status that the map does not draw, §6).

**ReportRing** (`ReportRingTheorems`), under `Speeds`: the stores are seen in
order and the backlog is smaller than the ring. The invariant `RInv` says of
every queued report that it is in its slot (`Kept`), which a store into the next
slot spares because numbers less than a ring apart have different slots
(`SlotsDiffer`). From it follow `NeverAhead`, `DrawnFaithfully`, `NothingLeft`
(which no run repeats: `QueueSpec` has it) and that the ring implements
`ReportQueue`, step by step. `Speeds` is an assumption about the machine, not
something the code makes sure of.

**WriteZeros** (`WriteZerosTheorems`), under `Inside`: `start_lba` is a sector
of the device or its end, and the device's size fits the counter. `ZInv` says
that the blocks written so far and the sectors left make up the run and that the
descriptor stands between them (`Counters`), and that all before it was told
(`ToldSoFar`). The work is in `BlocksCover`: the quotient rounded up is enough
blocks and not one too many. Type correctness, `InStep`, `AllTold` and `Spec =>
ScanSpec` follow.

**Session** (`SessionTheorems`), for any number of runs and signals, both
programs and every fault: `WorkerHasContext`, `WatchedCanBeStopped`,
`MenuIsQuiet`. The invariant is a map of the session: at which place of the main
thread the context is open, the threads live and the handlers are set
(`Ownership`), that a handler runs only in a thread that lives
(`HandlersHaveThreads`), and, as long as nothing failed to open, that no handler
of an earlier run is left to take a later run's handlers back (`Tidy`).

**ReadTest and ReadTestScreen** (`ReadTestTheorems`), for every device and block
size, every start that read_test accepts on the device or behind it, both apis
and failing ioctls and lost commands: `CountsAgree`, `AllTold`,
`OneBlockBehind`, `ReadaheadRestored`. `AllTold` names the two cases in which
the ata api tells "good" of what the device did not say: a command the kernel
gave up and the block whose ioctl failed. `Counters` and `ToldSoFar` are to
read_test what they are to posix_write_zeros, but the descriptor may be one
block behind. The screen is shown to implement the read test, so these carry
over; on them `ScreenAccounts` needs that times and errors in the counters and
in the queue add up to the blocks told at every moment (`OnAccounts`), and that
a screen that ended has drawn all of it (`EndedIsDrawn`). `EtaSound` rests on
`OnAccounts` too, which has the bytes counted: as they never pass the capacity,
the whole device takes no less time at their speed than has elapsed, in spite of
two roundings (`EtaBounded`), so the unsigned difference does not wrap.

**Frontend** (`FrontendTheorems`), for any set of devices, names and answers:
`InvasiveAgreed`, `CliListFresh` and the action property `ReachExplained`. The
invariant says which answers each question has behind it (`Agreed`) and what a
list knows of the disks that answered (`ListRead`: their native size, and in
whdd-cli's menu how far they reach); `SetMaxReach` gives what a SET MAX of any
address, one the device refuses or that is cut to six bytes included, does to
the reach, and `UnlockReach` that hpa_set's first step gives the whole device
or, when a command of the list's had failed, what was read then (an address that
is in reach is not cut: `SentWhole`).

**AtaPassThrough and WholeSpaceCounters** (`AtaPassThroughTheorems`), for any
number of values of a byte: `AddressCarried`, `DefectsTold`, `BytesWithin`. Six
bytes make up the address they were taken from (`BytesMakeIt`, by way of
`LowByte`: a number is its low byte and what is above it), `AnswerTold` goes
through the answers in both sense formats, with CK_COND and without, and the
invariant holds the command, the answer and the status together from one step to
the next (`Asked`, `Sent`, `Told`). The counters only watch
(`CountersOnlyWatch`), so this carries over to them. `BytesWithin` needs what is
in the two threads' registers: before the first eAmnf is reported only the
procedure's thread stores to the bytes, and later a register is no older than
that first report.

**Only model-checked**: liveness (`RunEnds`, `Ends`, `RunEndsWhenAsked`), which
is out of the prover's reach; and the runs that expect a violation. No module
uses RECURSIVE operators.

## 6. Where the code and its texts differ

Two differences have runs, which TLC finds violated:

- `copy_write_failure`: a block whose write to the destination failed is
  journalled as read; no later run copies it (`copy.c:353`; the status is reset
  by what the read said).
- `read_test_posix`: after a failed read the descriptor is set to the block that
  failed, not to the next one (`read_test.c:147`), so from then on each block's
  report tells of the block before, and the last block is never read.

The others were met while modelling. The models do what the code does, and the
properties leave these cases out by a stated proviso or bound:

- A copy's ioctl that fails is told and journalled as a good read, and a stale
  buffer is written (`copy.c:320`: the status comes from an untouched header);
  read_test's tells the block as read in the same way (`read_test.c:143`).
- A command that the kernel gave up (a host or driver error, such as a reset of
  the link) has a SCSI status of 0, which is all `scsi.c:69` looks at, and is
  told as done; here the call itself succeeds and nothing stops the run. A copy
  writes its stale buffer and journals ReadOk; no later run copies the block. A
  read test calls it good. `RecordedWithReason` and `AllTold` name these cases.
- A copy never tells that a command took too long: it clears CK_COND
  (`copy.c:292`), so that a late command comes without sense data and is judged
  before the time is (`scsi.c:69`).
- A copy to a file that stopped early cannot be resumed: the file's present size
  is taken for the limit of the destination (`copy.c:272`). A destination device
  of `Copy` has its real size.
- A death while the journal is filled leaves one that every later Open refuses
  (`copy.c:156`; `OpenRefused`), as does a change of the device's reach by
  hpa_set between two runs. The failure path of Open restores the readahead
  through a descriptor it has closed (`copy.c:248`), so it stays off.
- The journal's name tells only of the source (`copy.c:144`). A copy to a second
  destination resumes from the first one's journal and leaves out what that one
  got; as the suggested destination is `/dev/null` and the suggested use_journal
  is yes, accepting the suggestions once is enough. `CompleteCopy` and
  `SpaceRespected` speak of journals that served one destination, or of all the
  destinations a journal served.
- The journal is synced once, after it was filled (`copy.c:234`), the
  destination never. After a power loss a sector may be journalled as read whose
  data did not reach the destination; `missed` holds these. A process that dies
  between the filling and the sync leaves a journal that a later run resumes
  from and never syncs, so that a power loss may take all of it.
- smart reads backward from the middle after a cut, not forward as its help says
  (`copy_read_strategies.c:117`, `copy.c:411`).
- `skip_blocks = 0` fails the assertion of the cut at the first read error
  (`copy_read_strategies.c:209`; `SplitAborts` in `copy_faults`).
- On the map of a resumed run: a last block of one sector that failed is drawn
  as copied (`whole_space_renderer.c:295` takes over status 3, `render_map`
  knows 2); on a device of whole blocks the last one is missing from the
  counters (`:298`); a Perform that gives up hands the last report over again,
  or in a run that gives up at once a report of nothing at sector 0, which draws
  the first block as copied (`procedure.c:118`). `CellsTruthful` and
  `CountsAgree` are therefore stated as long as Perform has not failed.
- A renderer that falls 100*1000 reports behind draws later reports for the
  ones it missed (`whole_space_renderer.c:71`).
- A signal that arrives as a run finishes stays in `termination_signal_caught`
  and aborts the next run (`utils.c:163`). The outcome "Aborted." or
  "Completed." is read from a context that was freed (`render.c:33`). A thread
  that cannot be created leaves the handlers set and the renderer drawing
  (`utils.c:160`), and a renderer that cannot open leaves the procedure open
  (`render.c:28`).
- A `start_lba` behind the end makes posix_write_zeros count some 2^64 blocks
  (`posix_write_zeros.c:47`); a negative one passes read_test's check
  (`read_test.c:67`).
- whdd reads the device list once: after an hpa_set the menu still shows the
  reach of before, and a device mounted meanwhile is not asked about a second
  time (`cui/main.c:106`, `:130`). A device without a host protected area is
  listed with "HPA enabled" (`utils.c:207`). whdd-cli offers hpa_set for devices
  that are not ATA (`cli/main.c:138`). An hpa_set with an address the device
  does not have takes the earlier limit away (`hpa_set.c:37`).
- An IDENTIFY that the kernel gave up passes for an answer; the second one's
  capacity is then made of a buffer on the stack (`utils.c:220`).
- A READ NATIVE MAX that failed is not noticed: the native capacity is then 0 or
  what the answer's bytes make, 1 sector as a rule (`utils.c:201`). whdd-cli
  does not mark the device although it keeps sectors back, and an hpa_set, whose
  first step is meant to give the whole device, cuts it to that one sector
  (`hpa_set.c:37`); if its second step fails, it stays so.
- Of `max_lba` a command says the low six bytes (`ata.c:17`, `utils.c:246`): an
  address of 2^48 or more sets the limit to its remainder, and -1 to nothing a
  device has.
  A device looks mounted when one is whose name begins with its own
  (`libdevcheck.c:209`; `LongerNames`).
- The remaining time is "capacity / speed" less the time elapsed
  (`sliding_window_renderer.c:280`), also for a test that began at a later
  `start_lba`, and the clock starts at the end of the first block, whose bytes
  count. A remaining time of 0 is not shown, the last other figure stays. In the
  whole_space renderer a report that is handed over again is counted again, so
  the bytes may pass the capacity and the remaining time may wrap.
- In fixed format sense data no failure has a name (`scsi.c:42`). The status
  eAmnf is counted behind the whole space's array
  (`whole_space_renderer.c:154`), in `bytes_processed`, which the other thread
  adds to without a lock (`whole_space_renderer.c:384`): each count adds a byte,
  and a race may lose the bytes of the blocks reported since the renderer's
  load. `BytesWithin` says how far that goes.
- Smaller ones that no module covers: a typed string option of whdd-cli keeps
  its newline (`cli/main.c:32`); the capacity from /proc/partitions loses an odd
  last sector (`libdevcheck.c:147`); a drive without 48-bit addresses gets a
  capacity of 0 (`utils.c:224`); the int option `skip_blocks` is read as 64 bits
  (`procedure.c:81`), without harm where it lies; the remaining time is divided
  by an average speed that may round to 0 when a block takes minutes
  (`whole_space_renderer.c:404`).

## 7. What is not modelled

- Text: prompts, the parsing of options, model names, log messages, the output
  of smartctl. Nothing the properties are about depends on it.
- Drawing: colours, windows, characters. The speed and the remaining time that
  the whole_space renderer shows are computed as in the sliding_window renderer.
- The registry of procedures, which is built once before any thread starts.
- Devices that are plugged in or out while the program runs; the list's order.
- A power loss that reorders parts of one block's bytes, or that takes the size
  of a destination file.
- Faults of the read strategies' memory (an allocation that fails is an
  assertion) and of `lseek`.
- The build, packaging and external libraries.
