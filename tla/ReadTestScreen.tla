---------------------------- MODULE ReadTestScreen ---------------------------
(* read_test under the sliding_window renderer                                *)
(* (cui/sliding_window_renderer.c): the procedure's thread times each command *)
(* and computes the speed and the remaining time in the callback; the         *)
(* renderer's thread counts the queued reports by access time and by error    *)
(* and refreshes the figures on the screen.  The ring between the two threads *)
(* is the queue that ReportRing implements.                                   *)
EXTENDS ReadTest, Sequences, FiniteSets

CONSTANTS
    Durations,        \* the microseconds a command may take
    StatsEvery,       \* reports between two estimates, 10 in the code
    UintLimit         \* 2^64, where eta_time wraps

ASSUME ScreenAssumption ==
    /\ Durations \subseteq Nat
    /\ StatsEvery \in Nat \ {0}
    /\ UintLimit \in Nat \ {0}

VARIABLES
    screen,           \* "off", "on", "ended": drawn to the end, awaiting 'm'
    clock,            \* DC_BEST_CLOCK in microseconds since the screen opened
    startTime,        \* start_time
    bytesProcessed,   \* bytes_processed
    speed,            \* avg_processing_speed
    etaTime,          \* eta_time
    curLba,           \* cur_lba
    queue,            \* the reports in the ring
    timeStats,        \* access_time_stats_accum
    errorStats,       \* the sum of error_stats_accum
    shown             \* the figures that stand on the screen

estimates == <<clock, startTime, bytesProcessed, speed, etaTime, curLba>>
tally == <<timeStats, errorStats>>
screenVars == <<screen, estimates, queue, tally, shown>>

Capacity == 512 * EndLba
TimeClasses == 1 .. 6
NothingShown == [times |-> [c \in TimeClasses |-> 0], errors |-> 0, lba |-> 0]

ScreenOff ==
    /\ screen' = "off"
    /\ clock' = 0 /\ startTime' = 0
    /\ bytesProcessed' = 0 /\ speed' = 0 /\ etaTime' = 0 /\ curLba' = 0
    /\ queue' = << >>
    /\ timeStats' = [c \in TimeClasses |-> 0] /\ errorStats' = 0
    /\ shown' = NothingShown

ScreenInit ==
    /\ Init
    /\ screen = "off"
    /\ clock = 0 /\ startTime = 0
    /\ bytesProcessed = 0 /\ speed = 0 /\ etaTime = 0 /\ curLba = 0
    /\ queue = << >>
    /\ timeStats = [c \in TimeClasses |-> 0] /\ errorStats = 0
    /\ shown = NothingShown

OpenScreen ==
    /\ pc = "loop" /\ screen = "off"
    /\ screen' = "on"
    /\ UNCHANGED <<vars, estimates, queue, tally, shown>>

-----------------------------------------------------------------------------
(* HandleReport, in the procedure's thread.  The clock starts at the end of   *)
(* the first block, whose bytes count all the same.                           *)
Milliseconds(t) == t \div 1000
Elapsed == Milliseconds(clock') - Milliseconds(startTime)

(* mutant: every block counts in full *)
CountWholeBlocks == bytesProcessed' = bytesProcessed + 512 * SectorsAtOnce
CountBytes == bytesProcessed' = bytesProcessed + 512 * Size

Estimate ==
    IF num' = 1
      THEN startTime' = clock' /\ UNCHANGED <<speed, etaTime>>
      ELSE /\ UNCHANGED startTime
           /\ IF num' % StatsEvery = 0 /\ Elapsed > 0
                THEN /\ speed' = (bytesProcessed' * 1000) \div Elapsed
                     /\ etaTime' = (Capacity \div speed' - Elapsed \div 1000) % UintLimit
                ELSE UNCHANGED <<speed, etaTime>>

(* blk_access_time: Perform reads the clock before and after the command. *)
Timed(d) == clock' = clock + d

(* Perform and the loop's callback. *)
PerformShown ==
    /\ screen = "on"
    /\ Perform
    /\ \E d \in Durations :
          /\ Timed(d)
          /\ queue' = Append(queue, [status |-> told'[currentLba], time |-> d])
    /\ CountBytes
    /\ curLba' = currentLba + Size
    /\ Estimate
    /\ UNCHANGED <<screen, tally, shown>>

-----------------------------------------------------------------------------
(* The renderer's thread: render_queued draws the reports that were queued    *)
(* when it looked, then render_update_stats refreshes the figures.            *)
Limits == <<3000, 10000, 50000, 150000, 500000>>
TimeClass(t) == 1 + Cardinality({i \in DOMAIN Limits : Limits[i] <= t})

Errors == {i \in DOMAIN queue : queue[i].status = "bad"}
OfClass(c) == {i \in DOMAIN queue \ Errors : TimeClass(queue[i].time) = c}

(* mutant: a command that takes longer than every limit is not counted *)
DrawQueuedBelowLimits ==
    /\ screen = "on" /\ queue # << >>
    /\ queue' = << >>
    /\ timeStats' = [c \in TimeClasses |->
                        timeStats[c] + (IF c = 6 THEN 0 ELSE Cardinality(OfClass(c)))]
    /\ errorStats' = errorStats + Cardinality(Errors)
    /\ UNCHANGED <<vars, screen, estimates, shown>>

DrawQueued ==
    /\ screen = "on" /\ queue # << >>
    /\ queue' = << >>
    /\ timeStats' = [c \in TimeClasses |-> timeStats[c] + Cardinality(OfClass(c))]
    /\ errorStats' = errorStats + Cardinality(Errors)
    /\ UNCHANGED <<vars, screen, estimates, shown>>

UpdateStats ==
    /\ screen = "on"
    /\ shown' = [times |-> timeStats, errors |-> errorStats, lba |-> curLba]
    /\ shown' # shown
    /\ UNCHANGED <<vars, screen, estimates, queue, tally>>

(* The renderer is asked to end when the procedure's thread was joined; it    *)
(* then draws what is queued and refreshes the figures once more.             *)
CloseScreen ==
    /\ pc = "closed" /\ screen = "on"
    /\ queue = << >>
    /\ shown = [times |-> timeStats, errors |-> errorStats, lba |-> curLba]
    /\ screen' = "ended"
    /\ UNCHANGED <<vars, estimates, queue, tally, shown>>

LeaveScreen ==
    /\ screen = "ended"
    /\ ScreenOff
    /\ UNCHANGED vars

ScreenNext ==
    \/ screen = "off" /\ Open /\ UNCHANGED screenVars
    \/ OpenScreen
    \/ PerformShown
    \/ screen = "on" /\ (LoopEnds \/ Interrupt \/ Close) /\ UNCHANGED screenVars
    \/ DrawQueued \/ UpdateStats
    \/ CloseScreen \/ LeaveScreen

ScreenSpec == ScreenInit /\ [][ScreenNext]_<<vars, screenVars>>

-----------------------------------------------------------------------------
(* The blocks of the run that a report told as bad. *)
BadBlocks == {k \in 0 .. num - 1 : told[startLba + k * SectorsAtOnce] = "bad"}

(* What stands on the screen when the test is over accounts for every block   *)
(* of the run, whenever the renderer looked: the counts by access time and    *)
(* the errors add up to the blocks tried, the errors are those that were      *)
(* told, and the address is where the test stopped.                           *)
ScreenAccounts ==
    screen = "ended" =>
        /\ shown.times[1] + shown.times[2] + shown.times[3] + shown.times[4]
             + shown.times[5] + shown.times[6] = num - Cardinality(BadBlocks)
        /\ shown.errors = Cardinality(BadBlocks)
        /\ num > 0 => shown.lba = currentLba

(* "total_time = elapsed + eta" (sliding_window_renderer.c:281): the bytes    *)
(* counted never pass the capacity, also with a short last block, so that the *)
(* unsigned arithmetic, in spite of its roundings, takes no more time from    *)
(* the total than that is and the remaining time does not wrap.               *)
EtaSound == speed # 0 => etaTime <= Capacity \div speed
=============================================================================
