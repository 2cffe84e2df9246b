------------------------------- MODULE Session -------------------------------
(* A sitting at whdd: the main thread opens a procedure, watches it from      *)
(* procedure_perform_until_interrupt (libdevcheck/utils.c) and closes it; the *)
(* procedure's thread runs the loop; the curses frontend has a renderer's     *)
(* thread beside it (libdevcheck/render.c, the renderers' open and close);    *)
(* and a signal may arrive at any time, in any of the threads.  One action is *)
(* one access to what the threads share, or one call that may fail.           *)
EXTENDS Integers, FiniteSets

CONSTANTS
    Frontends,      \* "cui" draws with a renderer, "cli" does not
    Faults,         \* "screen", "thread": what may fail to open or to start
    MaxSignals      \* bound: signals sent to the process

ASSUME SessionAssumption ==
    /\ Frontends \subseteq {"cui", "cli"}
    /\ Faults \subseteq {"screen", "thread"}
    /\ MaxSignals \in Nat

VARIABLES
    frontend,       \* the program that runs
    main,           \* what its main thread does next
    worker,         \* what the procedure's thread does next
    render,         \* what the renderer's thread does next
    orphan,         \* whether an earlier renderer's thread draws for ever
    ctx,            \* the DC_ProcedureCtx: "none", "open", "freed"
    workLeft,       \* progress.num < progress.den
    interrupt,      \* ctx->interrupt
    finished,       \* ctx->finished
    orderHangup,    \* order_hangup
    armed,          \* whether signal_handler is set for the four signals
    handling,       \* the threads that are inside signal_handler
    caught,         \* termination_signal_caught
    sent,           \* bound: the signals sent so far
    mishap,         \* whether a screen or a thread has failed to open
    asked,          \* whether a signal was caught since this run began
    shown           \* what the renderer tells of the run's end

flow == <<frontend, main>>
context == <<ctx, workLeft, interrupt, finished>>
threads == <<worker, render, orphan>>
signals == <<armed, handling, caught, sent, asked>>
vars == <<flow, threads, context, orderHangup, signals, mishap, shown>>

Alive ==
    {"main"} \cup (IF worker \in {"none", "ended"} THEN {} ELSE {"worker"})
             \cup (IF render \in {"none", "ended"} THEN {} ELSE {"render"})
             \cup (IF orphan THEN {"orphan"} ELSE {})

(* A thread goes on when it is back from the handler. *)
Runs(t) == main # "killed" /\ t \notin handling

Init ==
    /\ frontend \in Frontends
    /\ main = "menu"
    /\ worker = "none" /\ render = "none" /\ orphan = FALSE
    /\ ctx = "none" /\ workLeft = FALSE
    /\ interrupt = FALSE /\ finished = FALSE
    /\ orderHangup = FALSE
    /\ armed = FALSE /\ handling = {} /\ caught = FALSE
    /\ sent = 0 /\ asked = FALSE
    /\ mishap = FALSE /\ shown = "nothing"

-----------------------------------------------------------------------------
(* main and dc_procedure_open.  A procedure that fails to open, or has no     *)
(* perform, leads back to the menu and leaves nothing behind.  A renderer's   *)
(* thread that is still there goes on, with the handler it may be in.         *)
OpenProcedure ==
    /\ main = "menu"
    /\ ctx' = "open"
    /\ workLeft' \in BOOLEAN
    /\ interrupt' = FALSE /\ finished' = FALSE
    /\ asked' = FALSE
    /\ shown' = "nothing"
    /\ main' = IF frontend = "cui" THEN "screen" ELSE "setup"
    /\ worker' = "none" /\ render' = "none"
    /\ orphan' = ("render" \in Alive \/ orphan)
    /\ handling' = {IF t = "render" THEN "orphan" ELSE t : t \in handling}
    /\ UNCHANGED <<frontend, orderHangup, armed, caught, sent, mishap>>

(* render_procedure and the renderer's open. *)
OpenScreen ==
    /\ main = "screen"
    /\ main' = "setup"
    /\ render' = "draw"
    /\ orderHangup' = FALSE
    /\ UNCHANGED <<frontend, worker, orphan, context, signals, mishap, shown>>

(* A terminal that is too small, or a thread that cannot be created: the      *)
(* context is forgotten, not closed.                                          *)
OpenScreenFails ==
    /\ main = "screen"
    /\ "screen" \in Faults
    /\ main' = "menu"
    /\ mishap' = TRUE
    /\ UNCHANGED <<frontend, threads, context, orderHangup, signals, shown>>

(* procedure_perform_until_interrupt. *)
SignalHandlingSetup ==
    /\ main = "setup"
    /\ main' = "spawn"
    /\ armed' = TRUE
    /\ UNCHANGED <<frontend, threads, context, orderHangup>>
    /\ UNCHANGED <<handling, caught, sent, asked, mishap, shown>>

Spawn ==
    /\ main = "spawn"
    /\ main' = "watch"
    /\ worker' = "loop"
    /\ UNCHANGED <<frontend, render, orphan, context, orderHangup, signals, mishap, shown>>

(* The handlers stay set, and so does the renderer's thread. *)
SpawnFails ==
    /\ main = "spawn"
    /\ "thread" \in Faults
    /\ main' = "menu"
    /\ ctx' = "freed"
    /\ mishap' = TRUE
    /\ UNCHANGED <<frontend, threads, workLeft, interrupt, finished>>
    /\ UNCHANGED <<orderHangup, signals, shown>>

CheckFinished ==
    /\ main = "watch"
    /\ main' = IF finished THEN "unset" ELSE "flag"
    /\ UNCHANGED <<frontend, threads, context, orderHangup, signals, mishap, shown>>

CheckSignal ==
    /\ main = "flag"
    /\ caught' = FALSE
    /\ interrupt' = (interrupt \/ caught)
    /\ main' = IF caught THEN "unset" ELSE "watch"
    /\ UNCHANGED <<frontend, threads, ctx, workLeft, finished, orderHangup>>
    /\ UNCHANGED <<armed, handling, sent, asked, mishap, shown>>

(* mutant: the handlers are left set *)
SignalHandlingKept ==
    /\ main = "unset"
    /\ main' = "join"
    /\ UNCHANGED <<frontend, threads, context, orderHangup, signals, mishap, shown>>

SignalHandlingUnset ==
    /\ main = "unset"
    /\ main' = "join"
    /\ armed' = FALSE
    /\ UNCHANGED <<frontend, threads, context, orderHangup>>
    /\ UNCHANGED <<handling, caught, sent, asked, mishap, shown>>

(* mutant: the thread is not waited for *)
JoinNot ==
    /\ main = "join"
    /\ main' = "close"
    /\ UNCHANGED <<frontend, threads, context, orderHangup, signals, mishap, shown>>

Join ==
    /\ main = "join"
    /\ worker = "ended"
    /\ main' = "close"
    /\ UNCHANGED <<frontend, threads, context, orderHangup, signals, mishap, shown>>

CloseProcedure ==
    /\ main = "close"
    /\ ctx' = "freed"
    /\ main' = IF frontend = "cui" THEN "hangup" ELSE "menu"
    /\ UNCHANGED <<frontend, threads, workLeft, interrupt, finished>>
    /\ UNCHANGED <<orderHangup, signals, mishap, shown>>

(* The renderer's close. *)
OrderHangup ==
    /\ main = "hangup"
    /\ main' = "joinRender"
    /\ orderHangup' = TRUE
    /\ UNCHANGED <<frontend, threads, context, signals, mishap, shown>>

(* mutant: the renderer's thread is not waited for *)
JoinRenderNot ==
    /\ main = "joinRender"
    /\ main' = "tell"
    /\ UNCHANGED <<frontend, threads, context, orderHangup, signals, mishap, shown>>

JoinRender ==
    /\ main = "joinRender"
    /\ render = "ended"
    /\ main' = "tell"
    /\ UNCHANGED <<frontend, threads, context, orderHangup, signals, mishap, shown>>

(* It reads actctx->interrupt of a context that was freed. *)
TellOutcome ==
    /\ main = "tell"
    /\ main' = "prompt"
    /\ IF ctx = "open"
         THEN shown' = IF interrupt THEN "Aborted." ELSE "Completed."
         ELSE shown' \in {"Aborted.", "Completed."}
    /\ UNCHANGED <<frontend, threads, context, orderHangup, signals, mishap>>

BackToMenu ==
    /\ main = "prompt"
    /\ main' = "menu"
    /\ UNCHANGED <<frontend, threads, context, orderHangup, signals, mishap, shown>>

Main ==
    \/ OpenScreen \/ OpenScreenFails
    \/ SignalHandlingSetup
    \/ Spawn \/ SpawnFails
    \/ CheckFinished \/ CheckSignal
    \/ SignalHandlingUnset
    \/ Join \/ CloseProcedure
    \/ OrderHangup \/ JoinRender \/ TellOutcome

User == OpenProcedure \/ BackToMenu

-----------------------------------------------------------------------------
(* dc_procedure_perform_loop in the procedure's thread.                       *)
(* mutant: the loop does not look at ctx->interrupt *)
LoopUntilDone ==
    /\ worker = "loop"
    /\ worker' = IF ~workLeft THEN "finish" ELSE "perform"
    /\ UNCHANGED <<flow, render, orphan, context, orderHangup, signals, mishap, shown>>

LoopHead ==
    /\ worker = "loop"
    /\ worker' = IF interrupt \/ ~workLeft THEN "finish" ELSE "perform"
    /\ UNCHANGED <<flow, render, orphan, context, orderHangup, signals, mishap, shown>>

Perform ==
    /\ worker = "perform"
    /\ workLeft' \in BOOLEAN
    /\ worker' \in {"callback", "callbackFailed"}
    /\ UNCHANGED <<flow, render, orphan, ctx, interrupt, finished, orderHangup>>
    /\ UNCHANGED <<signals, mishap, shown>>

LoopCallback ==
    /\ worker \in {"callback", "callbackFailed"}
    /\ worker' = IF worker = "callback" THEN "loop" ELSE "finish"
    /\ UNCHANGED <<flow, render, orphan, context, orderHangup, signals, mishap, shown>>

LoopFinish ==
    /\ worker = "finish"
    /\ worker' = "ended"
    /\ finished' = TRUE
    /\ UNCHANGED <<flow, render, orphan, ctx, workLeft, interrupt, orderHangup>>
    /\ UNCHANGED <<signals, mishap, shown>>

Worker == LoopHead \/ Perform \/ LoopCallback \/ LoopFinish

(* render_thread_proc, whose drawing ReportRing models. *)
Draw ==
    /\ render = "draw"
    /\ render' = IF orderHangup THEN "drawLast" ELSE "draw"
    /\ UNCHANGED <<flow, worker, orphan, context, orderHangup, signals, mishap, shown>>

DrawLast ==
    /\ render = "drawLast"
    /\ render' = "ended"
    /\ UNCHANGED <<flow, worker, orphan, context, orderHangup, signals, mishap, shown>>

Render == Draw \/ DrawLast

-----------------------------------------------------------------------------
(* SIGQUIT, SIGTERM, SIGINT or SIGHUP is sent to the process.  The handler    *)
(* runs in one of its threads; without a handler the process is terminated.   *)
Signal ==
    /\ main # "killed"
    /\ sent < MaxSignals
    /\ sent' = sent + 1
    /\ IF armed
         THEN /\ \E t \in Alive \ handling : handling' = handling \cup {t}
              /\ caught' = TRUE
              /\ asked' = TRUE
              /\ UNCHANGED main
         ELSE /\ main' = "killed"
              /\ UNCHANGED <<handling, caught, asked>>
    /\ UNCHANGED <<frontend, threads, context, orderHangup, armed, mishap, shown>>

HandlerReturns ==
    /\ \E t \in handling : handling' = handling \ {t}
    /\ armed' = FALSE
    /\ UNCHANGED <<flow, threads, context, orderHangup>>
    /\ UNCHANGED <<caught, sent, asked, mishap, shown>>

Next ==
    \/ Runs("main") /\ (Main \/ User)
    \/ Runs("worker") /\ Worker
    \/ Runs("render") /\ Render
    \/ Signal
    \/ main # "killed" /\ HandlerReturns

Spec == Init /\ [][Next]_vars

(* Every thread is scheduled and a perform returns (each is one bounded       *)
(* system call).  Nobody has to send a signal, to open a procedure or to      *)
(* press a key.                                                               *)
FairSpec ==
    /\ Spec
    /\ WF_vars(Runs("main") /\ Main)
    /\ WF_vars(Runs("worker") /\ Worker)
    /\ WF_vars(Runs("render") /\ Render)
    /\ WF_vars(main # "killed" /\ HandlerReturns)

-----------------------------------------------------------------------------
(* The procedure's thread never runs on a context that was closed and freed,  *)
(* and a run that is closed has come to its end.                              *)
WorkerHasContext ==
    /\ worker \notin {"none", "ended"} => ctx = "open"
    /\ ctx = "freed" /\ worker = "ended" => finished

(* As long as every screen and thread could be opened, a run that is watched  *)
(* and was not asked to stop yet can be: its handlers are set, and no handler *)
(* an earlier run's signal started is still on its way to take them back.     *)
WatchedCanBeStopped ==
    main \in {"spawn", "watch", "flag"} /\ ~asked /\ ~mishap => armed /\ handling = {}

(* With the same proviso, at the menu nothing of the last run is left: its    *)
(* context is closed, its threads have ended and a signal ends the program as *)
(* it does any other.                                                         *)
MenuIsQuiet ==
    main = "menu" /\ ~mishap =>
        ctx # "open" /\ Alive = {"main"} /\ ~armed /\ handling = {}

(* A run that is asked to stop, or has finished, is closed, whatever failed   *)
(* before: the main thread never waits for a thread that waits for it.        *)
RunEndsWhenAsked ==
    main \in {"watch", "flag"} /\ (caught \/ finished) ~> main \in {"menu", "prompt", "killed"}
=============================================================================
