---------------------------- MODULE SessionTheorems ----------------------------
(* The three threads of a sitting and the handler, whatever fails and however *)
(* many signals arrive: the procedure's thread never outlives its context,    *)
(* and a run that was opened without a mishap is watched with its handlers    *)
(* set and leaves nothing at the menu.                                        *)
EXTENDS Session, TLAPS

Places ==
    {"menu", "screen", "setup", "spawn", "watch", "flag", "unset", "join", "close",
     "hangup", "joinRender", "tell", "prompt", "killed"}

WorkerEnded == worker \in {"none", "ended"}
RenderEnded == render \in {"none", "ended"}

(* What the main thread's place says of the procedure's thread and of the     *)
(* context, with or without a mishap.                                         *)
Ownership ==
    /\ main \in Places
    /\ worker \in {"none", "loop", "perform", "callback", "callbackFailed", "finish", "ended"}
    /\ render \in {"none", "draw", "drawLast", "ended"}
    /\ main \in {"screen", "setup", "spawn"} => worker = "none" /\ ctx = "open"
    /\ main \in {"watch", "flag", "unset", "join"} => worker # "none" /\ ctx = "open"
    /\ main \in {"close", "hangup", "joinRender", "tell", "prompt", "menu"} => WorkerEnded
    /\ ~WorkerEnded => ctx = "open"
    /\ worker = "ended" => finished

(* Only a thread that is there can be inside the handler.                     *)
HandlersHaveThreads == handling \subseteq Alive

(* Without a mishap every screen is closed behind its run, so no thread draws *)
(* for ever, and the handlers are set just while a run is watched: not before *)
(* its thread is started, and not once it is joined.  A run that nobody asked *)
(* to stop has them set.                                                      *)
Tidy ==
    ~mishap =>
        /\ ~orphan
        /\ frontend # "cui" =>
              render = "none" /\ main \notin {"screen", "hangup", "joinRender", "tell", "prompt"}
        /\ main \in {"menu", "screen", "tell", "prompt"} => RenderEnded
        /\ main \in {"menu", "hangup", "joinRender", "tell", "prompt"} => ctx # "open"
        /\ main \in {"menu", "screen", "setup"} => handling = {}
        /\ main \notin {"spawn", "watch", "flag", "unset"} => ~armed
        /\ main \in {"join", "close", "hangup", "joinRender", "tell", "prompt"} =>
              "main" \notin handling
        /\ main \in {"spawn", "watch", "flag"} /\ ~asked => armed /\ handling = {}

SessionInv == Ownership /\ HandlersHaveThreads /\ Tidy
-----------------------------------------------------------------------------
LEMMA InitSessionInv == Init => SessionInv
BY DEF Init, SessionInv, Ownership, HandlersHaveThreads, Tidy, Places, WorkerEnded,
       RenderEnded

(* The main thread's steps. *)
LEMMA MainSessionInv ==
  ASSUME SessionInv, Runs("main"), Main \/ User
  PROVE  SessionInv'
<1>. USE DEF SessionInv, Ownership, HandlersHaveThreads, Tidy, WorkerEnded, RenderEnded,
            Places, Alive, Runs, flow, context, threads, signals
<1>1. CASE OpenProcedure
  BY <1>1 DEF OpenProcedure
<1>2. CASE OpenScreen
  BY <1>2 DEF OpenScreen
<1>3. CASE OpenScreenFails
  BY <1>3 DEF OpenScreenFails
<1>4. CASE SignalHandlingSetup
  BY <1>4 DEF SignalHandlingSetup
<1>5. CASE Spawn
  BY <1>5 DEF Spawn
<1>6. CASE SpawnFails
  BY <1>6 DEF SpawnFails
<1>7. CASE CheckFinished
  BY <1>7 DEF CheckFinished
<1>8. CASE CheckSignal
  BY <1>8 DEF CheckSignal
<1>9. CASE SignalHandlingUnset
  BY <1>9 DEF SignalHandlingUnset
<1>10. CASE Join
  BY <1>10 DEF Join
<1>11. CASE CloseProcedure
  BY <1>11 DEF CloseProcedure
<1>12. CASE OrderHangup
  BY <1>12 DEF OrderHangup
<1>13. CASE JoinRender
  BY <1>13 DEF JoinRender
<1>14. CASE TellOutcome
  BY <1>14 DEF TellOutcome
<1>15. CASE BackToMenu
  BY <1>15 DEF BackToMenu
<1>. QED
  BY <1>1, <1>2, <1>3, <1>4, <1>5, <1>6, <1>7, <1>8, <1>9, <1>10, <1>11, <1>12, <1>13, <1>14, <1>15 DEF Main, User

(* The steps of the procedure's thread and of the renderer's. *)
LEMMA ThreadSessionInv ==
  ASSUME SessionInv, (Runs("worker") /\ Worker) \/ (Runs("render") /\ Render)
  PROVE  SessionInv'
<1>. USE DEF SessionInv, Ownership, HandlersHaveThreads, Tidy, WorkerEnded, RenderEnded,
            Places, Alive, Runs, flow, context, threads, signals
<1>1. CASE Runs("worker") /\ LoopHead
  BY <1>1 DEF LoopHead
<1>2. CASE Runs("worker") /\ Perform
  BY <1>2 DEF Perform
<1>3. CASE Runs("worker") /\ LoopCallback
  BY <1>3 DEF LoopCallback
<1>4. CASE Runs("worker") /\ LoopFinish
  BY <1>4 DEF LoopFinish
<1>5. CASE Runs("render") /\ Draw
  BY <1>5 DEF Draw
<1>6. CASE Runs("render") /\ DrawLast
  BY <1>6 DEF DrawLast
<1>. QED
  BY <1>1, <1>2, <1>3, <1>4, <1>5, <1>6 DEF Worker, Render

(* A signal and the handler's way back. *)
LEMMA SignalSessionInv ==
  ASSUME SessionInv, Signal \/ (main # "killed" /\ HandlerReturns)
  PROVE  SessionInv'
<1>. USE DEF SessionInv, Ownership, HandlersHaveThreads, Tidy, WorkerEnded, RenderEnded,
            Places, Alive, Runs, flow, context, threads, signals
<1>1. CASE Signal
  BY <1>1 DEF Signal
<1>2. CASE main # "killed" /\ HandlerReturns
  BY <1>2 DEF HandlerReturns
<1>. QED
  BY <1>1, <1>2

LEMMA NextSessionInv ==
  ASSUME SessionInv, [Next]_vars
  PROVE  SessionInv'
<1>1. CASE UNCHANGED vars
  BY <1>1 DEF vars, flow, context, threads, signals, SessionInv, Ownership,
              HandlersHaveThreads, Tidy, WorkerEnded, RenderEnded, Alive
<1>. QED
  BY <1>1, MainSessionInv, ThreadSessionInv, SignalSessionInv DEF Next

(* Who owns what, which threads may be in the handler, and what a run leaves  *)
(* behind: true of every state a sitting reaches.                             *)
THEOREM SessionInvariant == Spec => []SessionInv
BY InitSessionInv, NextSessionInv, PTL DEF Spec

(* The procedure's thread never runs on a context that was closed and freed,  *)
(* whatever could not be opened: the join stands between the two.             *)
THEOREM WorkerKeepsContext == Spec => []WorkerHasContext
<1>1. SessionInv => WorkerHasContext
  BY DEF SessionInv, Ownership, WorkerEnded, WorkerHasContext
<1>. QED
  BY <1>1, SessionInvariant, PTL

(* A run that is watched and was not asked to stop yet can be.                *)
THEOREM WatchedRunsStop == Spec => []WatchedCanBeStopped
<1>1. SessionInv => WatchedCanBeStopped
  BY DEF SessionInv, Tidy, WatchedCanBeStopped
<1>. QED
  BY <1>1, SessionInvariant, PTL

(* Nothing of the last run is left at the menu. *)
THEOREM MenuQuiet == Spec => []MenuIsQuiet
<1>1. SessionInv => MenuIsQuiet
  BY DEF SessionInv, Ownership, Tidy, WorkerEnded, RenderEnded, Alive, MenuIsQuiet
<1>. QED
  BY <1>1, SessionInvariant, PTL
================================================================================
