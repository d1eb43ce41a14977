------------------------------ MODULE ShadowMode ------------------------------
(***************************************************************************)
(* ShadowModeService (src/app/services/shadow_mode.py): requests that are  *)
(* sampled run a second prediction in a task of their own; stop() waits    *)
(* for the tasks that are pending when it begins, and cancels them after   *)
(* five seconds.  An action is what one task does up to its next           *)
(* suspension.                                                             *)
(*                                                                         *)
(* The shadow model is the one given to the constructor.  A service        *)
(* without one disables itself in start(): it calls create_model with a    *)
(* parameter create_model does not have.                                   *)
(***************************************************************************)
EXTENDS Integers, FiniteSets

CONSTANTS Predictions,    \* requests
          MaxShadowStops  \* bound: calls of stop()

ASSUME ShadowAssumption == MaxShadowStops \in Nat

VARIABLES shadowEnabled,  \* enabled
          shadowModel,    \* is there a shadow_model?
          asyncDispatch,  \* shadow_async_dispatch, never changed
          shadowStarted,  \* _started
          prediction,     \* where the shadow prediction of each request is
          pendingTasks,   \* _pending_tasks
          shadowStop,     \* where stop() is
          gathered,       \* the tasks stop() waits for
          shadowStops,    \* calls of stop() so far
          runningAtStop   \* predictions that ran when stop() was last called

shadowVars == <<shadowEnabled, shadowModel, asyncDispatch, shadowStarted, prediction,
                pendingTasks, shadowStop, gathered, shadowStops, runningAtStop>>

ShadowTypeOK ==
    /\ shadowEnabled \in BOOLEAN /\ shadowModel \in BOOLEAN /\ asyncDispatch \in BOOLEAN
    /\ shadowStarted \in BOOLEAN
    /\ prediction \in [Predictions -> {"none", "sampled", "running", "cancelled",
                                       "settled", "dropped"}]
    /\ pendingTasks \subseteq Predictions
    /\ shadowStop \in {"no", "waiting"}
    /\ gathered \subseteq Predictions
    /\ shadowStops \in 0..MaxShadowStops
    /\ runningAtStop \subseteq Predictions

ShadowInit ==
    /\ shadowEnabled \in BOOLEAN /\ shadowModel \in BOOLEAN /\ asyncDispatch \in BOOLEAN
    /\ shadowStarted = FALSE
    /\ prediction = [p \in Predictions |-> "none"]
    /\ pendingTasks = {}
    /\ shadowStop = "no"
    /\ gathered = {}
    /\ shadowStops = 0
    /\ runningAtStop = {}

-----------------------------------------------------------------------------

StartShadow ==
    /\ ~shadowStarted
    /\ shadowEnabled' = (shadowEnabled /\ shadowModel)
    /\ shadowStarted' = TRUE
    /\ UNCHANGED <<shadowModel, asyncDispatch, prediction, pendingTasks, shadowStop,
                   gathered, shadowStops, runningAtStop>>

Shadowing == shadowEnabled /\ shadowModel

\* A prediction whose task has begun and not ended.
Alive == {"running", "cancelled"}

\* A request is sampled by should_shadow and a task for its dispatch is created.
Sample(p) ==
    /\ Shadowing
    /\ prediction[p] = "none"
    /\ prediction' = [prediction EXCEPT ![p] = "sampled"]
    /\ UNCHANGED <<shadowEnabled, shadowModel, asyncDispatch, shadowStarted, pendingTasks,
                   shadowStop, gathered, shadowStops, runningAtStop>>

\* That task runs dispatch_shadow_prediction; only a dispatch of its own task is tracked.
Dispatch(p) ==
    /\ prediction[p] = "sampled"
    /\ prediction' = [prediction EXCEPT ![p] = IF Shadowing THEN "running" ELSE "dropped"]
    /\ pendingTasks' = IF Shadowing /\ asyncDispatch THEN pendingTasks \cup {p}
                                                     ELSE pendingTasks
    /\ UNCHANGED <<shadowEnabled, shadowModel, asyncDispatch, shadowStarted, shadowStop,
                   gathered, shadowStops, runningAtStop>>

\* The shadow model has answered or raised, or the task has been cancelled: it ends.
Settle(p) ==
    /\ prediction[p] \in Alive
    /\ prediction' = [prediction EXCEPT ![p] = IF @ = "running" THEN "settled" ELSE "dropped"]
    /\ UNCHANGED <<shadowEnabled, shadowModel, asyncDispatch, shadowStarted, pendingTasks,
                   shadowStop, gathered, shadowStops, runningAtStop>>

\* The loop then runs the callback that discards the task.
DoneCallback(p) ==
    /\ p \in pendingTasks /\ prediction[p] \notin Alive
    /\ pendingTasks' = pendingTasks \ {p}
    /\ UNCHANGED <<shadowEnabled, shadowModel, asyncDispatch, shadowStarted, prediction,
                   shadowStop, gathered, shadowStops, runningAtStop>>

\* stop() is called; without pending tasks it is over at once.
StopShadow ==
    /\ shadowStarted /\ shadowStop = "no"
    /\ shadowStops < MaxShadowStops
    /\ shadowStops' = shadowStops + 1
    /\ gathered' = pendingTasks
    /\ runningAtStop' = {p \in Predictions : prediction[p] \in Alive}
    /\ IF pendingTasks = {}
       THEN shadowStarted' = FALSE /\ UNCHANGED shadowStop
       ELSE shadowStop' = "waiting" /\ UNCHANGED shadowStarted
    /\ UNCHANGED <<shadowEnabled, shadowModel, asyncDispatch, prediction, pendingTasks>>

\* The five seconds are over: wait_for cancels what is left of the tasks.
StopTimesOut ==
    /\ shadowStop = "waiting"
    /\ prediction' = [p \in Predictions |-> IF p \in gathered /\ prediction[p] = "running"
                                            THEN "cancelled" ELSE prediction[p]]
    /\ UNCHANGED <<shadowEnabled, shadowModel, asyncDispatch, shadowStarted, pendingTasks,
                   shadowStop, gathered, shadowStops, runningAtStop>>

\* Fault: stop() gives up waiting without cancelling.
ShadowStoppedEarly ==
    /\ shadowStop = "waiting"
    /\ shadowStop' = "no"
    /\ shadowStarted' = FALSE
    /\ UNCHANGED <<shadowEnabled, shadowModel, asyncDispatch, prediction, pendingTasks,
                   gathered, shadowStops, runningAtStop>>

\* Every task stop() waits for has ended, the callbacks registered before gather's own have
\* run, and stop() returns.
ShadowStopped ==
    /\ shadowStop = "waiting"
    /\ \A p \in gathered : prediction[p] \notin Alive /\ p \notin pendingTasks
    /\ shadowStop' = "no"
    /\ shadowStarted' = FALSE
    /\ UNCHANGED <<shadowEnabled, shadowModel, asyncDispatch, prediction, pendingTasks,
                   gathered, shadowStops, runningAtStop>>

ShadowNext ==
    \/ StartShadow \/ StopShadow \/ StopTimesOut \/ ShadowStopped
    \/ \E p \in Predictions : Sample(p) \/ Dispatch(p) \/ Settle(p) \/ DoneCallback(p)

ShadowSpec == ShadowInit /\ [][ShadowNext]_shadowVars

-----------------------------------------------------------------------------
(* Properties.                                                               *)

\* With asynchronous dispatch, _pending_tasks misses no prediction that runs, and what ran
\* when stop() was called has ended when it returns, by itself or cancelled
\* (shadow_mode.py:98-110, :191).
StopSettles ==
    asyncDispatch =>
        /\ \A p \in Predictions : prediction[p] \in Alive => p \in pendingTasks
        /\ shadowStop = "no" => \A p \in runningAtStop : prediction[p] \notin Alive
=============================================================================
