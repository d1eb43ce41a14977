------------------------------- MODULE Lifespan -------------------------------
(***************************************************************************)
(* The life of the application (src/app/core/events.py): lifespan starts   *)
(* the services and, at its exit, drains them; a SIGTERM or SIGINT drains  *)
(* them earlier, in a task of its own, while the server goes on serving.   *)
(*                                                                         *)
(* All of it runs on one event loop; an action is what one task does up to *)
(* its next suspension.  Startup suspends only in the feedback service's   *)
(* start(), a drain only in the batch service's stop().  The drain tasks   *)
(* are numbered by the signal that created them; Startup stands for the    *)
(* task that runs lifespan.  The data lake writer and shadow mode have     *)
(* nothing to stop (see README).                                           *)
(***************************************************************************)
EXTENDS FeedbackService

CONSTANTS MaxSignals,   \* bound: signals delivered
          NoTask        \* app.state.shutdown_task is None

ASSUME LifespanAssumption ==
    /\ MaxSignals \in Nat
    /\ NoTask \notin 1..MaxSignals \cup {Startup}
    /\ Startup \notin 1..MaxSignals

VARIABLES phase,         \* where lifespan is
          registered,    \* services found on app.state
          consumer,      \* is the Kafka consumer running?
          batch,         \* the batch service
          draining,      \* app.state._shutdown_draining
          shutdownTask,  \* app.state.shutdown_task
          signals,       \* signals delivered so far
          drain,         \* where each call of _shutdown_services is
          awaited        \* the task lifespan waits for at its exit

lifespanVars == <<phase, registered, consumer, batch, draining, shutdownTask, signals,
                  drain, awaited>>
appVars == <<lifespanVars, feedbackVars>>

Drains   == 1..MaxSignals \cup {Startup}
Services == {"kafka_consumer", "async_batch_service", "feedback_service"}

LifespanTypeOK ==
    /\ phase \in {"new", "starting", "serving", "awaiting", "draining", "exited"}
    /\ registered \subseteq Services
    /\ consumer \in BOOLEAN
    /\ batch \in {"off", "running", "stopping"}
    /\ draining \in BOOLEAN
    /\ shutdownTask \in Drains \cup {NoTask}
    /\ signals \in 0..MaxSignals
    /\ drain \in [Drains -> {"none", "scheduled", "stopping", "done"}]
    /\ awaited \in Drains \cup {NoTask}
    /\ FeedbackTypeOK

LifespanInit ==
    /\ phase = "new"
    /\ registered = {}
    /\ consumer = FALSE
    /\ batch = "off"
    /\ draining = FALSE
    /\ shutdownTask = NoTask
    /\ signals = 0
    /\ drain = [d \in Drains |-> "none"]
    /\ awaited = NoTask
    /\ FeedbackInit

-----------------------------------------------------------------------------
(* Startup.                                                                  *)

\* From the registration of the signal handlers to the await in the feedback service.
\* If the model fails to load, the consumer and the batch service fail for want of it.
BeginStartup ==
    /\ phase = "new"
    /\ \E modelLoaded \in BOOLEAN :
         /\ consumer' = (modelLoaded /\ kafkaEnabled)
         /\ batch' = IF modelLoaded THEN "running" ELSE "off"
         /\ registered' = {s \in Services : \/ s = "kafka_consumer" /\ consumer'
                                            \/ s = "async_batch_service" /\ modelLoaded
                                            \/ s = "feedback_service" /\ ~kafkaEnabled}
    /\ IF kafkaEnabled
       THEN phase' = "starting" /\ BeginProducer(Startup)
       ELSE /\ phase' = "serving"
            /\ started' = TRUE
            /\ UNCHANGED <<kafkaEnabled, producer, attempts, opened, overlapped>>
    /\ UNCHANGED <<submit, draining, shutdownTask, signals, drain, awaited>>

\* The feedback service's start() returns and startup is complete.
EndStartup ==
    /\ phase = "starting"
    /\ ProducerCreated(Startup) \/ GiveUp(Startup)
    /\ registered' = registered \cup {"feedback_service"}
    /\ phase' = "serving"
    /\ UNCHANGED <<submit, consumer, batch, draining, shutdownTask, signals, drain, awaited>>

-----------------------------------------------------------------------------
(* Shutdown.                                                                 *)

\* _handle_shutdown_signal: a task is created unless a drain has begun.
Signal ==
    /\ phase \notin {"new", "exited"}
    /\ signals < MaxSignals
    /\ signals' = signals + 1
    /\ IF draining
       THEN UNCHANGED <<shutdownTask, drain>>
       ELSE /\ shutdownTask' = signals'
            /\ drain' = [drain EXCEPT ![signals'] = "scheduled"]
    /\ UNCHANGED <<phase, registered, consumer, batch, draining, awaited, feedbackVars>>

\* The end of _shutdown_services: the feedback service, once the batch service has stopped.
StopRest ==
    IF "feedback_service" \in registered THEN StopFeedback ELSE UNCHANGED feedbackVars

\* A drain begins: up to the first suspension of _shutdown_services in task d.
BeginDrain(d) ==
    /\ draining' = TRUE
    /\ shutdownTask' = IF shutdownTask = NoTask THEN d ELSE shutdownTask
    /\ consumer' = (consumer /\ "kafka_consumer" \notin registered)
    /\ IF "async_batch_service" \in registered /\ batch = "running"
       THEN /\ batch' = "stopping"
            /\ drain' = [drain EXCEPT ![d] = "stopping"]
            /\ UNCHANGED feedbackVars
       ELSE /\ drain' = [drain EXCEPT ![d] = "done"]
            /\ StopRest
            /\ UNCHANGED batch

\* Fault: nothing keeps a second drain out.
ShutdownServicesTwice(d) == BeginDrain(d)

\* Fault: a second drain waits for the flag of the first one to be reset.
ShutdownServicesBlocked(d) == ~draining /\ BeginDrain(d)

\* _shutdown_services is called in task d: it returns at once if a drain has begun.
ShutdownServices(d) ==
    \/ /\ draining
       /\ drain' = [drain EXCEPT ![d] = "done"]
       /\ UNCHANGED <<draining, shutdownTask, consumer, batch, feedbackVars>>
    \/ /\ ~draining
       /\ BeginDrain(d)

\* The first step of a task a signal created.
RunDrainTask(d) ==
    /\ d \in 1..MaxSignals /\ phase # "exited"
    /\ drain[d] = "scheduled"
    /\ ShutdownServices(d)
    /\ UNCHANGED <<phase, registered, signals, awaited>>

\* The batch service has stopped; the drain goes on to its end.
BatchStopped(d) ==
    /\ phase # "exited"
    /\ drain[d] = "stopping"
    /\ batch' = "off"
    /\ drain' = [drain EXCEPT ![d] = "done"]
    /\ StopRest
    /\ UNCHANGED <<phase, registered, consumer, draining, shutdownTask, signals, awaited>>

Done(d) == d # NoTask /\ drain[d] = "done"

\* Fault: lifespan drains itself although a drain task is at work.
ServerExitUnawaited ==
    /\ phase = "serving"
    /\ \A r \in Submits : submit[r] \in {"new", "accepted", "refused"}
    /\ phase' = "draining"
    /\ ShutdownServices(Startup)
    /\ UNCHANGED <<registered, signals, awaited>>

\* Fault: lifespan waits for whatever task is recorded, its own included.
ServerExitSelfAwaited ==
    /\ phase = "serving"
    /\ \A r \in Submits : submit[r] \in {"new", "accepted", "refused"}
    /\ phase' = "awaiting"
    /\ awaited' = IF shutdownTask = NoTask THEN Startup ELSE shutdownTask
    /\ UNCHANGED <<drain, draining, shutdownTask, consumer, batch, feedbackVars, registered,
                   signals>>

\* The server has finished its requests and leaves the lifespan.
ServerExit ==
    /\ phase = "serving"
    /\ \A r \in Submits : submit[r] \in {"new", "accepted", "refused"}
    /\ IF shutdownTask # NoTask /\ ~Done(shutdownTask)
       THEN /\ phase' = "awaiting"
            /\ awaited' = shutdownTask
            /\ UNCHANGED <<drain, draining, shutdownTask, consumer, batch, feedbackVars>>
       ELSE /\ phase' = "draining"
            /\ ShutdownServices(Startup)
            /\ UNCHANGED awaited
    /\ UNCHANGED <<registered, signals>>

\* The task lifespan waits for has ended, or its own call of _shutdown_services.
Exit ==
    /\ \/ phase = "awaiting" /\ Done(awaited)
       \/ phase = "draining" /\ Done(Startup)
    /\ phase' = "exited"
    /\ UNCHANGED <<registered, consumer, batch, draining, shutdownTask, signals, drain,
                   awaited, feedbackVars>>

-----------------------------------------------------------------------------
(* Requests.  They are served from startup to exit, during a drain as well.  *)

SubmitFeedback(r) ==
    /\ phase = "serving"
    /\ Submit(r)
    /\ UNCHANGED lifespanVars

SubmitStep(r) ==
    /\ \/ LazyStartReturns(r)
       \/ AttemptFailed(r)
       \/ Send(r)
    /\ UNCHANGED lifespanVars

StartupRetry ==
    /\ AttemptFailed(Startup)
    /\ UNCHANGED lifespanVars

Ended == phase = "exited" /\ UNCHANGED appVars

LifespanNext ==
    \/ BeginStartup \/ StartupRetry \/ EndStartup
    \/ Signal
    \/ \E d \in Drains : RunDrainTask(d) \/ BatchStopped(d)
    \/ ServerExit \/ Exit
    \/ \E r \in Submits : SubmitFeedback(r) \/ SubmitStep(r)
    \/ Ended

\* The event loop runs what is ready, executors finish; nothing makes a client submit,
\* a signal arrive or the server exit.
LifespanFairness ==
    /\ WF_appVars(BeginStartup \/ StartupRetry \/ EndStartup)
    /\ \A d \in Drains : WF_appVars(RunDrainTask(d) \/ BatchStopped(d))
    /\ WF_appVars(Exit)
    /\ \A r \in Submits : WF_appVars(SubmitStep(r))

LifespanSpec == LifespanInit /\ [][LifespanNext]_appVars /\ LifespanFairness
-----------------------------------------------------------------------------
(* Properties.                                                               *)

\* Drains that signals have asked for.
SignalDrains == {d \in 1..MaxSignals : drain[d] # "none"}

\* However many signals arrive and whenever the lifespan ends, the producer is closed
\* only after the consumer and the batch service have stopped: no second drain overtakes
\* the first one's wait (events.py:67, :82-106).
ReleasedInOrder ==
    [][opened' # opened /\ opened' \subseteq opened => batch' = "off" /\ ~consumer']_appVars

\* Unless two signals came before the first drain task ran, lifespan does not end
\* before the drain has: everything registered has been stopped (events.py:322-326).
ExitAfterDrain ==
    phase = "exited" /\ Cardinality(SignalDrains) <= 1 =>
        /\ \A d \in Drains : drain[d] \in {"none", "done"}
        /\ batch = "off" /\ ~consumer

\* The service forgets a producer it has not closed only if requests that found it
\* stopped by a drain have restarted it at the same time (feedback_service.py:99).
ProducerNotLeaked == opened \subseteq {producer} \/ (draining /\ overlapped)

\* What the docstring of lifespan (events.py:124) promises: at its exit the background
\* tasks and the connections of the services are released.
ReleasedAtExit == phase = "exited" => opened = {} /\ batch = "off" /\ ~consumer

\* A drain that a signal asked for is carried out, or the process has ended.
DrainCompletes ==
    \A d \in 1..MaxSignals : drain[d] = "scheduled" ~> drain[d] = "done" \/ phase = "exited"

\* Once the server has left the lifespan, lifespan ends: it waits for no task that
\* waits for it.
ExitReturns == phase \in {"awaiting", "draining"} ~> phase = "exited"

\* Every feedback request is answered, also one that has to start the service.
SubmitsAnswered ==
    \A r \in Submits :
        submit[r] \in {"starting", "sending"} ~> submit[r] \in {"accepted", "refused"}
=============================================================================
