---------------------------- MODULE LifespanProofs ----------------------------
(***************************************************************************)
(* Proofs about Lifespan, for any set of feedback requests, any number of  *)
(* signals and any number of retries: what a drain has stopped, in which   *)
(* order, before lifespan ends, and when a producer can leak.              *)
(***************************************************************************)
EXTENDS Lifespan, FiniteSetTheorems, TLAPS

\* What runs can be found on app.state by the drain that has to stop it.
ServicesRegistered ==
    /\ consumer => "kafka_consumer" \in registered
    /\ batch # "off" => "async_batch_service" \in registered

\* One drain at most does the work: it stops the consumer in its first step, then waits
\* for the batch service.
DrainsOnce ==
    /\ phase = "new" => ~draining /\ shutdownTask = NoTask
    /\ ~draining => /\ \A d \in Drains : drain[d] \in {"none", "scheduled"}
                    /\ shutdownTask = NoTask => \A d \in Drains : drain[d] = "none"
                    /\ batch # "stopping"
    /\ draining => /\ ~consumer /\ batch # "running" /\ shutdownTask # NoTask
                   /\ batch = "stopping" => \E d \in Drains : drain[d] = "stopping"
    /\ \A d, e \in Drains : drain[d] = "stopping" /\ drain[e] = "stopping" => d = e
    /\ shutdownTask # NoTask => drain[shutdownTask] # "none"

\* lifespan waits for a drain that a signal asked for, or drains itself when there is
\* none or when it is over.
ExitOrder ==
    /\ phase \in {"new", "starting", "serving", "awaiting"} =>
           drain[Startup] = "none" /\ shutdownTask # Startup
    /\ phase = "awaiting" => awaited \in 1..MaxSignals /\ drain[awaited] # "none"
    /\ phase = "draining" =>
           /\ draining
           /\ \/ \A d \in 1..MaxSignals : drain[d] = "none"
              \/ shutdownTask \in 1..MaxSignals /\ drain[shutdownTask] = "done"

\* Once the service has been started, it is started again only after a drain has stopped
\* it; a caller that creates a producer meanwhile alone finds none.
StartsAlone ==
    /\ phase = "new" => ~overlapped /\ ~started
    /\ phase # "starting" => attempts[Startup] = 0
    /\ phase \in {"new", "starting"} => \A r \in Submits : attempts[r] = 0
    /\ Initialising # {} => kafkaEnabled /\ (started => overlapped)
    /\ ~overlapped => opened \subseteq {producer} /\ \A c, d \in Initialising : c = d
    /\ overlapped => draining
    /\ producer # NoProducer => started
    /\ kafkaEnabled /\ ~draining /\ phase \notin {"new", "starting"} => started

LifespanInv ==
    /\ LifespanTypeOK
    /\ ServicesRegistered /\ DrainsOnce /\ ExitOrder /\ StartsAlone
    /\ ExitAfterDrain

-----------------------------------------------------------------------------

\* What a signal asked for is all there is to wait for, if it asked once.
LEMMA OneSignalDrain ==
    ASSUME Cardinality(SignalDrains) <= 1, NEW d \in 1..MaxSignals, NEW e \in 1..MaxSignals,
           drain[d] # "none", drain[e] # "none"
    PROVE  d = e
<1> SUFFICES ASSUME d # e PROVE FALSE
  OBVIOUS
<1>1. IsFiniteSet(1..MaxSignals)
  BY FS_Interval, LifespanAssumption
<1>2. IsFiniteSet(SignalDrains)
  BY <1>1, FS_Subset DEF SignalDrains
<1>3. {d} \cup {e} \in SUBSET SignalDrains
  BY DEF SignalDrains
<1>4. Cardinality({d} \cup {e}) = 2
  <2>1. IsFiniteSet({d}) /\ Cardinality({d}) = 1 /\ e \notin {d}
    BY FS_Singleton
  <2> QED
    BY <2>1, FS_AddElement
<1>5. Cardinality({d} \cup {e}) <= Cardinality(SignalDrains)
  BY <1>2, <1>3, FS_Subset
<1>6. Cardinality(SignalDrains) \in Nat
  BY <1>2, FS_CardinalityType
<1> QED
  BY <1>4, <1>5, <1>6

LEMMA LifespanInitInv == LifespanInit => LifespanInv
<1> SUFFICES ASSUME LifespanInit PROVE LifespanInv
  OBVIOUS
<1> USE LifespanAssumption, FeedbackAssumption DEF LifespanInit, FeedbackInit
<1>1. LifespanTypeOK
  <2>1. FeedbackTypeOK
    <3>1. attempts \in [Starters -> 0..InitRetries]
      OBVIOUS
    <3>2. submit \in [Submits -> SubmitState]
      BY DEF SubmitState
    <3>3. kafkaEnabled \in BOOLEAN /\ started \in BOOLEAN /\ overlapped \in BOOLEAN
      BY DEF FeedbackInit
    <3> QED
      BY <3>1, <3>2, <3>3 DEF FeedbackTypeOK
  <2>2. drain \in [Drains -> {"none", "scheduled", "stopping", "done"}] /\ signals \in 0..MaxSignals
    BY DEF LifespanInit
  <2>3. consumer \in BOOLEAN /\ draining \in BOOLEAN
    BY DEF LifespanInit
  <2> QED
    BY <2>1, <2>2, <2>3 DEF LifespanTypeOK
<1>2. ServicesRegistered /\ DrainsOnce /\ ExitOrder /\ ExitAfterDrain
  BY DEF ServicesRegistered, DrainsOnce, ExitOrder, ExitAfterDrain, Drains
<1>3. StartsAlone
  BY DEF StartsAlone, Initialising, Starters
<1> QED
  BY <1>1, <1>2, <1>3 DEF LifespanInv

\* Every step keeps the types.
LEMMA FeedbackTyped ==
    ASSUME FeedbackTypeOK, NEW c \in Starters,
           \/ BeginProducer(c) /\ submit' \in [Submits -> SubmitState]
           \/ ProducerCreated(c) /\ submit' \in [Submits -> SubmitState]
           \/ GiveUp(c) /\ submit' \in [Submits -> SubmitState]
           \/ AttemptFailed(c)
    PROVE  FeedbackTypeOK'
<1> USE FeedbackAssumption DEF FeedbackTypeOK
<1>1. CASE BeginProducer(c) /\ submit' \in [Submits -> SubmitState]
  BY <1>1 DEF BeginProducer
<1>2. CASE ProducerCreated(c) /\ submit' \in [Submits -> SubmitState]
  BY <1>2 DEF ProducerCreated
<1>3. CASE GiveUp(c) /\ submit' \in [Submits -> SubmitState]
  BY <1>3 DEF GiveUp
<1>4. CASE AttemptFailed(c)
  BY <1>4 DEF AttemptFailed
<1> QED
  BY <1>1, <1>2, <1>3, <1>4

LEMMA ProceedTyped ==
    ASSUME FeedbackTypeOK, NEW r \in Submits, NEW p, Proceed(r, p)
    PROVE  submit' \in [Submits -> SubmitState]
  BY DEF FeedbackTypeOK, Proceed, SubmitState

LEMMA StopRestTyped == FeedbackTypeOK /\ StopRest => FeedbackTypeOK'
  BY FeedbackAssumption DEF FeedbackTypeOK, StopRest, StopFeedback, feedbackVars

LEMMA ShutdownServicesTyped ==
    ASSUME LifespanTypeOK, NEW d \in Drains, ShutdownServices(d)
    PROVE  /\ consumer' \in BOOLEAN /\ draining' \in BOOLEAN
           /\ batch' \in {"off", "running", "stopping"}
           /\ shutdownTask' \in Drains \cup {NoTask}
           /\ drain' \in [Drains -> {"none", "scheduled", "stopping", "done"}]
           /\ FeedbackTypeOK'
<1>1. FeedbackTypeOK'
  <2>1. StopRest \/ UNCHANGED feedbackVars
    BY DEF ShutdownServices, BeginDrain, feedbackVars
  <2>2. FeedbackTypeOK
    BY DEF LifespanTypeOK
  <2> QED
    BY <2>1, <2>2, StopRestTyped DEF FeedbackTypeOK, feedbackVars
<1>2. CASE draining
  BY <1>1, <1>2 DEF ShutdownServices, LifespanTypeOK
<1>3. CASE ~draining /\ BeginDrain(d)
  <2>1. draining' \in BOOLEAN /\ consumer' \in BOOLEAN /\ batch' \in {"off", "running", "stopping"}
    BY <1>3 DEF BeginDrain, LifespanTypeOK
  <2>2. /\ shutdownTask' \in Drains \cup {NoTask}
        /\ drain' \in [Drains -> {"none", "scheduled", "stopping", "done"}]
    BY <1>3 DEF BeginDrain, LifespanTypeOK
  <2> QED
    BY <1>1, <2>1, <2>2
<1> QED
  BY <1>2, <1>3 DEF ShutdownServices

LEMMA TypeStep == LifespanTypeOK /\ [LifespanNext]_appVars => LifespanTypeOK'
<1> USE LifespanAssumption, FeedbackAssumption
<1> SUFFICES ASSUME LifespanTypeOK, [LifespanNext]_appVars PROVE LifespanTypeOK'
  OBVIOUS
<1>0. /\ FeedbackTypeOK /\ Startup \in Starters /\ Submits \subseteq Starters
      /\ Startup \in Drains /\ 1..MaxSignals \subseteq Drains
      /\ submit \in [Submits -> SubmitState]
  BY DEF LifespanTypeOK, FeedbackTypeOK, Starters, Drains
<1>1. CASE BeginStartup
  <2>1. FeedbackTypeOK'
    <3>1. CASE BeginProducer(Startup) /\ UNCHANGED submit
      BY <1>0, <3>1, FeedbackTyped
    <3>2. CASE started' = TRUE /\ UNCHANGED <<submit, kafkaEnabled, producer, attempts, opened, overlapped>>
      BY <1>0, <3>2 DEF FeedbackTypeOK
    <3> QED
      BY <1>1, <3>1, <3>2 DEF BeginStartup
  <2>2. phase' \in {"starting", "serving"} /\ registered' \subseteq Services
    BY <1>1 DEF BeginStartup
  <2>3. consumer' \in BOOLEAN /\ batch' \in {"off", "running"}
    BY <1>1 DEF BeginStartup
  <2> QED
    BY <1>1, <2>1, <2>2, <2>3 DEF BeginStartup, LifespanTypeOK
<1>2. CASE StartupRetry
  BY <1>0, <1>2, FeedbackTyped DEF StartupRetry, lifespanVars, LifespanTypeOK
<1>3. CASE EndStartup
  <2>1. FeedbackTypeOK'
    BY <1>0, <1>3, FeedbackTyped DEF EndStartup
  <2> QED
    BY <1>3, <2>1 DEF EndStartup, LifespanTypeOK, Services
<1>4. CASE Signal
  <2>1. signals' \in 1..MaxSignals
    BY <1>4 DEF Signal, LifespanTypeOK
  <2>2. FeedbackTypeOK'
    BY <1>0, <1>4 DEF Signal, feedbackVars, FeedbackTypeOK
  <2>3. shutdownTask' \in Drains \cup {NoTask}
    BY <1>0, <1>4, <2>1 DEF Signal, LifespanTypeOK
  <2>4. drain' \in [Drains -> {"none", "scheduled", "stopping", "done"}]
    BY <1>0, <1>4, <2>1 DEF Signal, LifespanTypeOK
  <2> QED
    BY <1>4, <2>1, <2>2, <2>3, <2>4 DEF Signal, LifespanTypeOK
<1>5. ASSUME NEW d \in Drains, RunDrainTask(d) PROVE LifespanTypeOK'
  BY <1>5, ShutdownServicesTyped DEF RunDrainTask, LifespanTypeOK
<1>6. ASSUME NEW d \in Drains, BatchStopped(d) PROVE LifespanTypeOK'
  <2>1. FeedbackTypeOK'
    BY <1>0, <1>6, StopRestTyped DEF BatchStopped
  <2> QED
    BY <1>6, <2>1 DEF BatchStopped, LifespanTypeOK
<1>7. CASE ServerExit
  <2>1. CASE ShutdownServices(Startup) /\ UNCHANGED <<awaited, registered, signals>> /\ phase' = "draining"
    BY <1>0, <2>1, ShutdownServicesTyped DEF LifespanTypeOK
  <2>2. CASE /\ shutdownTask # NoTask /\ phase' = "awaiting" /\ awaited' = shutdownTask
             /\ UNCHANGED <<drain, draining, shutdownTask, consumer, batch, feedbackVars,
                            registered, signals>>
    BY <1>0, <2>2 DEF LifespanTypeOK, FeedbackTypeOK, feedbackVars
  <2> QED
    BY <1>7, <2>1, <2>2 DEF ServerExit
<1>8. CASE Exit
  BY <1>8 DEF Exit, LifespanTypeOK, FeedbackTypeOK, feedbackVars
<1>9. ASSUME NEW r \in Submits, SubmitFeedback(r) PROVE LifespanTypeOK'
  <2>1. Submit(r)
    BY <1>9 DEF SubmitFeedback
  <2>2. CASE submit' = [submit EXCEPT ![r] = "starting"] /\ BeginProducer(r)
    <3>1. submit' \in [Submits -> SubmitState]
      BY <1>0, <2>2 DEF SubmitState
    <3>2. FeedbackTypeOK'
      BY <1>0, <2>2, <3>1, FeedbackTyped
    <3> QED
      BY <1>9, <3>2 DEF SubmitFeedback, lifespanVars, LifespanTypeOK
  <2>3. CASE /\ started' = TRUE /\ Proceed(r, producer)
             /\ UNCHANGED <<kafkaEnabled, producer, attempts, opened, overlapped>>
    <3>1. submit' \in [Submits -> SubmitState]
      BY <1>0, <2>3, ProceedTyped
    <3>2. FeedbackTypeOK'
      BY <1>0, <2>3, <3>1 DEF FeedbackTypeOK
    <3> QED
      BY <1>9, <3>2 DEF SubmitFeedback, lifespanVars, LifespanTypeOK
  <2> QED
    BY <2>1, <2>2, <2>3 DEF Submit
<1>10. ASSUME NEW r \in Submits, SubmitStep(r) PROVE LifespanTypeOK'
  <2>1. FeedbackTypeOK'
    <3>1. CASE LazyStartReturns(r)
      <4>1. submit' \in [Submits -> SubmitState]
        BY <1>0, <3>1, ProceedTyped DEF LazyStartReturns, Proceed, SubmitState
      <4> QED
        BY <1>0, <3>1, <4>1, FeedbackTyped DEF LazyStartReturns
    <3>2. CASE AttemptFailed(r)
      BY <1>0, <3>2, FeedbackTyped
    <3>3. CASE Send(r)
      BY <1>0, <3>3 DEF Send, FeedbackTypeOK, SubmitState
    <3> QED
      BY <1>10, <3>1, <3>2, <3>3 DEF SubmitStep
  <2> QED
    BY <1>10, <2>1 DEF SubmitStep, lifespanVars, LifespanTypeOK
<1>11. CASE UNCHANGED appVars
  BY <1>11 DEF appVars, lifespanVars, feedbackVars, LifespanTypeOK, FeedbackTypeOK
<1> QED
  BY <1>1, <1>2, <1>3, <1>4, <1>5, <1>6, <1>7, <1>8, <1>9, <1>10, <1>11
  DEF LifespanNext, Ended

\* What the first step of a drain does: it stops the consumer, and the batch service
\* unless that has to be waited for.
LEMMA DrainBegins ==
    ASSUME LifespanTypeOK, ServicesRegistered, DrainsOnce, NEW d \in Drains,
           ~draining, BeginDrain(d)
    PROVE  /\ draining' = TRUE /\ ~consumer'
           /\ shutdownTask' = IF shutdownTask = NoTask THEN d ELSE shutdownTask
           /\ \/ batch' = "stopping" /\ drain' = [drain EXCEPT ![d] = "stopping"]
              \/ batch' = "off" /\ drain' = [drain EXCEPT ![d] = "done"]
  BY DEF BeginDrain, LifespanTypeOK, ServicesRegistered, DrainsOnce

LEMMA DrainsBegun ==
    ASSUME LifespanTypeOK, ServicesRegistered, DrainsOnce, NEW d \in Drains,
           ShutdownServices(d), registered' = registered, phase # "new", phase' # "new",
           drain[d] # "stopping"
    PROVE  ServicesRegistered' /\ DrainsOnce'
<1> USE LifespanAssumption DEF LifespanTypeOK
<1>1. CASE draining
  <2>1. ServicesRegistered'
    BY <1>1 DEF ShutdownServices, ServicesRegistered
  <2>2. DrainsOnce'
    BY <1>1 DEF ShutdownServices, DrainsOnce
  <2> QED
    BY <2>1, <2>2
<1>2. CASE ~draining /\ BeginDrain(d)
  <2>1. ServicesRegistered'
    BY <1>2 DEF BeginDrain, ServicesRegistered
  <2>2. /\ draining' = TRUE /\ ~consumer'
        /\ shutdownTask' = IF shutdownTask = NoTask THEN d ELSE shutdownTask
        /\ \/ batch' = "stopping" /\ drain' = [drain EXCEPT ![d] = "stopping"]
           \/ batch' = "off" /\ drain' = [drain EXCEPT ![d] = "done"]
    BY <1>2, DrainBegins
  <2>3. /\ \A e \in Drains : drain[e] \in {"none", "scheduled"}
        /\ shutdownTask # NoTask => drain[shutdownTask] # "none"
    BY <1>2 DEF DrainsOnce
  <2>4. DrainsOnce'
    BY <2>2, <2>3 DEF DrainsOnce, Drains
  <2> QED
    BY <2>1, <2>4
<1> QED
  BY <1>1, <1>2 DEF ShutdownServices

\* The order of drains and exit is kept by every step.
DrainInv == ServicesRegistered /\ DrainsOnce /\ ExitOrder /\ ExitAfterDrain

LEMMA DrainStep ==
    ASSUME LifespanTypeOK, DrainInv, [LifespanNext]_appVars
    PROVE  DrainInv'
<1> USE LifespanAssumption
<1>0. /\ Startup \in Drains /\ 1..MaxSignals \subseteq Drains /\ NoTask \notin Drains
      /\ Drains \subseteq 1..MaxSignals \cup {Startup}
      /\ drain \in [Drains -> {"none", "scheduled", "stopping", "done"}]
      /\ ServicesRegistered /\ DrainsOnce /\ ExitOrder /\ ExitAfterDrain
  BY DEF LifespanTypeOK, Drains, DrainInv
<1>1. CASE BeginStartup
  <2>1. ServicesRegistered'
    BY <1>1 DEF BeginStartup, ServicesRegistered, Services
  <2>2. /\ phase = "new" /\ phase' \in {"starting", "serving"} /\ batch' # "stopping"
        /\ UNCHANGED <<draining, shutdownTask, signals, drain, awaited>>
    BY <1>1 DEF BeginStartup
  <2>3. DrainsOnce'
    BY <1>0, <2>2 DEF DrainsOnce
  <2>4. ExitOrder' /\ ExitAfterDrain'
    BY <1>0, <2>2 DEF ExitOrder, ExitAfterDrain
  <2> QED
    BY <2>1, <2>3, <2>4 DEF DrainInv
<1>2. CASE StartupRetry \/ UNCHANGED appVars \/ \E r \in Submits : SubmitFeedback(r) \/ SubmitStep(r)
  <2>1. UNCHANGED lifespanVars
    BY <1>2 DEF StartupRetry, SubmitFeedback, SubmitStep, appVars
  <2> QED
    BY <1>0, <2>1
    DEF lifespanVars, DrainInv, ServicesRegistered, DrainsOnce, ExitOrder, ExitAfterDrain,
        SignalDrains
<1>3. CASE EndStartup
  <2>1. /\ phase = "starting" /\ phase' = "serving"
        /\ registered' = registered \cup {"feedback_service"}
        /\ UNCHANGED <<consumer, batch, draining, shutdownTask, signals, drain, awaited>>
    BY <1>3 DEF EndStartup
  <2> QED
    BY <1>0, <2>1 DEF DrainInv, ServicesRegistered, DrainsOnce, ExitOrder, ExitAfterDrain
<1>4. CASE Signal
  <2>1. signals' \in 1..MaxSignals /\ signals' # Startup /\ signals' # NoTask /\ signals' \in Drains
    BY <1>0, <1>4 DEF Signal, LifespanTypeOK
  <2>2. UNCHANGED <<phase, registered, consumer, batch, draining, awaited>>
        /\ phase \notin {"new", "exited"}
    BY <1>4 DEF Signal
  <2>3. CASE draining
    <3>1. UNCHANGED <<shutdownTask, drain>>
      BY <1>4, <2>3 DEF Signal
    <3> QED
      BY <1>0, <2>2, <3>1
      DEF DrainInv, ServicesRegistered, DrainsOnce, ExitOrder, ExitAfterDrain
  <2>4. CASE ~draining
    <3> DEFINE g == signals'
    <3>1. shutdownTask' = g /\ drain' = [drain EXCEPT ![g] = "scheduled"]
      BY <1>4, <2>4 DEF Signal
    <3>2. g \in 1..MaxSignals /\ g # Startup /\ g # NoTask /\ g \in Drains
      BY <2>1
    <3> HIDE DEF g
    <3>3. /\ drain'[g] = "scheduled" /\ \A d \in Drains \ {g} : drain'[d] = drain[d]
      BY <1>0, <3>1, <3>2
    <3>4. ServicesRegistered'
      BY <1>0, <2>2 DEF ServicesRegistered
    <3>5. DrainsOnce'
      BY <1>0, <2>2, <2>4, <3>1, <3>2, <3>3 DEF DrainsOnce
    <3>6. ExitOrder' /\ ExitAfterDrain'
      BY <1>0, <2>2, <2>4, <3>1, <3>2, <3>3 DEF ExitOrder, ExitAfterDrain
    <3> QED
      BY <3>4, <3>5, <3>6 DEF DrainInv
  <2> QED
    BY <2>3, <2>4
<1>5. ASSUME NEW d \in Drains, RunDrainTask(d) PROVE DrainInv'
  <2>1. /\ d \in 1..MaxSignals /\ phase # "exited" /\ drain[d] = "scheduled"
        /\ ShutdownServices(d) /\ UNCHANGED <<phase, registered, signals, awaited>>
    BY <1>5 DEF RunDrainTask
  <2>2. shutdownTask # NoTask /\ phase # "new"
    BY <1>0, <2>1 DEF DrainsOnce
  <2>3. ServicesRegistered' /\ DrainsOnce'
    BY <1>0, <2>1, <2>2, DrainsBegun
  <2>4. /\ shutdownTask' = shutdownTask /\ (draining => draining')
        /\ drain' \in [Drains -> {"none", "scheduled", "stopping", "done"}]
        /\ drain'[d] \in {"stopping", "done"} /\ \A e \in Drains \ {d} : drain'[e] = drain[e]
    BY <1>0, <2>1, <2>2 DEF ShutdownServices, BeginDrain
  <2>5. draining => drain'[d] = "done"
    BY <1>0, <2>1 DEF ShutdownServices
  <2>6. ExitOrder'
    BY <1>0, <2>1, <2>2, <2>4, <2>5 DEF ExitOrder
  <2>7. ExitAfterDrain'
    BY <2>1 DEF ExitAfterDrain
  <2> QED
    BY <2>3, <2>6, <2>7 DEF DrainInv
<1>6. ASSUME NEW d \in Drains, BatchStopped(d) PROVE DrainInv'
  <2>1. /\ phase # "exited" /\ drain[d] = "stopping" /\ batch' = "off"
        /\ drain' = [drain EXCEPT ![d] = "done"]
        /\ UNCHANGED <<phase, registered, consumer, draining, shutdownTask, signals, awaited>>
    BY <1>6 DEF BatchStopped
  <2>2. drain'[d] = "done" /\ \A e \in Drains \ {d} : drain'[e] = drain[e]
    BY <1>0, <2>1
  <2>3. ServicesRegistered' /\ ExitAfterDrain'
    BY <1>0, <2>1 DEF ServicesRegistered, ExitAfterDrain
  <2>4. DrainsOnce'
    BY <1>0, <2>1, <2>2 DEF DrainsOnce
  <2>5. ExitOrder'
    BY <1>0, <2>1, <2>2 DEF ExitOrder
  <2> QED
    BY <2>3, <2>4, <2>5 DEF DrainInv
<1>7. CASE ServerExit
  <2>1. phase = "serving" /\ UNCHANGED <<registered, signals>>
    BY <1>7 DEF ServerExit
  <2>2. drain[Startup] = "none" /\ shutdownTask # Startup
    BY <1>0, <2>1 DEF ExitOrder
  <2>3. CASE /\ shutdownTask # NoTask /\ phase' = "awaiting" /\ awaited' = shutdownTask
             /\ UNCHANGED <<drain, draining, shutdownTask, consumer, batch>>
    <3>1. shutdownTask \in 1..MaxSignals
      BY <1>0, <2>2, <2>3 DEF LifespanTypeOK
    <3> QED
      BY <1>0, <2>1, <2>2, <2>3, <3>1
      DEF DrainInv, ServicesRegistered, DrainsOnce, ExitOrder, ExitAfterDrain
  <2>4. CASE /\ shutdownTask = NoTask \/ Done(shutdownTask)
             /\ phase' = "draining" /\ ShutdownServices(Startup)
    <3>1. ServicesRegistered' /\ DrainsOnce'
      BY <1>0, <2>1, <2>2, <2>4, DrainsBegun
    <3>2. draining' /\ \A d \in 1..MaxSignals : drain'[d] = drain[d]
      BY <1>0, <2>4 DEF ShutdownServices, BeginDrain
    <3>3. CASE shutdownTask = NoTask
      <4>1. \A d \in 1..MaxSignals : drain[d] = "none"
        BY <1>0, <3>3 DEF DrainsOnce
      <4> QED
        BY <2>4, <3>1, <3>2, <4>1 DEF DrainInv, ExitOrder, ExitAfterDrain
    <3>4. CASE shutdownTask # NoTask
      <4>1. drain[shutdownTask] = "done" /\ shutdownTask \in 1..MaxSignals
        BY <1>0, <2>2, <2>4, <3>4 DEF LifespanTypeOK, Done
      <4>2. draining
        BY <1>0, <4>1 DEF DrainsOnce
      <4>3. shutdownTask' = shutdownTask
        BY <2>4, <4>2 DEF ShutdownServices
      <4> QED
        BY <2>4, <3>1, <3>2, <4>1, <4>3 DEF DrainInv, ExitOrder, ExitAfterDrain
    <3> QED
      BY <3>3, <3>4
  <2> QED
    BY <1>7, <2>3, <2>4 DEF ServerExit
<1>8. CASE Exit
  <2>1. /\ phase' = "exited"
        /\ UNCHANGED <<registered, consumer, batch, draining, shutdownTask, signals, drain,
                       awaited>>
    BY <1>8 DEF Exit
  <2>2. ServicesRegistered' /\ DrainsOnce' /\ ExitOrder'
    BY <1>0, <1>8, <2>1 DEF Exit, ServicesRegistered, DrainsOnce, ExitOrder
  <2>3. SignalDrains' = SignalDrains
    BY <2>1 DEF SignalDrains
  <2>4. ASSUME Cardinality(SignalDrains) <= 1
        PROVE  draining /\ \A d \in Drains : drain[d] \in {"none", "done"}
    <3>1. CASE phase = "awaiting" /\ Done(awaited)
      <4>1. awaited \in 1..MaxSignals /\ drain[awaited] = "done" /\ drain[Startup] = "none"
        BY <1>0, <3>1 DEF ExitOrder, Done
      <4>2. \A d \in 1..MaxSignals : drain[d] # "none" => d = awaited
        BY <2>4, <4>1, OneSignalDrain
      <4> QED
        BY <1>0, <4>1, <4>2 DEF DrainsOnce
    <3>2. CASE phase = "draining" /\ Done(Startup)
      <4>1. draining /\ drain[Startup] = "done"
        BY <1>0, <3>2 DEF ExitOrder, Done
      <4>2. CASE \A d \in 1..MaxSignals : drain[d] = "none"
        BY <1>0, <4>1, <4>2
      <4>3. CASE shutdownTask \in 1..MaxSignals /\ drain[shutdownTask] = "done"
        <5>1. \A d \in 1..MaxSignals : drain[d] # "none" => d = shutdownTask
          BY <2>4, <4>3, OneSignalDrain
        <5> QED
          BY <1>0, <4>1, <4>3, <5>1
      <4> QED
        BY <1>0, <3>2, <4>2, <4>3 DEF ExitOrder
    <3> QED
      BY <1>8, <3>1, <3>2 DEF Exit
  <2>5. ExitAfterDrain'
    <3> SUFFICES ASSUME Cardinality(SignalDrains) <= 1
                 PROVE  /\ \A d \in Drains : drain[d] \in {"none", "done"}
                        /\ batch = "off" /\ ~consumer
      BY <2>1, <2>3 DEF ExitAfterDrain
    <3>1. draining /\ \A d \in Drains : drain[d] \in {"none", "done"}
      BY <2>4
    <3> QED
      BY <1>0, <3>1 DEF DrainsOnce, LifespanTypeOK
  <2> QED
    BY <2>2, <2>5 DEF DrainInv
<1> QED
  BY <1>1, <1>2, <1>3, <1>4, <1>5, <1>6, <1>7, <1>8 DEF LifespanNext, Ended

-----------------------------------------------------------------------------
(* The producer.                                                             *)

\* c alone is creating a producer, or others are as well.
LEMMA BeginsAlone ==
    ASSUME LifespanTypeOK, StartsAlone, NEW c \in Starters, BeginProducer(c)
    PROVE  /\ Initialising' = Initialising \cup {c}
           /\ overlapped' = (overlapped \/ Initialising # {})
           /\ UNCHANGED <<kafkaEnabled, producer, started, opened>>
           /\ attempts'[c] # 0
           /\ \A d \in Starters \ {c} : attempts'[d] = attempts[d]
  BY FeedbackAssumption DEF BeginProducer, Initialising, LifespanTypeOK, FeedbackTypeOK

\* The producer c was creating is there, or c has given up.
Returned(c) ==
    /\ c \in Initialising /\ Initialising' = Initialising \ {c}
    /\ started' = TRUE
    /\ UNCHANGED <<kafkaEnabled, overlapped>>
    /\ \/ producer' = c /\ opened' = opened \cup {c}
       \/ producer' = NoProducer /\ opened' = opened
    /\ attempts'[c] = 0
    /\ \A d \in Starters \ {c} : attempts'[d] = attempts[d]

LEMMA ReturnsEffect ==
    ASSUME LifespanTypeOK, NEW c \in Starters, ProducerCreated(c) \/ GiveUp(c)
    PROVE  Returned(c)
<1>1. CASE ProducerCreated(c)
  BY <1>1 DEF ProducerCreated, Initialising, Returned, LifespanTypeOK, FeedbackTypeOK
<1>2. CASE GiveUp(c)
  BY <1>2 DEF GiveUp, Initialising, Returned, LifespanTypeOK, FeedbackTypeOK
<1> QED
  BY <1>1, <1>2

\* A caller that created its producer alone leaves one producer at most.
LEMMA ReturnedAlone ==
    ASSUME LifespanTypeOK, StartsAlone, NEW c \in Starters, Returned(c)
    PROVE  /\ Initialising' # {} => kafkaEnabled' /\ (started' => overlapped')
           /\ ~overlapped' => opened' \subseteq {producer'} /\ \A d, e \in Initialising' : d = e
           /\ producer' # NoProducer => started'
<1>1. opened \subseteq Starters /\ NoProducer \notin Starters
  BY FeedbackAssumption DEF LifespanTypeOK, FeedbackTypeOK, Starters
<1>2. CASE overlapped
  BY <1>2 DEF Returned, StartsAlone
<1>3. CASE ~overlapped
  <2>1. ~started /\ producer = NoProducer /\ opened = {} /\ Initialising = {c}
    BY <1>1, <1>3 DEF Returned, StartsAlone
  <2> QED
    BY <1>3, <2>1 DEF Returned
<1> QED
  BY <1>2, <1>3

LEMMA StopRestAlone ==
    ASSUME StartsAlone, StopRest
    PROVE  /\ UNCHANGED <<kafkaEnabled, attempts, overlapped>> /\ Initialising' = Initialising
           /\ Initialising' # {} => kafkaEnabled' /\ (started' => overlapped')
           /\ ~overlapped' => opened' \subseteq {producer'} /\ \A d, e \in Initialising' : d = e
           /\ producer' # NoProducer => started'
<1>1. UNCHANGED <<kafkaEnabled, attempts, overlapped>>
  BY DEF StopRest, StopFeedback, feedbackVars
<1>2. Initialising' = Initialising
  BY <1>1 DEF Initialising
<1>3. \/ UNCHANGED <<started, opened, producer>>
      \/ ~started' /\ producer' = NoProducer /\ opened' = opened \ {producer}
  BY DEF StopRest, StopFeedback, feedbackVars
<1> QED
  BY <1>1, <1>2, <1>3 DEF StartsAlone

LEMMA StartStep ==
    ASSUME LifespanTypeOK, DrainInv, StartsAlone, [LifespanNext]_appVars
    PROVE  StartsAlone'
<1> USE LifespanAssumption, FeedbackAssumption
<1>0. /\ Startup \in Starters /\ Submits \subseteq Starters /\ Startup \notin Submits
      /\ Starters \subseteq Submits \cup {Startup}
      /\ attempts \in [Starters -> 0..InitRetries] /\ Initialising \subseteq Starters
      /\ \A c \in Starters : c \in Initialising <=> attempts[c] # 0
  BY DEF LifespanTypeOK, FeedbackTypeOK, Starters, Initialising
<1>1. CASE BeginStartup
  <2>1. /\ phase = "new" /\ draining' = draining /\ ~draining /\ ~overlapped /\ ~started
        /\ Initialising = {}
    BY <1>0, <1>1 DEF BeginStartup, DrainInv, DrainsOnce, StartsAlone
  <2>2. CASE kafkaEnabled
    <3>1. phase' = "starting" /\ BeginProducer(Startup)
      BY <1>1, <2>2 DEF BeginStartup
    <3>2. /\ Initialising' = {Startup} /\ ~overlapped'
          /\ UNCHANGED <<kafkaEnabled, producer, started, opened>>
          /\ \A r \in Submits : attempts'[r] = attempts[r]
      <4>1. /\ Initialising' = Initialising \cup {Startup}
            /\ overlapped' = (overlapped \/ Initialising # {})
            /\ UNCHANGED <<kafkaEnabled, producer, started, opened>>
            /\ \A d \in Starters \ {Startup} : attempts'[d] = attempts[d]
        BY <1>0, <3>1, BeginsAlone
      <4> QED
        BY <1>0, <2>1, <4>1
    <3> QED
      BY <1>0, <2>1, <2>2, <3>1, <3>2 DEF StartsAlone
  <2>3. CASE ~kafkaEnabled
    <3>1. /\ phase' = "serving" /\ started' = TRUE
          /\ UNCHANGED <<kafkaEnabled, producer, attempts, opened, overlapped>>
      BY <1>1, <2>3 DEF BeginStartup
    <3>2. Initialising' = Initialising
      BY <3>1 DEF Initialising
    <3> QED
      BY <1>0, <2>1, <2>3, <3>1, <3>2 DEF StartsAlone
  <2> QED
    BY <2>2, <2>3
<1>2. ASSUME NEW c \in Starters, AttemptFailed(c), UNCHANGED lifespanVars PROVE StartsAlone'
  <2>1. /\ UNCHANGED <<kafkaEnabled, producer, started, opened, overlapped, phase, draining>>
        /\ attempts' = [attempts EXCEPT ![c] = @ - 1] /\ attempts[c] > 1
    BY <1>2 DEF AttemptFailed, lifespanVars
  <2>2. \A d \in Starters : attempts'[d] # 0 <=> attempts[d] # 0
    BY <1>0, <2>1
  <2>3. Initialising' = Initialising
    BY <1>0, <2>1 DEF Initialising
  <2> QED
    BY <1>0, <2>1, <2>2, <2>3 DEF StartsAlone
<1>3. CASE EndStartup
  <2>1. phase = "starting" /\ phase' = "serving" /\ draining' = draining
    BY <1>3 DEF EndStartup
  <2>2. Returned(Startup)
    BY <1>0, <1>3, ReturnsEffect DEF EndStartup
  <2>3. /\ Initialising' # {} => kafkaEnabled' /\ (started' => overlapped')
        /\ ~overlapped' => opened' \subseteq {producer'} /\ \A d, e \in Initialising' : d = e
        /\ producer' # NoProducer => started'
    BY <1>0, <2>2, ReturnedAlone
  <2> QED
    BY <2>1, <2>2, <2>3 DEF Returned, StartsAlone
<1>4. CASE Signal \/ Exit
  <2>1. UNCHANGED feedbackVars /\ UNCHANGED draining
    BY <1>4 DEF Signal, Exit
  <2>2. phase' = phase \/ (phase \notin {"new", "starting"} /\ phase' = "exited")
    BY <1>4 DEF Signal, Exit
  <2> QED
    BY <2>1, <2>2 DEF feedbackVars, Initialising, StartsAlone
<1>5. ASSUME NEW d \in Drains, ShutdownServices(d),
             phase' = phase \/ (phase = "serving" /\ phase' = "draining")
      PROVE  StartsAlone'
  <2>1. draining' /\ (StopRest \/ UNCHANGED feedbackVars)
    BY <1>5 DEF ShutdownServices, BeginDrain
  <2>2. CASE phase # "new"
    <3>1. CASE StopRest
      <4>1. /\ UNCHANGED <<kafkaEnabled, attempts, overlapped>> /\ Initialising' = Initialising
            /\ Initialising' # {} => kafkaEnabled' /\ (started' => overlapped')
            /\ ~overlapped' => opened' \subseteq {producer'} /\ \A b, e \in Initialising' : b = e
            /\ producer' # NoProducer => started'
        BY <3>1, StopRestAlone
      <4> QED
        BY <1>5, <2>1, <2>2, <4>1 DEF StartsAlone
    <3>2. CASE UNCHANGED feedbackVars
      BY <1>5, <2>1, <2>2, <3>2 DEF feedbackVars, Initialising, StartsAlone
    <3> QED
      BY <2>1, <3>1, <3>2
  <2>3. CASE phase = "new"
    <3>1. phase' = "new"
      BY <1>5, <2>3
    <3>2. ~overlapped /\ ~started' /\ UNCHANGED <<attempts, overlapped, kafkaEnabled>>
      BY <2>1, <2>3 DEF StopRest, StopFeedback, feedbackVars, StartsAlone
    <3>3. CASE StopRest
      <4>1. /\ Initialising' = Initialising
            /\ Initialising' # {} => kafkaEnabled' /\ (started' => overlapped')
            /\ ~overlapped' => opened' \subseteq {producer'} /\ \A b, e \in Initialising' : b = e
            /\ producer' # NoProducer => started'
        BY <3>3, StopRestAlone
      <4> QED
        BY <2>1, <2>3, <3>1, <3>2, <4>1 DEF StartsAlone
    <3>4. CASE UNCHANGED feedbackVars
      BY <2>1, <2>3, <3>1, <3>4 DEF feedbackVars, Initialising, StartsAlone
    <3> QED
      BY <2>1, <3>3, <3>4
  <2> QED
    BY <2>2, <2>3
<1>6. ASSUME NEW d \in Drains, BatchStopped(d) PROVE StartsAlone'
  <2>1. StopRest /\ UNCHANGED <<phase, draining>>
    BY <1>6 DEF BatchStopped
  <2>2. draining /\ phase # "new"
    BY <1>6 DEF BatchStopped, DrainInv, DrainsOnce
  <2>3. /\ UNCHANGED <<kafkaEnabled, attempts, overlapped>> /\ Initialising' = Initialising
        /\ Initialising' # {} => kafkaEnabled' /\ (started' => overlapped')
        /\ ~overlapped' => opened' \subseteq {producer'} /\ \A b, e \in Initialising' : b = e
        /\ producer' # NoProducer => started'
    BY <2>1, StopRestAlone
  <2> QED
    BY <2>1, <2>2, <2>3 DEF StartsAlone
<1>7. CASE ServerExit
  <2>1. CASE ShutdownServices(Startup) /\ phase = "serving" /\ phase' = "draining"
    BY <1>5, <2>1 DEF Drains
  <2>2. CASE /\ phase = "serving" /\ phase' = "awaiting"
             /\ UNCHANGED <<draining, feedbackVars>>
    BY <2>2 DEF feedbackVars, Initialising, StartsAlone
  <2> QED
    BY <1>7, <2>1, <2>2 DEF ServerExit
<1>8. ASSUME NEW r \in Submits, SubmitFeedback(r) PROVE StartsAlone'
  <2>1. phase = "serving" /\ Submit(r) /\ UNCHANGED <<phase, draining>>
    BY <1>8 DEF SubmitFeedback, lifespanVars
  <2>2. CASE ~started /\ kafkaEnabled /\ BeginProducer(r)
    <3>1. draining
      BY <2>1, <2>2 DEF StartsAlone
    <3>2. /\ Initialising' = Initialising \cup {r}
          /\ overlapped' = (overlapped \/ Initialising # {})
          /\ UNCHANGED <<kafkaEnabled, producer, started, opened>>
          /\ attempts'[Startup] = attempts[Startup]
      BY <1>0, <2>2, BeginsAlone
    <3> QED
      BY <2>1, <2>2, <3>1, <3>2 DEF StartsAlone
  <2>3. CASE /\ started \/ ~kafkaEnabled
             /\ started' = TRUE
             /\ UNCHANGED <<kafkaEnabled, producer, attempts, opened, overlapped>>
    BY <2>1, <2>3 DEF Initialising, StartsAlone
  <2> QED
    BY <2>1, <2>2, <2>3 DEF Submit
<1>9. ASSUME NEW r \in Submits, SubmitStep(r) PROVE StartsAlone'
  <2>1. UNCHANGED lifespanVars /\ UNCHANGED <<phase, draining>>
    BY <1>9 DEF SubmitStep, lifespanVars
  <2>2. CASE LazyStartReturns(r)
    <3>1. Returned(r)
      BY <1>0, <2>2, ReturnsEffect DEF LazyStartReturns
    <3>2. /\ Initialising' # {} => kafkaEnabled' /\ (started' => overlapped')
          /\ ~overlapped' => opened' \subseteq {producer'} /\ \A d, e \in Initialising' : d = e
          /\ producer' # NoProducer => started'
      BY <1>0, <3>1, ReturnedAlone
    <3>3. phase \notin {"new", "starting"} /\ attempts'[Startup] = attempts[Startup]
      BY <1>0, <3>1 DEF Returned, StartsAlone
    <3> QED
      BY <2>1, <3>1, <3>2, <3>3 DEF Returned, StartsAlone
  <2>3. CASE AttemptFailed(r)
    BY <1>0, <1>2, <2>1, <2>3
  <2>4. CASE Send(r)
    BY <2>1, <2>4 DEF Send, Initialising, StartsAlone
  <2> QED
    BY <1>9, <2>2, <2>3, <2>4 DEF SubmitStep
<1>10. CASE UNCHANGED appVars
  BY <1>10 DEF appVars, lifespanVars, feedbackVars, Initialising, StartsAlone
<1>11. CASE StartupRetry
  BY <1>0, <1>2, <1>11 DEF StartupRetry
<1>12. ASSUME NEW d \in Drains, RunDrainTask(d) PROVE StartsAlone'
  BY <1>5, <1>12 DEF RunDrainTask
<1> QED
  BY <1>1, <1>3, <1>4, <1>6, <1>7, <1>8, <1>9, <1>10, <1>11, <1>12 DEF LifespanNext, Ended

-----------------------------------------------------------------------------
(* The theorems.                                                             *)

LEMMA LifespanStepInv == LifespanInv /\ [LifespanNext]_appVars => LifespanInv'
  BY TypeStep, DrainStep, StartStep DEF LifespanInv, DrainInv

\* What every reachable state of the application satisfies.
THEOREM LifespanInvariant == LifespanSpec => []LifespanInv
  BY LifespanInitInv, LifespanStepInv, PTL DEF LifespanSpec

\* The types, for any number of requests, signals and retries.
THEOREM LifespanTypeCorrect == LifespanSpec => []LifespanTypeOK
<1>1. LifespanInv => LifespanTypeOK
  BY DEF LifespanInv
<1> QED
  BY <1>1, LifespanInvariant, PTL

\* Unless two signals came before the first drain task ran, lifespan ends only when
\* everything it started has been stopped (events.py, lifespan).
THEOREM ExitFollowsDrain == LifespanSpec => []ExitAfterDrain
<1>1. LifespanInv => ExitAfterDrain
  BY DEF LifespanInv
<1> QED
  BY <1>1, LifespanInvariant, PTL

\* A producer is forgotten unclosed only when requests restarted the service at the same
\* time after a drain (feedback_service.py, start).
THEOREM ProducerKept == LifespanSpec => []ProducerNotLeaked
<1>1. LifespanInv => ProducerNotLeaked
  BY DEF LifespanInv, StartsAlone, ProducerNotLeaked
<1> QED
  BY <1>1, LifespanInvariant, PTL

\* The producer is closed only after the consumer and the batch service have stopped
\* (events.py, _shutdown_services).
THEOREM ReleasesInOrder == LifespanSpec => ReleasedInOrder
<1>1. LifespanInv /\ [LifespanNext]_appVars =>
        [opened' # opened /\ opened' \subseteq opened => batch' = "off" /\ ~consumer']_appVars
  <2> SUFFICES ASSUME LifespanInv, LifespanNext, opened' # opened, opened' \subseteq opened
               PROVE  batch' = "off" /\ ~consumer'
    OBVIOUS
  <2> USE DEF LifespanInv
  <2>1. ASSUME NEW d \in Drains, ShutdownServices(d) PROVE batch' = "off" /\ ~consumer'
    <3>1. ~draining /\ BeginDrain(d)
      BY <2>1 DEF ShutdownServices, feedbackVars
    <3>2. ~consumer' /\ batch' \in {"stopping", "off"}
      BY <3>1, DrainBegins
    <3>3. ~("async_batch_service" \in registered /\ batch = "running") /\ batch' = batch
      BY <3>1 DEF BeginDrain, feedbackVars
    <3> QED
      BY <3>1, <3>2, <3>3 DEF DrainsOnce
  <2>2. ASSUME NEW d \in Drains, BatchStopped(d) PROVE batch' = "off" /\ ~consumer'
    BY <2>2 DEF BatchStopped, DrainsOnce
  <2>3. \/ \E d \in Drains : ShutdownServices(d) \/ BatchStopped(d)
        \/ opened \subseteq opened'
    <3>1. CASE BeginStartup
      BY <3>1 DEF BeginStartup, BeginProducer
    <3>2. CASE StartupRetry
      BY <3>2 DEF StartupRetry, AttemptFailed
    <3>3. CASE EndStartup
      BY <3>3 DEF EndStartup, ProducerCreated, GiveUp
    <3>4. CASE Signal \/ Exit \/ Ended
      BY <3>4 DEF Signal, Exit, Ended, appVars, feedbackVars
    <3>5. CASE ServerExit
      <4>1. Startup \in Drains
        BY DEF Drains
      <4> QED
        BY <3>5, <4>1 DEF ServerExit, feedbackVars
    <3>6. ASSUME NEW r \in Submits, SubmitFeedback(r) PROVE opened \subseteq opened'
      BY <3>6 DEF SubmitFeedback, Submit, BeginProducer
    <3>7. ASSUME NEW r \in Submits, SubmitStep(r) PROVE opened \subseteq opened'
      BY <3>7 DEF SubmitStep, LazyStartReturns, ProducerCreated, GiveUp, AttemptFailed, Send
    <3>8. ASSUME NEW d \in Drains, RunDrainTask(d) PROVE ShutdownServices(d)
      BY <3>8 DEF RunDrainTask
    <3> QED
      BY <3>1, <3>2, <3>3, <3>4, <3>5, <3>6, <3>7, <3>8 DEF LifespanNext
  <2> QED
    BY <2>1, <2>2, <2>3
<1> QED
  BY <1>1, LifespanInvariant, PTL DEF LifespanSpec, ReleasedInOrder
=============================================================================
