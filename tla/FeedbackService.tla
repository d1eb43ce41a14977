--------------------------- MODULE FeedbackService ---------------------------
(***************************************************************************)
(* FeedbackService (src/app/services/feedback_service.py): a Kafka producer*)
(* created in an executor with retries, by the application's startup or by *)
(* the first submit_feedback that finds the service not started, and closed*)
(* by stop().                                                              *)
(*                                                                         *)
(* A caller of start() creates at most one producer, so a producer has the *)
(* name of the caller that created it.  The time between two attempts is   *)
(* left open.                                                              *)
(***************************************************************************)
EXTENDS Integers, FiniteSets

CONSTANTS Submits,      \* calls of submit_feedback
          Startup,      \* the caller that is the application's startup
          InitRetries,  \* settings.kafka.kafka_producer_init_retries
          NoProducer    \* self.producer is None

ASSUME FeedbackAssumption ==
    /\ IsFiniteSet(Submits) /\ Startup \notin Submits
    /\ InitRetries \in Nat \ {0}
    /\ NoProducer \notin Submits \cup {Startup}

VARIABLES kafkaEnabled,  \* settings.kafka.kafka_enabled, never changed
          producer,      \* FeedbackService.producer
          started,       \* FeedbackService._started
          attempts,      \* attempts a caller inside _init_producer_with_retry has left
          submit,        \* where each call of submit_feedback is
          opened,        \* producers that exist and are not closed
          overlapped     \* have two callers ever created producers at the same time?

feedbackVars == <<kafkaEnabled, producer, started, attempts, submit, opened, overlapped>>

Starters == Submits \cup {Startup}

\* "sending": handed to the executor; "accepted" and "refused" are the answers.
SubmitState == {"new", "starting", "sending", "accepted", "refused"}

Initialising == {c \in Starters : attempts[c] > 0}

FeedbackTypeOK ==
    /\ kafkaEnabled \in BOOLEAN
    /\ producer \in Starters \cup {NoProducer}
    /\ started \in BOOLEAN
    /\ attempts \in [Starters -> 0..InitRetries]
    /\ submit \in [Submits -> SubmitState]
    /\ opened \subseteq Starters
    /\ overlapped \in BOOLEAN

FeedbackInit ==
    /\ kafkaEnabled \in BOOLEAN
    /\ producer = NoProducer
    /\ started = FALSE
    /\ attempts = [c \in Starters |-> 0]
    /\ submit = [r \in Submits |-> "new"]
    /\ opened = {}
    /\ overlapped = FALSE

-----------------------------------------------------------------------------

\* Fault: one attempt more than configured.
BeginProducerOnceMore(c) ==
    /\ attempts' = [attempts EXCEPT ![c] = InitRetries + 1]
    /\ overlapped' = (overlapped \/ Initialising # {})
    /\ UNCHANGED <<kafkaEnabled, producer, started, opened>>

\* start() enters _init_producer_with_retry and waits for the executor.
BeginProducer(c) ==
    /\ attempts' = [attempts EXCEPT ![c] = InitRetries]
    /\ overlapped' = (overlapped \/ Initialising # {})
    /\ UNCHANGED <<kafkaEnabled, producer, started, opened>>

\* The executor has created c's producer; _init_producer_with_retry and start() return.
ProducerCreated(c) ==
    /\ c \in Initialising
    /\ producer' = c
    /\ opened' = opened \cup {c}
    /\ started' = TRUE
    /\ attempts' = [attempts EXCEPT ![c] = 0]
    /\ UNCHANGED <<kafkaEnabled, overlapped>>

\* Fault: the last failure is taken for one that another attempt follows.
AttemptFailedSilently(c) ==
    /\ attempts[c] > 0
    /\ attempts' = [attempts EXCEPT ![c] = @ - 1]
    /\ UNCHANGED <<kafkaEnabled, producer, started, opened, overlapped, submit>>

\* An attempt failed and another follows.
AttemptFailed(c) ==
    /\ attempts[c] > 1
    /\ attempts' = [attempts EXCEPT ![c] = @ - 1]
    /\ UNCHANGED <<kafkaEnabled, producer, started, opened, overlapped, submit>>

\* The last attempt failed: no producer, and start() still marks the service started.
GiveUp(c) ==
    /\ attempts[c] = 1
    /\ producer' = NoProducer
    /\ started' = TRUE
    /\ attempts' = [attempts EXCEPT ![c] = 0]
    /\ UNCHANGED <<kafkaEnabled, opened, overlapped>>

\* The rest of submit_feedback once start() is behind it, with p for self.producer.
Proceed(r, p) ==
    submit' = [submit EXCEPT ![r] = IF p # NoProducer THEN "sending"
                                    ELSE IF kafkaEnabled THEN "refused" ELSE "accepted"]

\* submit_feedback is called.
Submit(r) ==
    /\ submit[r] = "new"
    /\ \/ /\ ~started /\ kafkaEnabled
          /\ submit' = [submit EXCEPT ![r] = "starting"]
          /\ BeginProducer(r)
       \/ /\ started \/ ~kafkaEnabled
          /\ started' = TRUE
          /\ Proceed(r, producer)
          /\ UNCHANGED <<kafkaEnabled, producer, attempts, opened, overlapped>>

\* The lazy start of r returns and the call goes on.
LazyStartReturns(r) ==
    /\ ProducerCreated(r) \/ GiveUp(r)
    /\ Proceed(r, producer')

\* _send_and_wait reads self.producer in its thread and waits for the acknowledgement.
Send(r) ==
    /\ submit[r] = "sending"
    /\ \E answer \in {"accepted", "refused"} :
         /\ answer = "accepted" => producer # NoProducer
         /\ submit' = [submit EXCEPT ![r] = answer]
    /\ UNCHANGED <<kafkaEnabled, producer, started, attempts, opened, overlapped>>

\* Fault: the producer is dropped without being closed.
StopFeedbackUnclosed ==
    /\ producer' = NoProducer
    /\ started' = FALSE
    /\ UNCHANGED <<kafkaEnabled, attempts, submit, opened, overlapped>>

\* stop(): does nothing without a producer.
StopFeedback ==
    /\ IF producer # NoProducer
       THEN /\ opened' = opened \ {producer}
            /\ producer' = NoProducer
            /\ started' = FALSE
       ELSE UNCHANGED <<opened, producer, started>>
    /\ UNCHANGED <<kafkaEnabled, attempts, submit, overlapped>>
=============================================================================
