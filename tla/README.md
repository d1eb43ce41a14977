# KubeSense in TLA+

KubeSense is a sentiment-analysis service: a FastAPI application (`src/app`) around a
text model, with an asynchronous batch service, dynamic batching of single requests, a
Kafka consumer and a number of MLOps helpers.  This directory specifies the parts that
carry state across suspensions and between tasks, checks them with TLC on small
instances, and proves their most important invariants for every instance with TLAPS.

## 1. Inventory

Everything in the application runs on one asyncio event loop; thread locks and executors
appear only in the components marked *threads*.

| component (source under `src/app`) | state | operations | talks to | hard part |
|---|---|---|---|---|
| **AsyncBatchService** `services/async_batch_service.py` | `_running`; owns the three managers | submit, status, results, cancel, metrics, process a job, start, stop | routes call it; it calls the managers and `predict_async_batch` | a job's status is changed by clients, its worker and the cleanup task between two batches |
| **BatchJobManager** `services/batch_job_manager.py` | `_jobs`, `_metrics` | create, get (expires on read), update status, cancel, validity test, cleanup task | service and queue workers | counters that several paths adjust; timeouts |
| **PriorityQueueManager** `services/priority_queue_manager.py` | three bounded queues, three worker tasks | enqueue, dequeue with timeout, start and stop workers | workers call back into the service | cancelling a worker that has just been handed a job |
| **ResultCacheManager** `services/result_cache_manager.py` | `_result_cache` | insert, look up, expire, evict | service | a cached result outlives the status it was cached under |
| **StreamProcessor** `services/stream_processor.py` | `queue`, `_processing`, `_lock`, `_batch_task` | `predict_async`, batch loops, `shutdown`; `predict_async_batch` | the model; benchmark tools and the batch service | overlapping loops, a sleep inside the lock, shutdown against arrivals |
| **HighThroughputKafkaConsumer** `services/kafka_consumer.py`, `message_batch.py`, `dead_letter_queue.py` | buffers per partition, retry counts, recent offsets, metrics | process batches, retry or dead-letter, detect duplicates, start, stop | model (in a thread), Kafka producer | state used across an await; loss and duplication |
| **Application lifespan** `core/events.py` | `app.state` and its shutdown flags | startup, SIGTERM/SIGINT handler, `_shutdown_services` | stops every service in order | two triggers of one shutdown; partial failure |
| **ShadowModeService** `services/shadow_mode.py` | pending tasks, `enabled` | sample, dispatch, start, stop | model in an executor | stop with a time limit, dispatches during it |
| **FeedbackService** `services/feedback_service.py` | producer, `_started` | start with retries, lazy start, submit, stop | Kafka producer; lifespan | several starts at once, racing stop |
| **VaultSecretManager** `core/secrets.py` (*threads*) | cached secrets | get, set, clear | Vault, which a rotation script writes too | a slow read caches what a write has replaced |
| **ModelFactory** `models/factory.py`, `models/pytorch_sentiment.py`, `models/onnx_sentiment.py` (*threads*) | model cache, module globals | create, reset | prediction routes | check, load for seconds, store, without a lock |
| **CircuitBreaker** `services/load_balancer.py` (*threads*) | state, counts, time of last failure | `call` | none in the repository | calls that end in another state than they began |
| **BoundedAnomalyBuffer** `services/anomaly_buffer.py` (*threads*) | ordered entries | add, get, cleanup | monitoring routes | size limit and expiry, timestamps out of order |
| DriftDetector `services/drift_detection.py` (*threads*) | reference and current windows | add, check, update baseline | monitoring routes | a lock taken twice by one thread |
| DataLakeWriter `services/data_writer.py` | buffer, flush task | write, flush, start, stop | cloud storage | retry order; see section 8 |
| inference, prediction, features, registry, explainability, GPU optimiser, Redis, monitoring, routes, middleware, configuration | caches and settings | | | sequential or numerical |

What makes the modelled components correct:

* a job's status only moves along the life cycle a client was promised, results are
  published once and complete, and they are what any later query returns;
* jobs of one priority are processed in submission order, none twice, none lost, whatever
  `stop` and `start` do;
* the counters agree with the jobs they count;
* every waiting job is decided while the service runs, and `stop` returns;
* every single request is answered, a loop is there to answer it, loops do not pile up;
* `shutdown` returns and leaves nothing behind (it does not: section 6);
* the application's services stop once and in order, whoever asks first, the exit waits
  for them, and what startup opened is closed (it is not: section 6);
* a Kafka message meets one result for each time it was polled, under its own id, or is
  still buffered (it can also be lost, in four ways: section 2.5);
* a cached secret is not older than its time to live and one read, and not older than its
  caller's own write unless a read overtakes the write; requests share one model until the
  factory is reset; the breaker sheds load when open, as far as threads that were midway
  when it opened let it.

The hazards behind these properties are listed in `PROJECT.json`, each at its line.

## 2. Modules

| module | models | |
|---|---|---|
| `BatchJobManager` | job table and counters, as operators from manager states to manager states | used by |
| `ResultCache` | the result cache, as operators on caches | `AsyncBatch` |
| `AsyncBatch` | service, queues, workers, cleanup, clock; one action per request or worker step | |
| `JobLifecycle` | the abstract specification: what one client sees of its jobs | refined by `AsyncBatch` |
| `StreamBatching` | `predict_async`, batch loops, lock, shutdown | |
| `FeedbackService` | producer, retries, lazy start, submit, stop; without a next-state relation of its own | extended by |
| `Lifespan` | startup, signals, drains and exit of the application, composed with `FeedbackService` | |
| `KafkaConsumer` | batches per partition, overlapping processing calls, retries, dead letters, duplicates | `Components` |
| `VaultSecrets` | one secret, its cached copy, writers and the rotation | `Components` |
| `ModelFactory` | model cache and singleton under threads | `Components` |
| `ShadowMode` | shadow predictions and `stop` | `Components` |
| `CircuitBreaker` | `call` from several threads | `Components` |
| `AnomalyBuffer` | bounded buffer with expiry | `Components` |
| `Components` | the six before it, of which one runs (section 2.6) | |
| `MCAsyncBatch`, `MCStreamBatching`, `MCLifespan`, `MCComponents` | the values TLC's configurations share | |
| `BatchJobManagerProofs` | lemmas on the operators of `BatchJobManager` | cited by |
| `AsyncBatchProofs`, `AsyncBatchResultProofs`, `StreamBatchingProofs`, `LifespanProofs`, `KafkaConsumerProofs`, `AnomalyBufferProofs`, `ComponentsProofs` | the theorems; each is named for the module it is about, `ComponentsProofs` holds also those about `CircuitBreaker`, `ModelFactory`, `ShadowMode` and `VaultSecrets` | |

The component modules declare their parameters as CONSTANTS with a named assumption and
contain no RECURSIVE operator, so that they can be proved about.  Operators named in a
comment as *Fault* are not part of a specification: each is the plausible bug that shows a
property is not vacuous.

### 2.1 AsyncBatch and its operators

*Steps.* No critical section of the three managers awaits anything, so a call into them
never suspends; a handler runs to its end in one step.  The code suspends in two places: a
worker in `dequeue_job` and a worker in `predict_async_batch`.  An action is everything
one task does between two suspensions: `SubmitBatchJob`/`SubmitRejected`,
`GetJobStatus`, `GetJobResults`, `CancelJob`, `GetBatchMetrics` for the requests;
`TakeJob`, `DropJob`, `StartJob`, `NextBatch`, `FinishJob`, `WorkerCancelled` for a
worker; `Start`, `Stop`, `StopDone`, `Cleanup`, `Tick`.

*The dequeue window.* `asyncio.wait_for` of the Python the project pins (3.11) runs
`Queue.get` in a task of its own.  `TakeJob` is that inner task: the job is off the queue
and the worker, now at `"got"`, resumes in a later step.  If `stop` cancels it in
between, `wait_for` returns the job and the cancellation is forgotten, so the worker
processes that job before it sees that the service is stopping.

*The two processors.* The `StreamProcessor` that ships calls the model synchronously in
`predict_async_batch`: a worker keeps the event loop through a job, and only the clock
moves (`PredictYields = FALSE`, guard `LoopFree`).  The interface is asynchronous, and
the test suite's double suspends there (`PredictYields = TRUE`).  Each run says which.

*Time* is an integer clock; all readings in one action agree.  `is_job_expired` uses `>`
and `_has_job_timed_out` uses `>=`, and so do the operators.

*Data.* Texts are counted in batches; a batch's outcome is `"ok"` or `"error"` (the
exception the service turns into ERROR entries); results are sequences of outcomes and
`<<>>` is `None`.  Averages, pagination, sanitising, wording and log lines are left
out.  `ticket` is a history value: the `total_jobs` counter at creation, used to state
submission order.

*Dead branches.* `_process_job`'s tests for CANCELLED follow an unconditional write of
PROCESSING within the same step and cannot succeed, and nothing in the `try` raises
another exception than `TimeoutError` and `CancelledError`; the model has no action for
them.  `start` while running, `stop` while stopped return at once and are left out;
`start` during a pending `stop` is something no caller does.

### 2.2 JobLifecycle

Per job a status, an answer and a deadline.  Accept with a deadline in the future or
refuse; begin; finish, publishing the answer; cancel before the end; expire at or after
the deadline, from any status.  The mapping in `AsyncBatch` (`Lifecycle`) takes the
status and results of the table and `created_at + timeout`.  Counters, queues, workers and
cache do not appear.  The refinement holds for the processor that ships, not for one that
suspends (section 6, first finding).

### 2.3 StreamBatching

One event loop, one `asyncio.Lock`, which is first come, first served: `LockFree` and
`Turn` say who may enter.  The only code that suspends inside the lock is a batch loop in
its 0.1 s sleep (`lock`).  Loops are named by the request whose `predict_async` created
them, since several can exist: a loop sets `_processing` only in its first step, and the
end of any loop resets it.  A loop is at its short sleep (`"poll"`), waiting for the lock
in `_should_process_batch` (`"fetch"`) or at the end of an iteration (`"check"`), or in
the sleep inside the lock (`"idle"`).  `ClientGone` is the cancellation of a waiting
client, whose done future stays in the queue.  `shutdown` drains without letting go of
the event loop unless the lock is taken, then cancels and awaits the latest loop.

A request's `age` counts clock periods up to `max_wait_time_ms`; durations of sleeps are
left open.  The model answers a whole batch or raises for all of it; the loaders in
`models/` return one result per text.

### 2.4 Lifespan and FeedbackService

*Steps.* Startup suspends only in `FeedbackService.start`, a drain only in the batch
service's `stop` (the Kafka consumer's `stop` and the feedback service's do not await).
So `BeginStartup`, `EndStartup` and, for a drain, `RunDrainTask` and `BatchStopped` are
the code between two suspensions; `ServerExit` and `Exit` are the code after the `yield`.
`Signal` is the handler: it creates a task that runs later, so a second signal before that
overwrites `app.state.shutdown_task`.

*Environment.* uvicorn is external.  The application's handlers replace uvicorn's, so the
server goes on serving after a signal; that it leaves the lifespan only when its requests
are finished is its documented behaviour and the guard of `ServerExit`.  When the process
has exited nothing runs any more.

*Partial failures.* A model that does not load leaves the consumer and the batch service
unregistered.  `registered` is what `_shutdown_services` finds with `hasattr`.

*FeedbackService.* `start` awaits an executor once per attempt.  Every request that finds
the service not started starts it, so several initialisations can overlap; a producer has
the name of the caller that created it and `opened` holds those not closed.  `Send` reads
`self.producer` in its thread, after the event loop may have stopped the service.  The
batch service appears as off, running or stopping; `AsyncBatch` has the detail.

### 2.5 KafkaConsumer

The repository has the consumer's methods and not the loop that polls.  `Deliver` is that
loop and external: what it does is taken from the methods it has at hand.  It asks
`_is_duplicate_message`, which records the offset of a message that is new, and then gives
the message to `add_message` of its partition's batch, which refuses it if the batch is
full.  The rest is the code: `ProcessReadyBatches` runs to the first `await`,
`BatchAnswered` from there to the next one or to the end, with `_execute_batch`,
`_handle_batch_results` and `clear` inside.  Batches are objects with a name: a call that
comes back from the model works on the batch it held, which another call may have cleared,
or replaced in the table (the `del` is then a `KeyError`).  A message without an id gets one
from the clock in every call (`NoId`); the model takes these to be new each time, so such a
message never has more than one failure on its count.

A result does not mean that a message was dealt with, so `outcome` records what became of
it.  `LossesNamed` lists the four ways in which a polled message can be neither buffered nor
predicted nor dead-lettered:

* *refused*: the batch was full when it came, and its offset counts as seen;
* *unretried*: its prediction failed fewer than `kafka_max_retries` times, which is counted,
  and the batch is cleared;
* *undelivered*: it failed too often, and there is no dead letter queue or `send_to_dlq`
  answered False, which nobody reads;
* *late*: it came while a call waited for the model with a batch of its partition.  Such
  messages may be cleared unprocessed.

A message that is polled again is dropped as a duplicate until the history has forgotten its
offset, whatever became of it the first time.

### 2.6 Components

The last six components share no state with each other.  Instead of one run each,
`Components` chooses at the start which of them runs (`focus`); the others keep their
initial states.  Its behaviours are those of the six specifications side by side, so an
invariant or action property that it satisfies is one that each component satisfies, and
the state spaces add up instead of multiplying.

* `VaultSecrets`: a secret's value is its version.  A call is split at the request to
  Vault: asked, read by Vault, cached; sent, written by Vault, invalidated.  Requests fail
  at either end.  `Rotate` is the script that writes to Vault and never clears the cache.
  How long a thread keeps an answer before it caches it is not the code's: `ReadTime`
  bounds it.
* `ModelFactory`: one backend and path.  Each look at the cache or the global, each load
  and each store is a step, since requests run in threads without a lock.  `reset_models`
  clears the cache and not the global.  `LatecomersShare` is stated until it is called:
  what a request should get after that is disputed (section 6).
* `ShadowMode`: sampling, the task that dispatches, the task that predicts, the callback
  that takes an ended task off `_pending_tasks` (which the event loop runs later), and
  `stop`, whose time limit cancels what it gathered.  Predictions dispatched while `stop`
  waits are not waited for, and `StopSettles` does not speak of them.
* `CircuitBreaker`: threads share it without a lock, so every read and every write of an
  attribute is a step of its own, the two halves of `+=` included; `call[c]` is the place a
  thread has reached and `saw[c]` what it carries from a read to a write.  A thread that has
  passed a test can then write CLOSED or HALF_OPEN over an OPEN that another has set in
  between; one that has read the time can write an older `last_failure_time` over the newer
  one.  `OpenSheds` says that these are the only ways in which an open circuit lets calls
  through: by threads that were midway when it opened (`caught`), or after one of them has
  written the state, or any thread an older time.
* `AnomalyBuffer`: methods work under the lock and are single steps, but `add` takes its
  timestamp before the lock, so insertion order is not the order of timestamps.

## 3. Runs

| run | instance | properties | states |
|---|---|---|---|
| `shipped` | 2 jobs, 2 priorities (limits 1 and 2), up to 2 batches, timeout 1, clock to 2, 2 starts, cache of 1, processor keeps the loop | `TypeOK` `ProcessingIsOwned` `ResultsComplete` `CountersExact` `CacheCoherent` `ImplementsLifecycle` | 1.0 M |
| `suspended` | the same with 1 start, TTL 2 and a processor that suspends | `QueueOrder` `NoJobLost` `RepliesComplete` `CompletedCountedOnce` | 2.0 M |
| `liveness` | 2 jobs, 2 priorities, clock to 1, 1 start, fair | `JobsDecided` `StopReturns` | 0.2 M |
| `stream` | 3 requests, batches of 2, maximum wait 1, shutdown at any time, fair | `TypeOK` `QueueServed` `IdleMeansEmpty` `ProcessingHonest` `UnansweredQueued` `RequestsAnswered` `LoopsRetire` `ShutdownReturns` | 0.5 M |
| `lifespan` | 3 feedback requests, 2 attempts per producer, 2 signals, fair | `LifespanTypeOK` `ExitAfterDrain` `ProducerNotLeaked` `ReleasedInOrder` `DrainCompletes` `ExitReturns` `SubmitsAnswered` | 23 k |
| `components` | see below | `ComponentsTypeOK`; Kafka: `DeadLettersPaired` `HandledOnce` `LossesNamed` `NoRecentDuplicate`; secrets: `StaleBound` `ReadYourWrites`; factory: `LatecomersShare`; shadow: `StopSettles`; buffer: `LiveEntriesKept`; breaker: `OpenSheds` | 1.7 M |
| `cancel_lost`, `live_jobs_counted`, `completed_expires`, `stream_stranded`, `exit_releases`, `failures_retried` | 1 job, 2 requests, or as in `components` | one documented property each, violated | small |

*Why the bounds are enough.*  Two jobs in one queue already show reordering, in two queues
already compete for the event loop and the counters; the queue limited to 1 fills up, the
cache of 1 evicts.  Two batches give a job one point where it is suspended with batches
behind it and ahead of it.  A clock that runs to 2 with timeout 1 passes through before,
at and after the deadline, the `>`/`>=` boundary included.  One restart is enough to
find a job that outlived the previous run.  Three requests with batches of two leave one
behind after a full batch, and are enough for two overlapping loops and one more arrival.
With `min_batch_size` equal to `max_batch_size` a lone request is answered only because its
age triggers a batch: the trigger for half the waiting time, which asks for `min_batch_size`
requests, never decides alone.  (The proofs cover any sizes.)
Jobs and requests are interchangeable, so the safety runs of `AsyncBatch` use them as a
symmetry set; the runs with liveness do not.

`lifespan`: a drain by signal, one by the exit and one more signal are all the ways
`_shutdown_services` is reached; two requests and the startup can initialise a producer at
the same time, and the third submits afterwards.

`components`: the Kafka part has 2 partitions, one with three messages of which two share
an id, batches of 2, 2 overlapping calls, 2 tries, a history of 2 offsets instead of 1000
(the third offset already makes it forget) and 4 deliveries, which are enough to fill a
batch, drain it, deliver during the drain, and redeliver an offset the history has lost.
The secrets have 2 threads, 3 versions, a time to live of 2, a read time of 1 and a clock
to 5, so that an entry can be stored, replaced in Vault and expire.  Factory: 3 requests,
2 resets.  Shadow: 3 predictions, 2 stops.  Buffer: 4 entries of which one expires early,
room for 2.  Breaker: 2 threads, each preempted between any two accesses, threshold 2,
recovery time 2 and a clock that runs from 1 to 5, which lets it open, half-open and open
again while the other thread is anywhere in a call.  The clocks and inputs end, so deadlock checking is
off.

`ProcessingIsOwned`, `CountersExact` and `ImplementsLifecycle` hold for the processor
that ships only, as section 6 explains; the properties of `suspended` hold for both.
`CountersExact` is stated while no job has reached its deadline: after that the paths
that disagree about `active_jobs` take effect.

`StreamBatching` may stop for good (all requests answered, loops ended), so its
configurations switch deadlock checking off; `AsyncBatch` always has a step to take
(`GetBatchMetrics`), so there it is on and says little.

## 4. Fairness

*AsyncBatch.* Weak fairness of each worker's steps and of `StopDone`.  asyncio's ready
queue is first in, first out, so a task that can run is run; a prediction returns because
the model call does; a worker waiting on a non-empty queue is woken.  Weak fairness
suffices because a ready worker stays ready until it has run: in the shipped mode another
worker holding the loop disables it only until that job's finitely many batches are done.
Clients, `start`, `stop`, the cleanup's period and the clock owe nothing.  `JobsDecided`
is stated until the service is stopped.

*StreamBatching.* Weak fairness of each loop, of a waiting client, of shutdown and of the
clock: sleeps end, a released lock goes to its first waiter, time passes.  Arrivals,
departures and the call of `shutdown` are left to chance.

*Lifespan.* Weak fairness of the startup, of every drain task, of the exit's last step and
of every request that has begun: the event loop runs ready tasks in turn, executors
finish, and the batch service's `stop` returns, which is `StopReturns` of `AsyncBatch`.
Nothing makes a client submit, a signal arrive or the server exit.  `DrainCompletes`
allows for the process to end first: after two signals the exit waits for the later task
only.

*Components* states safety only.

## 5. Proofs

`tlapm` checks these for all values of the constants the assumptions admit: any number of
jobs, requests, threads, messages or entries, any limits.  Every invariant and every action property of a passing run is here, and the
refinement.

| module | theorem | statement |
|---|---|---|
| `AsyncBatchProofs` | `TypeCorrect` | `Spec => []TypeOK` |
| | `QueuesInOrder` | `Spec => []QueueOrder` |
| | `NoneLost` | `Spec => []NoJobLost` |
| `AsyncBatchResultProofs` | `AnswersAreComplete` | `Spec => []ResultsComplete` |
| | `CacheIsCoherent` | `Spec => []CacheCoherent` |
| | `RepliesAreComplete` | `Spec => []RepliesComplete` |
| | `CompletionsCountedOnce` | `Spec => []CompletedCountedOnce` |
| | `ProcessingOwned` | `~PredictYields`: `Spec => []ProcessingIsOwned` |
| | `CountersAreExact` | `~PredictYields`: `Spec => []CountersExact` |
| | `LifecycleImplemented` | `~PredictYields`: `Spec => ImplementsLifecycle` |
| `StreamBatchingProofs` | `StreamTypeCorrect` | `Spec => []TypeOK` |
| | `WaitingIsQueued` | `Spec => []UnansweredQueued` |
| | `ProcessingIsHonest` | `Spec => []ProcessingHonest` |
| | `SleepsOnEmpty` | `Spec => []IdleMeansEmpty` |
| | `QueueIsServed` | `Spec => []QueueServed` |
| `LifespanProofs` | `LifespanTypeCorrect` | `LifespanSpec => []LifespanTypeOK` |
| | `ExitFollowsDrain` | `LifespanSpec => []ExitAfterDrain` |
| | `ProducerKept` | `LifespanSpec => []ProducerNotLeaked` |
| | `ReleasesInOrder` | `LifespanSpec => ReleasedInOrder` |
| `KafkaConsumerProofs` | `KafkaTypeCorrect` | `KafkaSpec => []KafkaTypeOK` |
| | `LettersArePaired` | `KafkaSpec => []DeadLettersPaired` |
| | `SettledOnce` | `KafkaSpec => []HandledOnce` |
| | `LossesHaveNames` | `KafkaSpec => []LossesNamed` |
| | `DuplicatesAreOld` | `KafkaSpec => []NoRecentDuplicate` |
| `AnomalyBufferProofs` | `LiveEntriesFound` | `BufferSpec => []LiveEntriesKept` |
| `ComponentsProofs` | `OpenCircuitSheds` | `BreakerSpec => OpenSheds` |
| | `LatecomersShareOne` | `FactorySpec => []LatecomersShare` |
| | `StopSettlesAll` | `ShadowSpec => []StopSettles` |
| | `CacheIsBounded` | `VaultSpec => []StaleBound` |
| | `OwnWritesRead` | `VaultSpec => []ReadYourWrites` |
| | `ComponentsImplementEach` | `ComponentsSpec` implies the six specifications it is made of |
| | `ComponentsTypeCorrect` | `ComponentsSpec => []ComponentsTypeOK` |
| | `ComponentsCorrect` | `ComponentsSpec` has every property of the run `components` |

They rest on the assumptions on constants that the models declare (`ManagerAssumption`,
`AsyncBatchAssumption`, `KafkaAssumption` and so on: finite sets of identifiers, positive
limits and timeouts, a null value outside the set it stands beside), which TLC evaluates
in the runs.  Three theorems assume more: `~PredictYields` is the processor that ships; with
one that suspends the three statements are false, which is the first finding of section 6.

The bounds on clocks and inputs are constants too, so the theorems hold for every
`MaxTime`, `MaxVersions`, `MaxSignals`, `MaxDeliveries`; since a behaviour of any length
fits below some bound, no state that breaks an invariant can be reached at all.

### 5.1 AsyncBatch

*`TypeCorrect`.*  `TypeOK` alone is not inductive: a worker at `"got"` or `"predict"`
must hold a job (`HandsFull`), else the step that follows indexes the table with
`NoJob`.  `TypeInv` adds that.  `BatchJobManagerProofs` shows that each operator of the
manager maps manager states to manager states, including that `failed_jobs` grows by a
finite cardinality in `CleanupExpired`.

*Order and loss.*  Most steps touch the table through a chain of manager operators, so the
proof abstracts them first: `Kept(s, u)` says that `u` has the priorities and tickets of
`s` and makes no job PENDING that was not.  Every operator but `CreateJob` satisfies it
(`*Keeps` lemmas) and it is transitive.  `OrderInv` strengthens `QueueOrder` and
`NoJobLost` by `Tracked`: queued and held jobs exist, no ticket exceeds `total_jobs`,
and a worker is off when the service is stopped.  The first part gives a new job a ticket
above all others, the last keeps `Start` from overwriting a worker that holds a job.
Three kinds of step remain: those that only keep (`FrameStep`), the creation of a job
(`CreationStep`) and the handing over of the head of a queue (`TakeStep`).

*Effects.*  The other theorems are about results, counters and statuses, where every
action matters.  `StepEffect` shows once that each step is one of six kinds: `Reads` (jobs
whose deadline has come may expire), `Cancels`, `Creates`, the hand-over `TakeJob`,
`Works` (a worker begins a job, goes on to another batch or gives up on it) and
`Finishes`.  Everything after it has six cases instead of seventeen.

*Results.*  `ResultsComplete` is not inductive: it says nothing of a job that has no
results yet.  `ResultInv` adds `Unanswered`: a queued job, and one that a worker holds, has
no results, and what the worker has put together is shorter than the job.  Since a held
job is in no queue and in no other hand (`HeldAlone`, from `OrderInv`), only the worker
that holds it can answer it, and what it writes has one entry per batch.
`CompletedCountedOnce` follows because `Finishes`, the only kind of step that gives a job
results, is also the only one that moves `completed_jobs`.

*Cache.*  Results, once given, do not change (`ResultsStable`), so what was cached with
them stays right whatever becomes of the job's status; `CacheInv` is `ResultInv` and
`CacheCoherent`.

*The processor that ships.*  `ShippedInv` says that at most one worker is inside
`predict_async_batch` and that its job is PROCESSING.  While it is, `LoopFree` is false, so
`Reads`, `Cancels`, `Creates` and any other worker's step cannot happen; when nobody is,
no job is PROCESSING.  This is what fails for a processor that suspends.

*Refinement.*  From `ShippedInv`, each kind of step maps to a step of `JobLifecycle` or to
a stutter (`StepRefines`): `Reads` to the expiry of a set of jobs, `Cancels` to a cancel,
`Creates` to an acceptance or a refusal, `Works` to begin, expire or stutter, `Finishes` to finish
or, when the deadline has passed, to finish and expire at once.  The abstract state is
three functions computed from the table; `OneJobSeen` says that a change of one job changes
them at one place.

*Counters.*  `CountersExact` counts sets of jobs.  `OneJobCounted` gives how a cardinality
moves when one job changes; `BatchJobManagerProofs` shows that each operator moves the
counters with the status of its job (`Follows`) as long as the job is not late; and the
invariant need only hold while nothing is late, because a state in which nothing is late
comes only from one in which nothing was (`NothingLateBefore`).

### 5.2 StreamBatching

`StreamInv` is the type invariant, `UnansweredQueued`, `ProcessingHonest`, `IdleMeansEmpty`
and `ClientsWait`: a client that waits for the lock is not in the queue, and waits once.
Without the last part, a client that gets the lock could put a request into the queue a
second time.  Two facts about sequences carry the proof.  A waiter that leaves keeps the
others in order (`WithoutLeaves`); and taking a batch from the head of the queue and
answering it keeps `Queued`, the queue's correspondence with the waiting requests
(`UnansweredQueued` written with positions), because no request is in the queue twice.
`QueueIsServed` adds that nothing is cancelled until `shutdown` has drained the queue
(`ServedYet`): `Enqueue` creates a loop unless `_processing` is set, and then
`ProcessingHonest` names a loop that is there.  A loop ends only on an empty queue, and the
first loop that is cancelled is cancelled on one.  After that the statement is false, which
is the fourth finding of section 6.

### 5.3 Lifespan and FeedbackService

`LifespanInv` adds four parts to the types and to `ExitAfterDrain`.
`ServicesRegistered`: what runs can be found by the drain that has to stop it.
`DrainsOnce`: one drain does the work, the others return at once; before it has begun
nothing is stopping, after it the consumer is stopped.  `ExitOrder`: what the lifespan
waits for exists, and its own drain is the only one, or follows one that is done.
`StartsAlone`: as long as no drain has stopped the feedback service, it is started once,
so that the producer it creates is the only one open.  `ReleasedInOrder` follows from the
last step of a drain being the only one that closes a producer.

### 5.4 KafkaConsumer

`KafkaInv` says six things besides the properties.  `EntriesFilled`: a partition's batch
is not empty and all of its partition.  `CallsHold`: the batch a call waits for still
begins with what the call took from it, and the rest came late, or another call has
emptied it; a batch that has replaced it holds late messages only.  This is what makes
`_handle_batch_results` pair predictions with the right messages.  `SettledOrHeld`: a
message has met results, or is at places in batches, at most as often as it was polled,
where places are counted by the cardinality of the set of positions; `HandledOnce` alone
does not survive a clear.  `HistoryKept`: the recent offsets are the end of what was taken.
That a batch name is free for a new batch (`FreshBatch`) is a pigeonhole argument from
`KafkaAssumption`: a batch is referenced by a partition or by a waiting call.

`LossesNamed` is not inductive and comes from two parts.  `UnsettledKept`: a message that
was polled is buffered, or has met a result, or was refused or late; this holds because a
call clears, besides what it settles, only late messages.  `SettledNamed`: a message that has met a result is
predicted, dead-lettered, unretried or undelivered; this holds because every position that
`_handle_batch_results` pairs gets one of the four (`Records`).

### 5.5 The components of section 2.6

*Circuit breaker.*  `OpenSheds` is an action property; what makes it inductive (`Shed`) is
that as long as the open period has neither ended nor been undone, the circuit is OPEN,
`last_failure_time` is not older than the failure that opened it, and every thread between
a read of the state and a write to it was there when the circuit opened.  A thread that
reads the state or the time later than that is turned away.

*Model factory.*  `FactoryInv` says that the global, once set, stays set and holds an
instance somebody has loaded, that the cache is filled only after it, and that until a
reset a request that has seen a filled cache finds it filled.

*Shadow mode.*  `GatheredComplete` carries `StopSettles` through the wait: what ran when
`stop` was called and still runs is among the tasks it gathered, and nothing that ran then
can be dispatched again.

*Secrets.*  `CurrentAt(v, t)` says that version `v` had not been superseded before time
`t`.  A call that has read knows a version that was current at its read (`CallRight`); an
entry's version was current one read before it was stored (`EntryRight`), and is older
than a completed write only if a read that the write overtook put it there.  Vault only
grows, so these survive every other step (`VaultGrown`).

*Anomaly buffer.*  Every entry of the buffer is one that was inserted, with at least as
many insertions behind it as there are entries behind it (`InsertedAs`), and an inserted
entry that is missing has expired or has `max_size` insertions behind it (`Gone`).
Removing entries only widens the gap (`KeptGap`).

*Composition.*  A step of `Components` is a step of the focused component and leaves the
others' variables alone, so it implements all six specifications; their theorems then hold
of it.

### 5.6 Only model-checked

* Liveness: `JobsDecided`, `StopReturns`, `RequestsAnswered`, `LoopsRetire`,
  `ShutdownReturns`, `DrainCompletes`, `ExitReturns`, `SubmitsAnswered`.  They rest on
  fairness, whose meaning is ENABLED, which the prover does not support.
* That the documented properties of section 6 fail: a counterexample is an instance.
* What the proofs take as given is the models themselves: that an action is the code
  between two suspensions is an argument of section 2, not a theorem.

## 6. Where code and documents disagree

* `CancelIsFinal` (`cancel_lost`).  With a processor that suspends, `cancel_job` during a
  prediction is undone by the unconditional `update_job_status(PROCESSING)` after it; the
  "cancellation checkpoint" can never see CANCELLED.  The shipped processor does not
  suspend, so there a cancel can only come before or after the whole job.
* `LiveJobsCounted` (`live_jobs_counted`).  The cleanup task expires CANCELLED jobs too and
  takes them off `active_jobs` a second time.
* `CompletedIsFinal` (`completed_expires`).  A completed job turns EXPIRED when it is read
  after its timeout, and its results are no longer returned.
* `ShutdownStrandsNone` (`stream_stranded`).  A request that arrives between
  `_batch_task.cancel()` and that task's `finally` sees `_processing` set, creates no loop
  and is never answered.
* `ReleasedAtExit` (`exit_releases`).  A signal during startup drains before the feedback
  service is registered; the drain counts as done, and the producer is never closed.  A
  request that lazily restarts the service after a drain has the same effect.
* `FailuresRetried` (`failures_retried`).  The class comment of the Kafka consumer and
  `docs/kafka-high-throughput.md:416-426` promise retries (`else: await
  self._retry_message(...)`), and `tests/integration/test_kafka_consumer.py:399` has "Should
  retry (not send to DLQ yet)" beside assertions that never call the consumer.  The code
  counts the failure and clears the batch.

Met while reading, not made into runs, because they are a missing guard or a single
sequential step:

* `submit_batch_job` does not test `_running`, although `interfaces/batch_interface.py:80`
  announces a `RuntimeError`; and `stop` abandons the job a suspended worker is
  processing, although line 54 there says it waits.
* `VaultSecretManager.is_healthy` answers True for a minute after a check that answered
  False.
* `DriftDetector.update_baseline` calls a method that takes the lock it holds: the thread
  blocks for ever.
* `ShadowModeService` loads its model with `create_model(model_name=...)`, a parameter
  that does not exist; the error is caught and shadow mode disables itself.
* `kafka_dlq_enabled` is looked up on the settings object, which does not expose it, so
  `_dlq` stays None.  The model has both cases.
* `reset_models` is documented as forcing models "to be reloaded on the next request"
  (`models/factory.py:147-148`) and to make `create_model` create a "new instance" (line
  158); it clears `_model_cache` only, and the singleton below returns the old instance.
* `docs/kafka-high-throughput.md:10` promises "Exactly-once processing semantics".  Section
  2.5 lists how a message is lost; overlapping calls also predict one twice.  Lines 400-414
  show a `stop` that processes what is left in the batches; the code's drops it.
* The circuit breaker's class comment says that it opens "to block further requests for a
  period of time" (`services/load_balancer.py:122-125`).  Threads that were midway when it
  opened can start calls at once or set it CLOSED again, and it takes no lock.
* `features/online_normalization.py:194` uses `Dict` without importing it: importing the
  module fails, and `StreamProcessor` falls back to a scaler that does nothing.
* `BoundedAnomalyBuffer.default_ttl` is never used: `add` takes the entry's own default.

## 7. Plan

Every safety property of the runs is a theorem.  What is left:

1. Proofs: the steps that precede liveness and need no ENABLED, such as a measure that
   every step of a loop or of a worker decreases; of `AsyncBatch`, what `CountersExact`
   becomes when jobs are late (the counters are then off by the jobs that two paths took
   off).
2. Model: pagination of results; Vault's health check.

## 8. Not modelled, and why

* `DataLakeWriter`: its constructor reads `settings.data_lake_provider`; `Settings` has no
  such attribute (the field lives in `settings.data_lake`), the exception is caught and
  the writer stays uninitialised, so every operation returns at once.
* Models, features, explainability, drift statistics, load scores: floating-point
  computation.
* Registry, Redis, storage, tracing, metrics export: calls of external services without a
  protocol of their own.  Of Vault, authentication, listing and the health check.
* `DriftDetector`: statistics; its one protocol error is the sequential one in section 6.
* `RedisCacheClient`, `GPUBatchOptimizer`: nothing in the application uses their state.
* Routes, middleware, schemas, configuration: validation and formatting.  Their limits
  on inputs (at least one text, positive timeouts and sizes) are the assumptions on the
  constants.
* SDKs, serverless handlers, chaos experiments, benchmarks, notebooks and infrastructure
  code outside `src/app`: scripts and reports that run from top to bottom, most of the
  repository's lines.  The exception is the secret rotation, which is an action of
  `VaultSecrets`.
