----------------------------- MODULE AsyncBatch -----------------------------
(***************************************************************************)
(* AsyncBatchService with its three collaborators: the job manager, the    *)
(* priority queues with one worker task each, and the result cache.        *)
(*                                                                         *)
(* Everything runs on one asyncio event loop.  A task keeps the loop until *)
(* it suspends, and the code suspends in two places only: a worker waiting *)
(* for its queue, and a worker awaiting predict_async_batch.  An action is *)
(* what one task does between two suspensions.  The StreamProcessor that   *)
(* ships calls the model synchronously inside predict_async_batch, so a    *)
(* worker keeps the loop through a whole job (PredictYields = FALSE, only  *)
(* the clock moves); an implementation of IStreamProcessor that suspends   *)
(* there, as the test suite's does, lets the other tasks in (TRUE).        *)
(*                                                                         *)
(* All clock readings of one action return the same instant.               *)
(***************************************************************************)
EXTENDS BatchJobManager, ResultCache

CONSTANTS QueueLimit,     \* async_batch_priority_<p>_limit, per priority
          MaxBatches,     \* bound: batches of a submitted job
          Timeouts,       \* timeouts clients ask for, in seconds
          MaxTime,        \* bound: the clock stops here
          MaxStarts,      \* bound: how often the service is started
          PredictYields,  \* does predict_async_batch suspend?
          NoJob           \* the job of a worker that has none

ASSUME AsyncBatchAssumption ==
    /\ IsFiniteSet(Priorities)
    /\ QueueLimit \in [Priorities -> Nat \ {0}]
    /\ MaxBatches \in Nat \ {0}
    /\ Timeouts \subseteq Nat \ {0}
    /\ MaxTime \in Nat /\ MaxStarts \in Nat
    /\ PredictYields \in BOOLEAN
    /\ NoJob \notin Jobs

VARIABLES jobs,      \* BatchJobManager._jobs
          metrics,   \* BatchJobManager._metrics
          queues,    \* PriorityQueueManager._priority_queues
          workers,   \* the worker task of each priority
          cache,     \* ResultCacheManager._result_cache
          service,   \* AsyncBatchService._running, and whether stop() is under way
          now,       \* time.time()
          starts     \* how often start() has run

vars == <<jobs, metrics, queues, workers, cache, service, now, starts>>

(***************************************************************************)
(* A worker is "off" (no task), waiting in dequeue_job ("wait"), about to  *)
(* resume with a job its inner Queue.get task has already taken off the    *)
(* queue ("got"), or inside predict_async_batch ("predict").  `cancel`     *)
(* records that stop_workers has called cancel() on the task.              *)
(***************************************************************************)
Worker == [pc : {"off", "wait", "got", "predict"}, job : Jobs \cup {NoJob},
           out : Seq(Outcome), cancel : BOOLEAN]

WorkerAt(pc) == [pc |-> pc, job |-> NoJob, out |-> <<>>, cancel |-> FALSE]

mgr == [jobs |-> jobs, metrics |-> metrics]

\* Store a manager state computed by the operators of BatchJobManager.
Commit(s) == jobs' = s.jobs /\ metrics' = s.metrics

\* No worker holds the event loop, so another task can run.
LoopFree == PredictYields \/ \A p \in Priorities : workers[p].pc # "predict"

-----------------------------------------------------------------------------

Init ==
    /\ jobs = [j \in Jobs |-> NoSuchJob]
    /\ metrics = NoMetrics
    /\ queues = [p \in Priorities |-> <<>>]
    /\ workers = [p \in Priorities |-> WorkerAt("off")]
    /\ cache = EmptyCache
    /\ service = "stopped"
    /\ now = 0
    /\ starts = 0

-----------------------------------------------------------------------------
(* Requests.  None of them looks at `service`: the endpoints stay reachable  *)
(* before start() and after stop().                                          *)

Created(j, p, b, t) == CreateJob(mgr, j, p, b, t, now)

\* submit_batch_job, the queue of the priority having room.
SubmitBatchJob(j, p, b, t) ==
    /\ LoopFree
    /\ jobs[j].status = "absent"
    /\ Len(queues[p]) < QueueLimit[p]
    /\ Commit(Created(j, p, b, t))
    /\ queues' = [queues EXCEPT ![p] = Append(@, j)]
    /\ UNCHANGED <<workers, cache, service, now, starts>>

\* submit_batch_job on a full queue: the job stays in the table, FAILED.
SubmitRejected(j, p, b, t) ==
    /\ LoopFree
    /\ jobs[j].status = "absent"
    /\ Len(queues[p]) >= QueueLimit[p]
    /\ Commit(UpdateJobStatus(Created(j, p, b, t), j, "failed"))
    /\ UNCHANGED <<queues, workers, cache, service, now, starts>>

\* get_job_status
GetJobStatus(j) ==
    /\ LoopFree
    /\ jobs[j].status # "absent"
    /\ Commit(GetJob(mgr, j, now))
    /\ UNCHANGED <<queues, workers, cache, service, now, starts>>

\* get_job_results, its effect: the cache lookup, then get_job (a second get_job
\* at the same instant changes nothing).
GetJobResults(j) ==
    /\ LoopFree
    /\ jobs[j].status # "absent"
    /\ Commit(GetJob(mgr, j, now))
    /\ cache' = AfterLookup(cache, j, now)
    /\ UNCHANGED <<queues, workers, service, now, starts>>

\* Fault: a cache hit is returned without a look at the job's status.
CachedReplyUnchecked(j) ==
    IF CacheHit(cache, j, now) THEN cache[j].results
    ELSE IF GetJob(mgr, j, now).jobs[j].status # "completed" THEN NoResults
    ELSE jobs[j].results

\* get_job_results, what the client is given in the current state.
ResultsReply(j) ==
    IF GetJob(mgr, j, now).jobs[j].status # "completed" THEN NoResults
    ELSE IF CacheHit(cache, j, now) THEN cache[j].results
    ELSE jobs[j].results

\* cancel_job.  The job is not taken off its queue.
CancelJob(j) ==
    /\ LoopFree
    /\ Cancellable(mgr, j)
    /\ Commit(CancelledJob(mgr, j))
    /\ UNCHANGED <<queues, workers, cache, service, now, starts>>

\* get_queue_status()["total"]: every queued entry, cancelled and expired jobs too.
QueueTotal == Cardinality(UNION {{p} \X DOMAIN queues[p] : p \in Priorities})

\* get_batch_metrics replaces the running queue_size with the queues' own count.
GetBatchMetrics ==
    /\ LoopFree
    /\ metrics' = [metrics EXCEPT !.queue_size = QueueTotal]
    /\ UNCHANGED <<jobs, queues, workers, cache, service, now, starts>>

-----------------------------------------------------------------------------
(* The worker of priority p: _process_priority_queue, dequeue_job and        *)
(* _process_job.                                                             *)

\* Faults: the worker ends after its first job; the worker loops for ever.
ParkOff(p) == workers' = [workers EXCEPT ![p] = WorkerAt("off")]

ParkWaiting(p) == workers' = [workers EXCEPT ![p] = WorkerAt("wait")]

\* The job is done with: back to the loop's `while self._running` test.
Park(p) ==
    workers' = [workers EXCEPT ![p] =
                    WorkerAt(IF service = "running" THEN "wait" ELSE "off")]

\* Fault: the job is read but not removed.
PeekJob(p) ==
    /\ LoopFree
    /\ workers[p].pc = "wait"
    /\ queues[p] # <<>>
    /\ workers' = [workers EXCEPT ![p].pc = "got", ![p].job = Head(queues[p])]
    /\ UNCHANGED <<jobs, metrics, queues, cache, service, now, starts>>

\* The task that wait_for made of queue.get() takes the next job and ends; the
\* worker itself resumes later.  stop() may already have cancelled the worker: a
\* get() woken before that still takes its job.
TakeJob(p) ==
    /\ LoopFree
    /\ workers[p].pc = "wait"
    /\ queues[p] # <<>>
    /\ workers' = [workers EXCEPT ![p].pc = "got", ![p].job = Head(queues[p])]
    /\ queues' = [queues EXCEPT ![p] = Tail(@)]
    /\ UNCHANGED <<jobs, metrics, cache, service, now, starts>>

\* is_job_valid refuses the dequeued job.
DropJob(p) ==
    /\ LoopFree
    /\ workers[p].pc = "got"
    /\ ~JobValid(mgr, workers[p].job, now)
    /\ Commit(AfterValidityCheck(mgr, workers[p].job, now))
    /\ Park(p)
    /\ UNCHANGED <<queues, cache, service, now, starts>>

\* _has_job_timed_out
TimedOut(job) == now - job.created_at >= job.timeout

\* Fault: the handler of TimeoutError leaves the status alone.
CheckpointSilent(s, p, out) ==
    IF TimedOut(s.jobs[workers[p].job])
    THEN Commit(s) /\ Park(p)
    ELSE /\ Commit(s)
         /\ workers' = [workers EXCEPT ![p].pc = "predict", ![p].out = out]

\* The head of _process_job_batches' loop, entered in manager state s just after
\* the status was set to PROCESSING.  A job out of time raises TimeoutError, whose
\* handler writes EXPIRED; otherwise the next batch goes to predict_async_batch.
\* (The code also tests for CANCELLED here and in the handler: the overwritten
\* status can never be CANCELLED at that point.)
Checkpoint(s, p, out) ==
    LET j    == workers[p].job
        seen == GetJob(s, j, now)
    IN  IF TimedOut(s.jobs[j])
        THEN Commit(UpdateJobStatus(seen, j, "expired")) /\ Park(p)
        ELSE /\ Commit(seen)
             /\ workers' = [workers EXCEPT ![p] = [pc |-> "predict", job |-> j,
                                                   out |-> out, cancel |-> FALSE]]

\* The worker resumes with a valid job.  wait_for returns the job even when the
\* worker has been cancelled meanwhile, and that cancellation is forgotten.
StartJob(p) ==
    /\ LoopFree
    /\ workers[p].pc = "got"
    /\ JobValid(mgr, workers[p].job, now)
    /\ Checkpoint(UpdateJobStatus(mgr, workers[p].job, "processing"), p, <<>>)
    /\ UNCHANGED <<queues, cache, service, now, starts>>

\* predict_async_batch answers, or raises and the batch becomes ERROR entries.
Progress(p, outcome) ==
    LET out == Append(workers[p].out, outcome)
    IN  [out |-> out, state |-> UpdateProgress(mgr, workers[p].job, out)]

Answerable(p) == workers[p].pc = "predict" /\ ~workers[p].cancel

\* Fault: the loop over the batches ends one early.
LastBatchEarly(p) == Len(workers[p].out) + 2 >= jobs[workers[p].job].batches

LastBatch(p) == Len(workers[p].out) + 1 = jobs[workers[p].job].batches

\* A batch with others to follow.
NextBatch(p, outcome) ==
    /\ Answerable(p)
    /\ ~LastBatch(p)
    /\ Checkpoint(Progress(p, outcome).state, p, Progress(p, outcome).out)
    /\ UNCHANGED <<queues, cache, service, now, starts>>

\* The last batch: get_job, COMPLETED, record_processing_stats, get_job again, and
\* cache_result if the job still is COMPLETED.
FinishJob(p, outcome) ==
    LET j     == workers[p].job
        step  == Progress(p, outcome)
        final == GetJob(CompleteJob(GetJob(step.state, j, now), j, step.out), j, now)
    IN  /\ Answerable(p)
        /\ LastBatch(p)
        /\ Commit(final)
        /\ IF final.jobs[j].status = "completed"
           THEN cache' \in CacheResult(cache, j, step.out, now)
           ELSE UNCHANGED cache
        /\ Park(p)
        /\ UNCHANGED <<queues, service, now, starts>>

\* Fault: CancelledError also ends a worker that has just been given a job.
WorkerCancelledAnywhere(p) ==
    /\ LoopFree
    /\ workers[p].cancel
    /\ workers' = [workers EXCEPT ![p] = WorkerAt("off")]
    /\ UNCHANGED <<jobs, metrics, queues, cache, service, now, starts>>

\* CancelledError reaches a worker that waits for its queue or for a prediction;
\* a job being predicted is left as it is.
WorkerCancelled(p) ==
    /\ LoopFree
    /\ workers[p].cancel
    /\ workers[p].pc \in {"wait", "predict"}
    /\ workers' = [workers EXCEPT ![p] = WorkerAt("off")]
    /\ UNCHANGED <<jobs, metrics, queues, cache, service, now, starts>>

-----------------------------------------------------------------------------
(* The service's life, the cleanup task and the clock.                       *)

\* start.  The lifespan handler calls it once; here also after a completed stop.
Start ==
    /\ LoopFree
    /\ service = "stopped" /\ starts < MaxStarts
    /\ service' = "running"
    /\ starts' = starts + 1
    /\ workers' = [p \in Priorities |-> WorkerAt("wait")]
    /\ UNCHANGED <<jobs, metrics, queues, cache, now>>

\* stop up to the await of the cancelled workers.
Stop ==
    /\ LoopFree
    /\ service = "running"
    /\ service' = "stopping"
    /\ workers' = [p \in Priorities |-> [workers[p] EXCEPT !.cancel = TRUE]]
    /\ UNCHANGED <<jobs, metrics, queues, cache, now, starts>>

\* The rest of stop, once every worker task has ended.
StopDone ==
    /\ LoopFree
    /\ service = "stopping"
    /\ \A p \in Priorities : workers[p].pc = "off"
    /\ service' = "stopped"
    /\ UNCHANGED <<jobs, metrics, queues, workers, cache, now, starts>>

\* A round of _cleanup_expired_jobs that finds something; its period is left open.
Cleanup ==
    /\ LoopFree
    /\ service # "stopped"
    /\ Overdue(mgr, now) # {}
    /\ Commit(CleanupExpired(mgr, now))
    /\ UNCHANGED <<queues, workers, cache, service, now, starts>>

\* Time passes, also under a worker that keeps the loop.
Tick ==
    /\ now < MaxTime
    /\ now' = now + 1
    /\ UNCHANGED <<jobs, metrics, queues, workers, cache, service, starts>>

-----------------------------------------------------------------------------

Request(j) ==
    \/ \E p \in Priorities, b \in 1..MaxBatches, t \in Timeouts :
          SubmitBatchJob(j, p, b, t) \/ SubmitRejected(j, p, b, t)
    \/ GetJobStatus(j)
    \/ GetJobResults(j)
    \/ CancelJob(j)

WorkerStep(p) ==
    \/ TakeJob(p)
    \/ DropJob(p)
    \/ StartJob(p)
    \/ \E outcome \in Outcome : NextBatch(p, outcome) \/ FinishJob(p, outcome)
    \/ WorkerCancelled(p)

Next ==
    \/ \E j \in Jobs : Request(j)
    \/ GetBatchMetrics
    \/ \E p \in Priorities : WorkerStep(p)
    \/ Start
    \/ Stop
    \/ StopDone
    \/ Cleanup
    \/ Tick

Spec == Init /\ [][Next]_vars

\* The event loop runs every ready task, a prediction returns, and a stop() that
\* can go on does.  Clients, start, stop, the cleanup period and the clock owe
\* nothing.
Fairness == (\A p \in Priorities : WF_vars(WorkerStep(p))) /\ WF_vars(StopDone)

FairSpec == Spec /\ Fairness

-----------------------------------------------------------------------------
(* Properties.                                                               *)

TypeOK ==
    /\ jobs \in [Jobs -> BatchJob]
    /\ metrics \in ProcessingMetrics
    /\ queues \in [Priorities -> Seq(Jobs)]
    /\ workers \in [Priorities -> Worker]
    /\ DOMAIN cache \subseteq Jobs
    /\ \A j \in DOMAIN cache : cache[j] \in [results : Seq(Outcome), cached_at : Nat]
    /\ service \in {"stopped", "running", "stopping"}
    /\ now \in Nat
    /\ starts \in Nat

Ticket(j) == jobs[j].ticket

Holds(p, j) == workers[p].pc \in {"got", "predict"} /\ workers[p].job = j

\* A queue holds jobs of its own priority, each once, in the order they were
\* submitted, and the worker's job came before all of them: jobs of one priority
\* are taken in submission order and none is handed out twice
\* (enqueue_job, dequeue_job, stop_workers and restart).
QueueOrder ==
    \A p \in Priorities :
        /\ \A i \in DOMAIN queues[p] : jobs[queues[p][i]].priority = p
        /\ \A i, k \in DOMAIN queues[p] :
              i < k => Ticket(queues[p][i]) < Ticket(queues[p][k])
        /\ \A j \in Jobs : Holds(p, j) =>
              /\ jobs[j].priority = p
              /\ \A i \in DOMAIN queues[p] : Ticket(j) < Ticket(queues[p][i])

\* An accepted job that nobody has decided on is still where a worker will find
\* it: in its queue, or in the hand of the worker that took it off.  In particular
\* cancelling the workers in stop() loses no job.
NoJobLost ==
    \A j \in Jobs : jobs[j].status = "pending" =>
        LET p == jobs[j].priority
        IN  \/ \E i \in DOMAIN queues[p] : queues[p][i] = j
            \/ workers[p].pc = "got" /\ workers[p].job = j

\* A job marked PROCESSING is being processed.  Only for a processor that keeps
\* the loop: stop() abandons a suspended one.
ProcessingIsOwned ==
    \A j \in Jobs : jobs[j].status = "processing" =>
        workers[jobs[j].priority].pc = "predict" /\ workers[jobs[j].priority].job = j

\* Results exist only for a job that was COMPLETED (and may have expired since),
\* and then they cover every batch, with the reported counts in agreement
\* although get_job, cancel_job and the cleanup touch the job between batches.
ResultsComplete ==
    \A j \in Jobs :
        /\ jobs[j].status = "completed" => jobs[j].results # NoResults
        /\ jobs[j].results # NoResults =>
              /\ jobs[j].status \in {"completed", "expired"}
              /\ Len(jobs[j].results) = jobs[j].batches
              /\ jobs[j].processed_count = jobs[j].batches
              /\ jobs[j].failed_count = Errors(jobs[j].results)

\* The cache keeps to its size limit and never holds anything but the results the
\* job itself has, so get_job_results answers the same with and without a hit.
CacheCoherent ==
    /\ Cardinality(DOMAIN cache) <= CacheMax
    /\ \A j \in DOMAIN cache : cache[j].results = jobs[j].results
                               /\ jobs[j].results # NoResults

\* What get_job_results hands out is the complete result of a COMPLETED job.
RepliesComplete ==
    \A j \in Jobs : ResultsReply(j) # NoResults =>
        jobs[j].status = "completed" /\ Len(ResultsReply(j)) = jobs[j].batches

WithStatus(S) == {j \in Jobs : jobs[j].status \in S}

\* completed_jobs counts every job that produced results, once, whatever happened
\* to its status in between.
CompletedCountedOnce ==
    metrics.completed_jobs = Cardinality({j \in Jobs : jobs[j].results # NoResults})

\* While no job has reached its timeout, the counters of get_batch_metrics are
\* the numbers of jobs in the statuses they are named after.
NothingLate ==
    \A j \in Jobs : jobs[j].status # "absent" => now - jobs[j].created_at < jobs[j].timeout

CountersExact ==
    NothingLate =>
        /\ metrics.total_jobs = Cardinality(Jobs \ WithStatus({"absent"}))
        /\ metrics.active_jobs = Cardinality(WithStatus(Live))
        /\ metrics.completed_jobs = Cardinality(WithStatus({"completed"}))
        /\ metrics.failed_jobs = Cardinality(WithStatus({"failed"}))

\* A job that is waiting or being processed is decided on, as long as the service
\* is not stopped: no job starves in its queue or hangs in a worker.
JobsDecided ==
    \A j \in Jobs :
        jobs[j].status \in Live /\ service = "running"
            ~> jobs[j].status \notin Live \/ service # "running"

\* stop() returns: a worker that swallowed its cancellation finishes its job and
\* ends all the same.
StopReturns == service = "stopping" ~> service = "stopped"

\* The service as a client sees it.
Lifecycle == INSTANCE JobLifecycle WITH
    Answer   <- Seq(Outcome),
    NoAnswer <- NoResults,
    status   <- [j \in Jobs |-> jobs[j].status],
    answer   <- [j \in Jobs |-> jobs[j].results],
    deadline <- [j \in Jobs |-> jobs[j].created_at + jobs[j].timeout]

\* Every step of the service is a step of the job's life cycle or none: no job is
\* processed after it was cancelled, revived after it expired, or answered twice.
ImplementsLifecycle == Lifecycle!Spec

-----------------------------------------------------------------------------
(* What documents and tests say and the code does not do.                    *)

\* A cancelled job is not brought back.
CancelIsFinal ==
    [][\A j \in Jobs : jobs[j].status = "cancelled" =>
            jobs'[j].status \in {"cancelled", "expired"}]_vars

\* active_jobs covers every job that is waiting or being processed.
LiveJobsCounted == Cardinality(WithStatus(Live)) <= metrics.active_jobs

\* The timeout limits the wait for completion: once completed, a job stays so.
CompletedIsFinal ==
    [][\A j \in Jobs : jobs[j].status = "completed" =>
            jobs'[j].status = "completed"]_vars
=============================================================================
