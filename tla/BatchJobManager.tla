-------------------------- MODULE BatchJobManager --------------------------
(***************************************************************************)
(* The bookkeeping of BatchJobManager (src/app/services/                   *)
(* batch_job_manager.py): the table of jobs, their statuses and the        *)
(* ProcessingMetrics counters.                                             *)
(*                                                                         *)
(* Each public method takes the asyncio lock and releases it without       *)
(* awaiting anything in between, so it runs as one step of the event loop. *)
(* A method is therefore an operator from manager states to manager        *)
(* states, a manager state being the record [jobs, metrics].  AsyncBatch   *)
(* strings these operators together inside its actions exactly as the      *)
(* service strings the calls together between two suspensions.             *)
(*                                                                         *)
(* Time is an integer, texts are counted in batches, and <<>> stands for   *)
(* results that are still None (a job has at least one batch).             *)
(***************************************************************************)
EXTENDS Integers, Sequences, FiniteSets

CONSTANTS Jobs,        \* identifiers create_job can draw
          Priorities   \* the members of the Priority enumeration

ASSUME ManagerAssumption == IsFiniteSet(Jobs) /\ Priorities # {}

\* "absent" marks an identifier that create_job has not handed out yet.
BatchJobStatus ==
    {"absent", "pending", "processing", "completed", "failed", "cancelled", "expired"}

Live == {"pending", "processing"}

NoResults == <<>>

\* How predict_async_batch ended for one batch of texts: with predictions, or
\* with an exception that the service turned into ERROR entries.
Outcome == {"ok", "error"}

Errors(results) == Cardinality({i \in DOMAIN results : results[i] = "error"})

BatchJob == [status : BatchJobStatus, priority : Priorities,
             batches : Nat, timeout : Nat, created_at : Nat, ticket : Nat,
             processed_count : Nat, failed_count : Nat, results : Seq(Outcome)]

NoSuchJob == [status |-> "absent", priority |-> CHOOSE p \in Priorities : TRUE,
              batches |-> 0, timeout |-> 0, created_at |-> 0, ticket |-> 0,
              processed_count |-> 0, failed_count |-> 0, results |-> NoResults]

ProcessingMetrics == [total_jobs : Nat, active_jobs : Int, completed_jobs : Nat,
                      failed_jobs : Nat, queue_size : Int, texts_processed : Nat]

ManagerState == [jobs : [Jobs -> BatchJob], metrics : ProcessingMetrics]

NoMetrics == [total_jobs |-> 0, active_jobs |-> 0, completed_jobs |-> 0,
              failed_jobs |-> 0, queue_size |-> 0, texts_processed |-> 0]

One(b) == IF b THEN 1 ELSE 0

-----------------------------------------------------------------------------

(* create_job.  The ticket is not in the code: it is the value of the     *)
(* total_jobs counter, kept to state the order in which jobs came in.      *)
CreateJob(s, j, priority, batches, timeout, now) ==
    [jobs |-> [s.jobs EXCEPT ![j] =
        [status |-> "pending", priority |-> priority, batches |-> batches,
         timeout |-> timeout, created_at |-> now, ticket |-> s.metrics.total_jobs + 1,
         processed_count |-> 0, failed_count |-> 0, results |-> NoResults]],
     metrics |-> [s.metrics EXCEPT !.total_jobs = @ + 1,
                                   !.active_jobs = @ + 1,
                                   !.queue_size = @ + 1]]

\* is_job_expired: the age of the job, whatever its status.
JobExpired(job, now) == now - job.created_at > job.timeout

\* The branch get_job and is_job_valid share.
MarkExpired(s, j) ==
    LET old == s.jobs[j].status
    IN  [jobs |-> [s.jobs EXCEPT ![j].status = "expired"],
         metrics |-> [s.metrics EXCEPT !.queue_size = @ - One(old = "pending"),
                                       !.active_jobs = @ - One(old \in Live),
                                       !.failed_jobs = @ + 1]]

\* get_job: reading a job past its timeout expires it first.
GetJob(s, j, now) ==
    IF JobExpired(s.jobs[j], now) /\ s.jobs[j].status # "expired"
    THEN MarkExpired(s, j)
    ELSE s

\* Fault: a failure is taken off failed_jobs instead of added to it.
StatusMetricsFailureLost(m, old, new) ==
    IF new = "failed" THEN [m EXCEPT !.active_jobs = @ - 1, !.failed_jobs = @ - 1]
    ELSE IF new = "completed"
    THEN [m EXCEPT !.active_jobs = @ - 1, !.completed_jobs = @ + 1]
    ELSE m

\* Fault: completion counts only when the job is still PROCESSING.
StatusMetricsProcessingOnly(m, old, new) ==
    CASE new = "completed" /\ old = "processing" ->
            [m EXCEPT !.active_jobs = @ - 1, !.completed_jobs = @ + 1]
      [] new = "failed" -> [m EXCEPT !.active_jobs = @ - 1, !.failed_jobs = @ + 1]
      [] OTHER -> m

\* The metrics branch of update_job_status.
StatusMetrics(m, old, new) ==
    CASE old = "pending" /\ new = "processing" ->
            [m EXCEPT !.queue_size = @ - 1]
      [] new = "completed" /\ old # "cancelled" ->
            [m EXCEPT !.active_jobs = @ - 1, !.completed_jobs = @ + 1]
      [] new = "failed" /\ old # "cancelled" ->
            [m EXCEPT !.active_jobs = @ - 1, !.failed_jobs = @ + 1,
                      !.queue_size = @ - One(old = "pending")]
      [] new = "cancelled" /\ old = "pending" ->
            [m EXCEPT !.active_jobs = @ - 1, !.queue_size = @ - 1]
      [] OTHER -> m

\* update_job_status: the new status is written over whatever is there.
UpdateJobStatus(s, j, new) ==
    [jobs |-> [s.jobs EXCEPT ![j].status = new],
     metrics |-> StatusMetrics(s.metrics, s.jobs[j].status, new)]

\* update_job_status as _process_job_batches calls it after a batch.
UpdateProgress(s, j, out) ==
    LET u == UpdateJobStatus(s, j, "processing")
    IN  [u EXCEPT !.jobs[j].processed_count = Len(out),
                  !.jobs[j].failed_count = Errors(out)]

\* update_job_status(COMPLETED, results=...) and the record_processing_stats
\* that follows it.
CompleteJob(s, j, out) ==
    LET u == UpdateJobStatus(s, j, "completed")
    IN  [u EXCEPT !.jobs[j].results = out,
                  !.jobs[j].processed_count = Len(out),
                  !.jobs[j].failed_count = Errors(out),
                  !.metrics.texts_processed = @ + Len(out)]

\* Fault: a cancelled job is still valid when it is dequeued.
JobValidCancelledToo(s, j, now) ==
    /\ s.jobs[j].status # "expired"
    /\ ~JobExpired(s.jobs[j], now)

\* is_job_valid: its answer, and the state it leaves behind.
JobValid(s, j, now) ==
    /\ s.jobs[j].status \notin {"cancelled", "expired"}
    /\ ~JobExpired(s.jobs[j], now)

AfterValidityCheck(s, j, now) ==
    IF s.jobs[j].status \notin {"cancelled", "expired"} /\ JobExpired(s.jobs[j], now)
    THEN MarkExpired(s, j)
    ELSE s

\* cancel_job refuses every status but the two live ones.
Cancellable(s, j) == s.jobs[j].status \in Live

\* Fault: a job cancelled in its queue stays among the active ones.
CancelledJobStaysActive(s, j) ==
    [jobs |-> [s.jobs EXCEPT ![j].status = "cancelled"],
     metrics |-> [s.metrics EXCEPT
                    !.active_jobs = @ - One(s.jobs[j].status = "processing")]]

CancelledJob(s, j) ==
    [jobs |-> [s.jobs EXCEPT ![j].status = "cancelled"],
     metrics |-> [s.metrics EXCEPT
                    !.active_jobs = @ - 1,
                    !.queue_size = @ - One(s.jobs[j].status = "pending")]]

\* One round of _cleanup_expired_jobs.
Overdue(s, now) ==
    {j \in Jobs : /\ s.jobs[j].status \notin {"absent", "completed", "failed", "expired"}
                  /\ JobExpired(s.jobs[j], now)}

CleanupExpired(s, now) ==
    [jobs |-> [j \in Jobs |-> IF j \in Overdue(s, now)
                              THEN [s.jobs[j] EXCEPT !.status = "expired"]
                              ELSE s.jobs[j]],
     metrics |-> [s.metrics EXCEPT !.active_jobs = @ - Cardinality(Overdue(s, now)),
                                   !.failed_jobs = @ + Cardinality(Overdue(s, now))]]
=============================================================================
