------------------------ MODULE BatchJobManagerProofs ------------------------
(***************************************************************************)
(* Lemmas about the operators of BatchJobManager: each maps manager states *)
(* to manager states, and all but create_job leave alone what jobs were    *)
(* submitted with.                                                         *)
(***************************************************************************)
EXTENDS BatchJobManager, FiniteSetTheorems, TLAPS

\* The number of ERROR entries in a batch result is a natural number.
LEMMA ErrorsNat ==
    ASSUME NEW out \in Seq(Outcome)
    PROVE  Errors(out) \in Nat
<1>1. IsFiniteSet(1..Len(out))
  BY FS_Interval
<1>2. {i \in DOMAIN out : out[i] = "error"} \subseteq 1..Len(out)
  OBVIOUS
<1>3. IsFiniteSet({i \in DOMAIN out : out[i] = "error"})
  BY <1>1, <1>2, FS_Subset
<1> QED
  BY <1>3, FS_CardinalityType DEF Errors

\* The entry of an identifier that has not been handed out is a job record.
LEMMA NoSuchJobType == NoSuchJob \in BatchJob
<1>1. (CHOOSE p \in Priorities : TRUE) \in Priorities
  BY ManagerAssumption
<1> QED
  BY <1>1 DEF NoSuchJob, BatchJob, BatchJobStatus, NoResults

\* The counters one by one.
LEMMA MetricsFields ==
    ASSUME NEW m \in ProcessingMetrics
    PROVE  /\ m.total_jobs \in Nat /\ m.active_jobs \in Int /\ m.completed_jobs \in Nat
           /\ m.failed_jobs \in Nat /\ m.queue_size \in Int /\ m.texts_processed \in Nat
BY DEF ProcessingMetrics

\* Every combination of counters that the manager writes at once.
LEMMA MetricsUpdates ==
    ASSUME NEW m \in ProcessingMetrics, NEW t \in Nat, NEW a \in Int, NEW c \in Nat,
           NEW f \in Nat, NEW q \in Int
    PROVE  /\ [m EXCEPT !.queue_size = q] \in ProcessingMetrics
           /\ [m EXCEPT !.active_jobs = a, !.queue_size = q] \in ProcessingMetrics
           /\ [m EXCEPT !.active_jobs = a, !.completed_jobs = c] \in ProcessingMetrics
           /\ [m EXCEPT !.active_jobs = a, !.failed_jobs = f] \in ProcessingMetrics
           /\ [m EXCEPT !.active_jobs = a, !.failed_jobs = f, !.queue_size = q]
                \in ProcessingMetrics
           /\ [m EXCEPT !.queue_size = q, !.active_jobs = a, !.failed_jobs = f]
                \in ProcessingMetrics
           /\ [m EXCEPT !.total_jobs = t, !.active_jobs = a, !.queue_size = q]
                \in ProcessingMetrics
BY DEF ProcessingMetrics

\* create_job maps manager states to manager states.
LEMMA CreateJobType ==
    ASSUME NEW s \in ManagerState, NEW j \in Jobs, NEW p \in Priorities,
           NEW b \in Nat, NEW t \in Nat, NEW n \in Nat
    PROVE  CreateJob(s, j, p, b, t, n) \in ManagerState
<1> DEFINE job == [status |-> "pending", priority |-> p, batches |-> b, timeout |-> t,
                   created_at |-> n, ticket |-> s.metrics.total_jobs + 1,
                   processed_count |-> 0, failed_count |-> 0, results |-> NoResults]
<1>1. s.jobs \in [Jobs -> BatchJob] /\ s.metrics \in ProcessingMetrics
  BY DEF ManagerState
<1>2. job \in BatchJob
  BY <1>1 DEF BatchJob, ProcessingMetrics, BatchJobStatus, NoResults
<1>3. [s.jobs EXCEPT ![j] = job] \in [Jobs -> BatchJob]
  BY <1>1, <1>2
<1>4. [s.metrics EXCEPT !.total_jobs = @ + 1, !.active_jobs = @ + 1, !.queue_size = @ + 1]
        \in ProcessingMetrics
  <2>1. /\ s.metrics.total_jobs + 1 \in Nat /\ s.metrics.active_jobs + 1 \in Int
        /\ s.metrics.queue_size + 1 \in Int
    BY <1>1, MetricsFields
  <2> QED
    BY <1>1, <2>1, MetricsUpdates
<1> QED
  BY <1>3, <1>4 DEF CreateJob, ManagerState

\* Writing a status into one job of the table gives a table.
LEMMA JobWithStatus ==
    ASSUME NEW f \in [Jobs -> BatchJob], NEW j \in Jobs, NEW new \in BatchJobStatus
    PROVE  [f EXCEPT ![j].status = new] \in [Jobs -> BatchJob]
<1>1. [f[j] EXCEPT !.status = new] \in BatchJob
  BY DEF BatchJob
<1> QED
  BY <1>1

\* So does expiring a job.
LEMMA MarkExpiredType ==
    ASSUME NEW s \in ManagerState, NEW j \in Jobs
    PROVE  MarkExpired(s, j) \in ManagerState
<1> DEFINE old == s.jobs[j].status
<1>1. s.jobs \in [Jobs -> BatchJob] /\ s.metrics \in ProcessingMetrics
  BY DEF ManagerState
<1>2. [s.jobs EXCEPT ![j].status = "expired"] \in [Jobs -> BatchJob]
  BY <1>1, JobWithStatus DEF BatchJobStatus
<1>3. One(old = "pending") \in Int /\ One(old \in Live) \in Int
  BY DEF One
<1>4. [s.metrics EXCEPT !.queue_size = @ - One(old = "pending"),
                        !.active_jobs = @ - One(old \in Live),
                        !.failed_jobs = @ + 1] \in ProcessingMetrics
  <2> HIDE DEF old
  <2>1. /\ s.metrics.queue_size - One(old = "pending") \in Int
        /\ s.metrics.active_jobs - One(old \in Live) \in Int
        /\ s.metrics.failed_jobs + 1 \in Nat
    BY <1>1, <1>3, MetricsFields
  <2> QED
    BY <1>1, <2>1, MetricsUpdates
<1> QED
  BY <1>2, <1>4 DEF MarkExpired, ManagerState

\* So does get_job.
LEMMA GetJobType ==
    ASSUME NEW s \in ManagerState, NEW j \in Jobs, NEW n \in Nat
    PROVE  GetJob(s, j, n) \in ManagerState
BY MarkExpiredType DEF GetJob

\* Every branch of update_job_status leaves well-typed counters.
LEMMA StatusMetricsType ==
    ASSUME NEW m \in ProcessingMetrics, NEW old, NEW new
    PROVE  StatusMetrics(m, old, new) \in ProcessingMetrics
<1>1. One(old = "pending") \in Int
  BY DEF One
<1>2. /\ m.queue_size - 1 \in Int /\ m.active_jobs - 1 \in Int
      /\ m.completed_jobs + 1 \in Nat /\ m.failed_jobs + 1 \in Nat
      /\ m.queue_size - One(old = "pending") \in Int
  BY <1>1, MetricsFields
<1>3. [m EXCEPT !.queue_size = @ - 1] \in ProcessingMetrics
  BY <1>2, MetricsUpdates
<1>4. [m EXCEPT !.active_jobs = @ - 1, !.completed_jobs = @ + 1] \in ProcessingMetrics
  BY <1>2, MetricsUpdates
<1>5. [m EXCEPT !.active_jobs = @ - 1, !.failed_jobs = @ + 1,
                !.queue_size = @ - One(old = "pending")] \in ProcessingMetrics
  BY <1>2, MetricsUpdates
<1>6. [m EXCEPT !.active_jobs = @ - 1, !.queue_size = @ - 1] \in ProcessingMetrics
  BY <1>2, MetricsUpdates
<1> QED
  BY <1>3, <1>4, <1>5, <1>6 DEF StatusMetrics

\* update_job_status maps manager states to manager states.
LEMMA UpdateJobStatusType ==
    ASSUME NEW s \in ManagerState, NEW j \in Jobs, NEW new \in BatchJobStatus
    PROVE  UpdateJobStatus(s, j, new) \in ManagerState
BY StatusMetricsType DEF UpdateJobStatus, ManagerState, BatchJob

\* So does the progress report after a batch.
LEMMA UpdateProgressType ==
    ASSUME NEW s \in ManagerState, NEW j \in Jobs, NEW out \in Seq(Outcome)
    PROVE  UpdateProgress(s, j, out) \in ManagerState
<1> DEFINE u == UpdateJobStatus(s, j, "processing")
<1>1. u \in ManagerState
  BY UpdateJobStatusType DEF BatchJobStatus
<1>2. Len(out) \in Nat /\ Errors(out) \in Nat
  BY ErrorsNat
<1> HIDE DEF u
<1>3. [u EXCEPT !.jobs[j].processed_count = Len(out),
                !.jobs[j].failed_count = Errors(out)] \in ManagerState
  <2>1. u.jobs[j] \in BatchJob /\ u.jobs \in [Jobs -> BatchJob]
    BY <1>1 DEF ManagerState
  <2>2. [u.jobs[j] EXCEPT !.processed_count = Len(out), !.failed_count = Errors(out)]
          \in BatchJob
    BY <1>2, <2>1 DEF BatchJob
  <2>3. [u.jobs EXCEPT ![j] = [u.jobs[j] EXCEPT !.processed_count = Len(out),
                                                !.failed_count = Errors(out)]]
          \in [Jobs -> BatchJob]
    BY <2>1, <2>2
  <2>4. [u EXCEPT !.jobs[j].processed_count = Len(out), !.jobs[j].failed_count = Errors(out)]
        = [u EXCEPT !.jobs = [u.jobs EXCEPT ![j] = [u.jobs[j] EXCEPT
                !.processed_count = Len(out), !.failed_count = Errors(out)]]]
    BY <1>1, <2>1 DEF ManagerState, BatchJob
  <2> QED
    BY <1>1, <2>3, <2>4 DEF ManagerState
<1> QED
  BY <1>3 DEF UpdateProgress, u

\* So does completion, with record_processing_stats.
LEMMA CompleteJobType ==
    ASSUME NEW s \in ManagerState, NEW j \in Jobs, NEW out \in Seq(Outcome)
    PROVE  CompleteJob(s, j, out) \in ManagerState
<1> DEFINE u == UpdateJobStatus(s, j, "completed")
           job == [u.jobs[j] EXCEPT !.results = out, !.processed_count = Len(out),
                                    !.failed_count = Errors(out)]
           met == [u.metrics EXCEPT !.texts_processed = @ + Len(out)]
<1>1. u \in ManagerState
  BY UpdateJobStatusType DEF BatchJobStatus
<1>2. Len(out) \in Nat /\ Errors(out) \in Nat
  BY ErrorsNat
<1>3. u.jobs[j] \in BatchJob /\ u.jobs \in [Jobs -> BatchJob]
      /\ u.metrics \in ProcessingMetrics
  BY <1>1 DEF ManagerState
<1>4. CompleteJob(s, j, out) = [u EXCEPT !.jobs = [u.jobs EXCEPT ![j] = job],
                                         !.metrics = met]
  <2>1. CompleteJob(s, j, out) = [u EXCEPT !.jobs[j].results = out,
                !.jobs[j].processed_count = Len(out), !.jobs[j].failed_count = Errors(out),
                !.metrics.texts_processed = @ + Len(out)]
    BY DEF CompleteJob
  <2> HIDE DEF u
  <2>2. u = [jobs |-> u.jobs, metrics |-> u.metrics]
    BY <1>1 DEF ManagerState
  <2> DEFINE written == [u.jobs EXCEPT ![j].results = out, ![j].processed_count = Len(out),
                                       ![j].failed_count = Errors(out)]
  <2>3. written = [u.jobs EXCEPT ![j] = job]
    BY <1>3 DEF BatchJob
  <2>4. CompleteJob(s, j, out) = [u EXCEPT !.jobs = written, !.metrics = met]
    BY <2>1, <2>2
  <2> QED
    BY <2>3, <2>4
<1> HIDE DEF u
<1>5. job \in BatchJob
  BY <1>2, <1>3 DEF BatchJob
<1>6. met \in ProcessingMetrics
  BY <1>2, <1>3 DEF ProcessingMetrics
<1> HIDE DEF job, met
<1>7. [u.jobs EXCEPT ![j] = job] \in [Jobs -> BatchJob]
  BY <1>3, <1>5
<1> QED
  BY <1>1, <1>4, <1>6, <1>7 DEF ManagerState

\* So does is_job_valid.
LEMMA AfterValidityCheckType ==
    ASSUME NEW s \in ManagerState, NEW j \in Jobs, NEW n \in Nat
    PROVE  AfterValidityCheck(s, j, n) \in ManagerState
BY MarkExpiredType DEF AfterValidityCheck

\* So does cancel_job.
LEMMA CancelledJobType ==
    ASSUME NEW s \in ManagerState, NEW j \in Jobs
    PROVE  CancelledJob(s, j) \in ManagerState
<1>1. s.jobs \in [Jobs -> BatchJob] /\ s.metrics \in ProcessingMetrics
  BY DEF ManagerState
<1>2. [s.jobs EXCEPT ![j].status = "cancelled"] \in [Jobs -> BatchJob]
  BY <1>1, JobWithStatus DEF BatchJobStatus
<1>3. One(s.jobs[j].status = "pending") \in Int
  BY DEF One
<1>4. [s.metrics EXCEPT !.active_jobs = @ - 1,
                        !.queue_size = @ - One(s.jobs[j].status = "pending")]
        \in ProcessingMetrics
  <2>1. /\ s.metrics.active_jobs - 1 \in Int
        /\ s.metrics.queue_size - One(s.jobs[j].status = "pending") \in Int
    BY <1>1, <1>3, MetricsFields
  <2> QED
    BY <1>1, <2>1, MetricsUpdates
<1> QED
  BY <1>2, <1>4 DEF CancelledJob, ManagerState

\* So does a round of _cleanup_expired_jobs.
LEMMA CleanupExpiredType ==
    ASSUME NEW s \in ManagerState, NEW n \in Nat
    PROVE  CleanupExpired(s, n) \in ManagerState
<1> DEFINE late == Overdue(s, n)
<1>1. s.jobs \in [Jobs -> BatchJob] /\ s.metrics \in ProcessingMetrics
  BY DEF ManagerState
<1>2. Cardinality(late) \in Nat
  BY ManagerAssumption, FS_Subset, FS_CardinalityType DEF Overdue
<1>3. ASSUME NEW j \in Jobs
      PROVE  [s.jobs[j] EXCEPT !.status = "expired"] \in BatchJob
  BY <1>1 DEF BatchJob, BatchJobStatus
<1> HIDE DEF late
<1>4. [j \in Jobs |-> IF j \in late THEN [s.jobs[j] EXCEPT !.status = "expired"]
                                    ELSE s.jobs[j]] \in [Jobs -> BatchJob]
  BY <1>1, <1>3
<1>5. [s.metrics EXCEPT !.active_jobs = @ - Cardinality(late),
                        !.failed_jobs = @ + Cardinality(late)] \in ProcessingMetrics
  <2>1. /\ s.metrics.active_jobs - Cardinality(late) \in Int
        /\ s.metrics.failed_jobs + Cardinality(late) \in Nat
    BY <1>1, <1>2, MetricsFields
  <2> QED
    BY <1>1, <2>1, MetricsUpdates
<1> QED
  BY <1>4, <1>5 DEF CleanupExpired, ManagerState, late

-----------------------------------------------------------------------------
(***************************************************************************)
(* Kept(s, u): between the manager states s and u no job was created, what *)
(* jobs were submitted with is as it was, and no job became PENDING.       *)
(* Every operator but CreateJob keeps.                                     *)
(***************************************************************************)
Kept(s, u) ==
    /\ u.metrics.total_jobs = s.metrics.total_jobs
    /\ \A j \in Jobs :
          /\ u.jobs[j].priority = s.jobs[j].priority
          /\ u.jobs[j].batches = s.jobs[j].batches
          /\ u.jobs[j].ticket = s.jobs[j].ticket
          /\ u.jobs[j].status = "absent" <=> s.jobs[j].status = "absent"
          /\ u.jobs[j].status = "pending" => s.jobs[j].status = "pending"

\* Keeping composes, so the calls of one action can be followed one by one.
LEMMA KeptTransitive ==
    ASSUME NEW s, NEW u, NEW v, Kept(s, u), Kept(u, v)
    PROVE  Kept(s, v)
BY DEF Kept

\* The branch of get_job and is_job_valid that expires a known job keeps.
LEMMA MarkExpiredKeeps ==
    ASSUME NEW s \in ManagerState, NEW j \in Jobs, s.jobs[j].status # "absent"
    PROVE  Kept(s, MarkExpired(s, j))
<1>1. s.jobs \in [Jobs -> BatchJob] /\ s.metrics \in ProcessingMetrics
  BY DEF ManagerState
<1>2. MarkExpired(s, j).metrics.total_jobs = s.metrics.total_jobs
  BY <1>1 DEF MarkExpired, ProcessingMetrics
<1>3. ASSUME NEW k \in Jobs
      PROVE  MarkExpired(s, j).jobs[k]
                = IF k = j THEN [s.jobs[k] EXCEPT !.status = "expired"] ELSE s.jobs[k]
  BY <1>1 DEF MarkExpired
<1>4. ASSUME NEW k \in Jobs
      PROVE  LET e == [s.jobs[k] EXCEPT !.status = "expired"]
             IN  /\ e.priority = s.jobs[k].priority /\ e.batches = s.jobs[k].batches
                 /\ e.ticket = s.jobs[k].ticket /\ e.status = "expired"
  BY <1>1 DEF BatchJob
<1> QED
  BY <1>2, <1>3, <1>4 DEF Kept

\* Reading a job, or checking that it is valid, keeps.
LEMMA ReadingKeeps ==
    ASSUME NEW s \in ManagerState, NEW j \in Jobs, NEW n \in Nat,
           s.jobs[j].status # "absent"
    PROVE  Kept(s, GetJob(s, j, n)) /\ Kept(s, AfterValidityCheck(s, j, n))
<1>1. Kept(s, s)
  BY DEF Kept
<1> QED
  BY <1>1, MarkExpiredKeeps DEF GetJob, AfterValidityCheck

\* No branch of update_job_status touches total_jobs.
LEMMA StatusMetricsTotal ==
    ASSUME NEW m \in ProcessingMetrics, NEW old, NEW new
    PROVE  StatusMetrics(m, old, new).total_jobs = m.total_jobs
<1>1. ASSUME NEW a, NEW c, NEW f, NEW q
      PROVE  /\ [m EXCEPT !.queue_size = q].total_jobs = m.total_jobs
             /\ [m EXCEPT !.active_jobs = a, !.completed_jobs = c].total_jobs = m.total_jobs
             /\ [m EXCEPT !.active_jobs = a, !.queue_size = q].total_jobs = m.total_jobs
             /\ [m EXCEPT !.active_jobs = a, !.failed_jobs = f, !.queue_size = q].total_jobs
                    = m.total_jobs
  BY DEF ProcessingMetrics
<1> QED
  BY <1>1 DEF StatusMetrics

\* A status update other than to PENDING keeps, whatever else it writes into the
\* results and counts of the job and into texts_processed.
LEMMA UpdateKeeps ==
    ASSUME NEW s \in ManagerState, NEW j \in Jobs, s.jobs[j].status # "absent",
           NEW new \in BatchJobStatus \ {"absent", "pending"}
    PROVE  Kept(s, UpdateJobStatus(s, j, new))
<1>1. s.jobs \in [Jobs -> BatchJob] /\ s.metrics \in ProcessingMetrics
  BY DEF ManagerState
<1>2. UpdateJobStatus(s, j, new).metrics.total_jobs = s.metrics.total_jobs
  BY <1>1, StatusMetricsTotal DEF UpdateJobStatus
<1>3. ASSUME NEW k \in Jobs
      PROVE  UpdateJobStatus(s, j, new).jobs[k]
                = IF k = j THEN [s.jobs[k] EXCEPT !.status = new] ELSE s.jobs[k]
  BY <1>1 DEF UpdateJobStatus
<1>4. ASSUME NEW k \in Jobs
      PROVE  LET e == [s.jobs[k] EXCEPT !.status = new]
             IN  /\ e.priority = s.jobs[k].priority /\ e.batches = s.jobs[k].batches
                 /\ e.ticket = s.jobs[k].ticket /\ e.status = new
  BY <1>1 DEF BatchJob
<1> QED
  BY <1>2, <1>3, <1>4 DEF Kept

\* The progress report after a batch keeps.
LEMMA ProgressKeeps ==
    ASSUME NEW s \in ManagerState, NEW j \in Jobs, s.jobs[j].status # "absent",
           NEW out \in Seq(Outcome)
    PROVE  Kept(s, UpdateProgress(s, j, out))
<1> DEFINE u == UpdateJobStatus(s, j, "processing")
<1>1. u \in ManagerState /\ Kept(s, u)
  BY UpdateJobStatusType, UpdateKeeps DEF BatchJobStatus
<1> HIDE DEF u
<1>2. u.jobs \in [Jobs -> BatchJob]
  BY <1>1 DEF ManagerState
<1> DEFINE v == [u EXCEPT !.jobs[j].processed_count = Len(out),
                          !.jobs[j].failed_count = Errors(out)]
<1>3. v.metrics = u.metrics
  BY <1>1 DEF ManagerState
<1>4. ASSUME NEW k \in Jobs
      PROVE  v.jobs[k] = IF k = j THEN [u.jobs[k] EXCEPT !.processed_count = Len(out),
                                                         !.failed_count = Errors(out)]
                         ELSE u.jobs[k]
  BY <1>1, <1>2 DEF ManagerState, BatchJob
<1> HIDE DEF v
<1>5. ASSUME NEW k \in Jobs
      PROVE  /\ v.jobs[k].priority = u.jobs[k].priority
             /\ v.jobs[k].batches = u.jobs[k].batches
             /\ v.jobs[k].ticket = u.jobs[k].ticket
             /\ v.jobs[k].status = u.jobs[k].status
  BY <1>2, <1>4 DEF BatchJob
<1>6. Kept(u, v)
  BY <1>3, <1>5 DEF Kept
<1> QED
  BY <1>1, <1>6, KeptTransitive DEF UpdateProgress, u, v

\* Completion keeps.
LEMMA CompleteKeeps ==
    ASSUME NEW s \in ManagerState, NEW j \in Jobs, s.jobs[j].status # "absent",
           NEW out \in Seq(Outcome)
    PROVE  Kept(s, CompleteJob(s, j, out))
<1> DEFINE u == UpdateJobStatus(s, j, "completed")
<1>1. u \in ManagerState /\ Kept(s, u)
  BY UpdateJobStatusType, UpdateKeeps DEF BatchJobStatus
<1> HIDE DEF u
<1>2. u.jobs \in [Jobs -> BatchJob] /\ u.metrics \in ProcessingMetrics
  BY <1>1 DEF ManagerState
<1> DEFINE v == [u EXCEPT !.jobs[j].results = out,
                          !.jobs[j].processed_count = Len(out),
                          !.jobs[j].failed_count = Errors(out),
                          !.metrics.texts_processed = @ + Len(out)]
<1>3. v.metrics = [u.metrics EXCEPT !.texts_processed = @ + Len(out)]
  BY <1>1 DEF ManagerState
<1>4. ASSUME NEW k \in Jobs
      PROVE  v.jobs[k] = IF k = j THEN [u.jobs[k] EXCEPT !.results = out,
                                                         !.processed_count = Len(out),
                                                         !.failed_count = Errors(out)]
                         ELSE u.jobs[k]
  BY <1>1, <1>2 DEF ManagerState, BatchJob
<1> HIDE DEF v
<1>5. ASSUME NEW k \in Jobs
      PROVE  /\ v.jobs[k].priority = u.jobs[k].priority
             /\ v.jobs[k].batches = u.jobs[k].batches
             /\ v.jobs[k].ticket = u.jobs[k].ticket
             /\ v.jobs[k].status = u.jobs[k].status
  BY <1>2, <1>4 DEF BatchJob
<1>6. v.metrics.total_jobs = u.metrics.total_jobs
  BY <1>2, <1>3 DEF ProcessingMetrics
<1>7. Kept(u, v)
  BY <1>5, <1>6 DEF Kept
<1> QED
  BY <1>1, <1>7, KeptTransitive DEF CompleteJob, u, v

\* Cancelling keeps.
LEMMA CancelledKeeps ==
    ASSUME NEW s \in ManagerState, NEW j \in Jobs, Cancellable(s, j)
    PROVE  Kept(s, CancelledJob(s, j))
<1>1. s.jobs \in [Jobs -> BatchJob] /\ s.metrics \in ProcessingMetrics
  BY DEF ManagerState
<1>2. CancelledJob(s, j).metrics.total_jobs = s.metrics.total_jobs
  BY <1>1 DEF CancelledJob, ProcessingMetrics
<1>3. ASSUME NEW k \in Jobs
      PROVE  CancelledJob(s, j).jobs[k]
                = IF k = j THEN [s.jobs[k] EXCEPT !.status = "cancelled"] ELSE s.jobs[k]
  BY <1>1 DEF CancelledJob
<1>4. ASSUME NEW k \in Jobs
      PROVE  LET e == [s.jobs[k] EXCEPT !.status = "cancelled"]
             IN  /\ e.priority = s.jobs[k].priority /\ e.batches = s.jobs[k].batches
                 /\ e.ticket = s.jobs[k].ticket /\ e.status = "cancelled"
  BY <1>1 DEF BatchJob
<1> QED
  BY <1>2, <1>3, <1>4 DEF Kept, Cancellable, Live

\* A round of the cleanup keeps.
LEMMA CleanupKeeps ==
    ASSUME NEW s \in ManagerState, NEW n \in Nat
    PROVE  Kept(s, CleanupExpired(s, n))
<1>1. s.jobs \in [Jobs -> BatchJob] /\ s.metrics \in ProcessingMetrics
  BY DEF ManagerState
<1>2. CleanupExpired(s, n).metrics.total_jobs = s.metrics.total_jobs
  BY <1>1 DEF CleanupExpired, ProcessingMetrics
<1>3. ASSUME NEW k \in Jobs
      PROVE  CleanupExpired(s, n).jobs[k]
                = IF k \in Overdue(s, n) THEN [s.jobs[k] EXCEPT !.status = "expired"]
                                         ELSE s.jobs[k]
  BY DEF CleanupExpired
<1>4. ASSUME NEW k \in Jobs
      PROVE  LET e == [s.jobs[k] EXCEPT !.status = "expired"]
             IN  /\ e.priority = s.jobs[k].priority /\ e.batches = s.jobs[k].batches
                 /\ e.ticket = s.jobs[k].ticket /\ e.status = "expired"
  BY <1>1 DEF BatchJob
<1>5. ASSUME NEW k \in Overdue(s, n)
      PROVE  s.jobs[k].status # "absent"
  BY DEF Overdue
<1> QED
  BY <1>2, <1>3, <1>4, <1>5 DEF Kept

-----------------------------------------------------------------------------
(* What single operators do to the job they are given.                       *)

\* create_job makes a PENDING job with the next ticket and touches no other.
LEMMA CreateJobEffect ==
    ASSUME NEW s \in ManagerState, NEW j \in Jobs, NEW p \in Priorities,
           NEW b \in Nat, NEW t \in Nat, NEW n \in Nat,
           NEW u, u = CreateJob(s, j, p, b, t, n)
    PROVE  /\ u.metrics.total_jobs = s.metrics.total_jobs + 1
           /\ u.jobs[j].status = "pending"
           /\ u.jobs[j].priority = p
           /\ u.jobs[j].ticket = s.metrics.total_jobs + 1
           /\ u.jobs[j].batches = b /\ u.jobs[j].timeout = t /\ u.jobs[j].created_at = n
           /\ u.jobs[j].results = NoResults
           /\ u.metrics.completed_jobs = s.metrics.completed_jobs
           /\ \A k \in Jobs \ {j} : u.jobs[k] = s.jobs[k]
<1>1. s.jobs \in [Jobs -> BatchJob] /\ s.metrics \in ProcessingMetrics
  BY DEF ManagerState
<1>2. /\ u.metrics.total_jobs = s.metrics.total_jobs + 1
      /\ u.metrics.completed_jobs = s.metrics.completed_jobs
  BY <1>1 DEF CreateJob, ProcessingMetrics
<1> QED
  BY <1>1, <1>2 DEF CreateJob

\* update_job_status writes the status and touches no other job.
LEMMA UpdateJobStatusEffect ==
    ASSUME NEW s \in ManagerState, NEW j \in Jobs, NEW new,
           NEW u, u = UpdateJobStatus(s, j, new)
    PROVE  /\ u.jobs[j].status = new
           /\ \A k \in Jobs \ {j} : u.jobs[k] = s.jobs[k]
<1>1. s.jobs \in [Jobs -> BatchJob]
  BY DEF ManagerState
<1>2. [s.jobs[j] EXCEPT !.status = new].status = new
  BY <1>1 DEF BatchJob
<1> QED
  BY <1>1, <1>2 DEF UpdateJobStatus

\* A job that is_job_valid refuses is not PENDING afterwards.
LEMMA RefusedIsNotPending ==
    ASSUME NEW s \in ManagerState, NEW j \in Jobs, NEW n \in Nat, ~JobValid(s, j, n)
    PROVE  AfterValidityCheck(s, j, n).jobs[j].status # "pending"
<1>1. s.jobs \in [Jobs -> BatchJob]
  BY DEF ManagerState
<1>2. MarkExpired(s, j).jobs[j].status = "expired"
  BY <1>1 DEF MarkExpired, BatchJob
<1> QED
  BY <1>2 DEF AfterValidityCheck, JobValid

-----------------------------------------------------------------------------
(***************************************************************************)
(* Recorded(s, u): between s and u no job was answered and none was given  *)
(* another deadline; statuses may differ.  Every operator but CreateJob,   *)
(* UpdateProgress and CompleteJob records.                                 *)
(***************************************************************************)
Recorded(s, u) ==
    /\ u.metrics.completed_jobs = s.metrics.completed_jobs
    /\ \A j \in Jobs :
          /\ u.jobs[j].results = s.jobs[j].results
          /\ u.jobs[j].processed_count = s.jobs[j].processed_count
          /\ u.jobs[j].failed_count = s.jobs[j].failed_count
          /\ u.jobs[j].created_at = s.jobs[j].created_at
          /\ u.jobs[j].timeout = s.jobs[j].timeout

\* Recording composes.
LEMMA RecordedTransitive ==
    ASSUME NEW s, NEW u, NEW v, Recorded(s, u), Recorded(u, v)
    PROVE  Recorded(s, v)
BY DEF Recorded

\* Between s and u only job j may have changed.
OnlyJob(s, u, j) == \A k \in Jobs \ {j} : u.jobs[k] = s.jobs[k]

\* u is s with another status for job j, no completion being counted.
StatusWritten(s, u, j, new) ==
    /\ u.jobs = [s.jobs EXCEPT ![j].status = new]
    /\ u.metrics.completed_jobs = s.metrics.completed_jobs

\* A status written into one job leaves everything else of the table alone.
LEMMA StatusWriteRecords ==
    ASSUME NEW s \in ManagerState, NEW j \in Jobs, NEW new, NEW u,
           StatusWritten(s, u, j, new)
    PROVE  Recorded(s, u) /\ OnlyJob(s, u, j) /\ u.jobs[j].status = new
<1>1. s.jobs \in [Jobs -> BatchJob]
  BY DEF ManagerState
<1>2. ASSUME NEW k \in Jobs
      PROVE  u.jobs[k] = IF k = j THEN [s.jobs[k] EXCEPT !.status = new] ELSE s.jobs[k]
  BY <1>1 DEF StatusWritten
<1>3. ASSUME NEW k \in Jobs
      PROVE  LET e == [s.jobs[k] EXCEPT !.status = new]
             IN  /\ e.results = s.jobs[k].results
                 /\ e.processed_count = s.jobs[k].processed_count
                 /\ e.failed_count = s.jobs[k].failed_count
                 /\ e.created_at = s.jobs[k].created_at
                 /\ e.timeout = s.jobs[k].timeout
                 /\ e.status = new
  BY <1>1 DEF BatchJob
<1>4. u.metrics.completed_jobs = s.metrics.completed_jobs
  BY DEF StatusWritten
<1>5. ASSUME NEW k \in Jobs
      PROVE  /\ u.jobs[k].results = s.jobs[k].results
             /\ u.jobs[k].processed_count = s.jobs[k].processed_count
             /\ u.jobs[k].failed_count = s.jobs[k].failed_count
             /\ u.jobs[k].created_at = s.jobs[k].created_at
             /\ u.jobs[k].timeout = s.jobs[k].timeout
  BY <1>2, <1>3
<1>6. Recorded(s, u)
  BY <1>4, <1>5 DEF Recorded
<1>7. OnlyJob(s, u, j) /\ u.jobs[j].status = new
  BY <1>2, <1>3 DEF OnlyJob
<1> QED
  BY <1>6, <1>7

\* Only a completion that is not refused as CANCELLED counts as one.
LEMMA StatusMetricsCompleted ==
    ASSUME NEW m \in ProcessingMetrics, NEW old, NEW new
    PROVE  StatusMetrics(m, old, new).completed_jobs
              = IF new = "completed" /\ old # "cancelled" THEN m.completed_jobs + 1
                                                         ELSE m.completed_jobs
<1>1. ASSUME NEW a, NEW c, NEW f, NEW q
      PROVE  /\ [m EXCEPT !.queue_size = q].completed_jobs = m.completed_jobs
             /\ [m EXCEPT !.active_jobs = a, !.completed_jobs = c].completed_jobs = c
             /\ [m EXCEPT !.active_jobs = a, !.queue_size = q].completed_jobs
                    = m.completed_jobs
             /\ [m EXCEPT !.active_jobs = a, !.failed_jobs = f, !.queue_size = q].completed_jobs
                    = m.completed_jobs
  BY DEF ProcessingMetrics
<1> QED
  BY <1>1 DEF StatusMetrics

\* A status update other than a completion records.
LEMMA UpdateRecords ==
    ASSUME NEW s \in ManagerState, NEW j \in Jobs, NEW new, new # "completed",
           NEW u, u = UpdateJobStatus(s, j, new)
    PROVE  Recorded(s, u) /\ OnlyJob(s, u, j) /\ u.jobs[j].status = new
<1>1. s.metrics \in ProcessingMetrics
  BY DEF ManagerState
<1>2. u.metrics.completed_jobs = s.metrics.completed_jobs
  BY <1>1, StatusMetricsCompleted DEF UpdateJobStatus
<1>3. StatusWritten(s, u, j, new)
  BY <1>2 DEF StatusWritten, UpdateJobStatus
<1> QED
  BY <1>3, StatusWriteRecords

\* The branch of get_job and is_job_valid that expires a job records.
LEMMA MarkExpiredRecords ==
    ASSUME NEW s \in ManagerState, NEW j \in Jobs, NEW u, u = MarkExpired(s, j)
    PROVE  Recorded(s, u) /\ OnlyJob(s, u, j) /\ u.jobs[j].status = "expired"
<1>1. s.metrics \in ProcessingMetrics
  BY DEF ManagerState
<1>2. u.metrics.completed_jobs = s.metrics.completed_jobs
  BY <1>1 DEF MarkExpired, ProcessingMetrics
<1>3. StatusWritten(s, u, j, "expired")
  BY <1>2 DEF StatusWritten, MarkExpired
<1> QED
  BY <1>3, StatusWriteRecords

\* get_job records, and a job past its timeout is EXPIRED when it has been read.
LEMMA GetJobEffect ==
    ASSUME NEW s \in ManagerState, NEW j \in Jobs, NEW n,
           NEW u, u = GetJob(s, j, n)
    PROVE  /\ Recorded(s, u) /\ OnlyJob(s, u, j)
           /\ u.jobs[j].status = IF JobExpired(s.jobs[j], n) THEN "expired"
                                                           ELSE s.jobs[j].status
<1>1. Recorded(s, s) /\ OnlyJob(s, s, j)
  BY DEF Recorded, OnlyJob
<1> QED
  BY <1>1, MarkExpiredRecords DEF GetJob

\* So is a job that is_job_valid has looked at, unless it is CANCELLED.
LEMMA ValidityCheckEffect ==
    ASSUME NEW s \in ManagerState, NEW j \in Jobs, NEW n,
           NEW u, u = AfterValidityCheck(s, j, n)
    PROVE  /\ Recorded(s, u) /\ OnlyJob(s, u, j)
           /\ \/ u.jobs[j].status = s.jobs[j].status
              \/ u.jobs[j].status = "expired" /\ JobExpired(s.jobs[j], n)
<1>1. Recorded(s, s) /\ OnlyJob(s, s, j)
  BY DEF Recorded, OnlyJob
<1> QED
  BY <1>1, MarkExpiredRecords DEF AfterValidityCheck

\* cancel_job records.
LEMMA CancelledEffect ==
    ASSUME NEW s \in ManagerState, NEW j \in Jobs, NEW u, u = CancelledJob(s, j)
    PROVE  Recorded(s, u) /\ OnlyJob(s, u, j) /\ u.jobs[j].status = "cancelled"
<1>1. s.metrics \in ProcessingMetrics
  BY DEF ManagerState
<1>2. u.metrics.completed_jobs = s.metrics.completed_jobs
  BY <1>1 DEF CancelledJob, ProcessingMetrics
<1>3. StatusWritten(s, u, j, "cancelled")
  BY <1>2 DEF StatusWritten, CancelledJob
<1> QED
  BY <1>3, StatusWriteRecords

\* A round of the cleanup records and expires exactly the overdue jobs.
LEMMA CleanupEffect ==
    ASSUME NEW s \in ManagerState, NEW n, NEW u, u = CleanupExpired(s, n)
    PROVE  /\ Recorded(s, u)
           /\ \A k \in Jobs : u.jobs[k].status = IF k \in Overdue(s, n) THEN "expired"
                                                                   ELSE s.jobs[k].status
<1>1. s.jobs \in [Jobs -> BatchJob] /\ s.metrics \in ProcessingMetrics
  BY DEF ManagerState
<1>2. u.metrics.completed_jobs = s.metrics.completed_jobs
  BY <1>1 DEF CleanupExpired, ProcessingMetrics
<1>3. ASSUME NEW k \in Jobs
      PROVE  u.jobs[k] = IF k \in Overdue(s, n) THEN [s.jobs[k] EXCEPT !.status = "expired"]
                                                ELSE s.jobs[k]
  BY DEF CleanupExpired
<1>4. ASSUME NEW k \in Jobs
      PROVE  LET e == [s.jobs[k] EXCEPT !.status = "expired"]
             IN  /\ e.results = s.jobs[k].results
                 /\ e.processed_count = s.jobs[k].processed_count
                 /\ e.failed_count = s.jobs[k].failed_count
                 /\ e.created_at = s.jobs[k].created_at
                 /\ e.timeout = s.jobs[k].timeout
                 /\ e.status = "expired"
  BY <1>1 DEF BatchJob
<1> QED
  BY <1>2, <1>3, <1>4 DEF Recorded

\* v is s with job j reported to be PROCESSING.
Progressed(s, v, j) ==
    /\ OnlyJob(s, v, j)
    /\ v.metrics.completed_jobs = s.metrics.completed_jobs
    /\ v.jobs[j].status = "processing"
    /\ v.jobs[j].results = s.jobs[j].results
    /\ v.jobs[j].created_at = s.jobs[j].created_at
    /\ v.jobs[j].timeout = s.jobs[j].timeout

\* v is s with job j COMPLETED with the results out; it is counted unless the job
\* was CANCELLED.
Answers(s, v, j, out) ==
    /\ OnlyJob(s, v, j)
    /\ v.metrics.completed_jobs = IF s.jobs[j].status # "cancelled"
                                  THEN s.metrics.completed_jobs + 1
                                  ELSE s.metrics.completed_jobs
    /\ v.jobs[j].status = "completed"
    /\ v.jobs[j].results = out
    /\ v.jobs[j].processed_count = Len(out)
    /\ v.jobs[j].failed_count = Errors(out)
    /\ v.jobs[j].created_at = s.jobs[j].created_at
    /\ v.jobs[j].timeout = s.jobs[j].timeout

\* The progress report after a batch writes the status and the two counts of its
\* job; the results stay as they are.
LEMMA ProgressEffect ==
    ASSUME NEW s \in ManagerState, NEW j \in Jobs, NEW out \in Seq(Outcome)
    PROVE  Progressed(s, UpdateProgress(s, j, out), j)
<1> DEFINE u == UpdateJobStatus(s, j, "processing")
<1> DEFINE w == [u EXCEPT !.jobs[j].processed_count = Len(out),
                          !.jobs[j].failed_count = Errors(out)]
<1>1. u \in ManagerState
  BY UpdateJobStatusType DEF BatchJobStatus
<1>2. Recorded(s, u) /\ OnlyJob(s, u, j) /\ u.jobs[j].status = "processing"
  BY UpdateRecords
<1>0. UpdateProgress(s, j, out) = w
  BY DEF UpdateProgress
<1> HIDE DEF u
<1>3. u.jobs \in [Jobs -> BatchJob]
  BY <1>1 DEF ManagerState
<1>4. w.metrics = u.metrics
  BY <1>1 DEF ManagerState
<1>5. ASSUME NEW k \in Jobs
      PROVE  w.jobs[k] = IF k = j THEN [u.jobs[k] EXCEPT !.processed_count = Len(out),
                                                         !.failed_count = Errors(out)]
                         ELSE u.jobs[k]
  BY <1>1, <1>3 DEF ManagerState, BatchJob
<1> HIDE DEF w
<1>6. /\ w.jobs[j].status = u.jobs[j].status
      /\ w.jobs[j].results = u.jobs[j].results
      /\ w.jobs[j].created_at = u.jobs[j].created_at
      /\ w.jobs[j].timeout = u.jobs[j].timeout
  BY <1>3, <1>5 DEF BatchJob
<1> QED
  BY <1>0, <1>2, <1>4, <1>5, <1>6 DEF Recorded, OnlyJob, Progressed

\* Completion answers its job with the outcomes of all batches and reports them in
\* its counts.
LEMMA CompleteEffect ==
    ASSUME NEW s \in ManagerState, NEW j \in Jobs, NEW out \in Seq(Outcome)
    PROVE  Answers(s, CompleteJob(s, j, out), j, out)
<1> DEFINE u == UpdateJobStatus(s, j, "completed")
<1>0. s.jobs \in [Jobs -> BatchJob] /\ s.metrics \in ProcessingMetrics
  BY DEF ManagerState
<1> DEFINE w == [u EXCEPT !.jobs[j].results = out, !.jobs[j].processed_count = Len(out),
                          !.jobs[j].failed_count = Errors(out),
                          !.metrics.texts_processed = @ + Len(out)]
<1>1. /\ u \in ManagerState
      /\ u.jobs = [s.jobs EXCEPT ![j].status = "completed"]
  BY UpdateJobStatusType DEF BatchJobStatus, UpdateJobStatus
<1>2. u.metrics.completed_jobs = IF s.jobs[j].status # "cancelled"
                                 THEN s.metrics.completed_jobs + 1
                                 ELSE s.metrics.completed_jobs
  BY <1>0, StatusMetricsCompleted DEF UpdateJobStatus
<1>a. CompleteJob(s, j, out) = w
  BY DEF CompleteJob
<1> HIDE DEF u
<1>3. u.jobs \in [Jobs -> BatchJob] /\ u.metrics \in ProcessingMetrics
  BY <1>1 DEF ManagerState
<1>4. w.metrics = [u.metrics EXCEPT !.texts_processed = @ + Len(out)]
  BY <1>1 DEF ManagerState
<1>5. w.metrics.completed_jobs = u.metrics.completed_jobs
  BY <1>3, <1>4 DEF ProcessingMetrics
<1>6. ASSUME NEW k \in Jobs
      PROVE  w.jobs[k] = IF k = j THEN [u.jobs[k] EXCEPT !.results = out,
                                                         !.processed_count = Len(out),
                                                         !.failed_count = Errors(out)]
                         ELSE u.jobs[k]
  BY <1>1, <1>3 DEF ManagerState, BatchJob
<1> HIDE DEF w
<1>7. /\ w.jobs[j].status = u.jobs[j].status
      /\ w.jobs[j].results = out
      /\ w.jobs[j].processed_count = Len(out)
      /\ w.jobs[j].failed_count = Errors(out)
      /\ w.jobs[j].created_at = u.jobs[j].created_at
      /\ w.jobs[j].timeout = u.jobs[j].timeout
  BY <1>3, <1>6 DEF BatchJob
<1>8. /\ u.jobs[j].status = "completed"
      /\ u.jobs[j].created_at = s.jobs[j].created_at
      /\ u.jobs[j].timeout = s.jobs[j].timeout
      /\ \A k \in Jobs \ {j} : u.jobs[k] = s.jobs[k]
  BY <1>0, <1>1 DEF BatchJob
<1> QED
  BY <1>a, <1>2, <1>5, <1>6, <1>7, <1>8 DEF OnlyJob, Answers

-----------------------------------------------------------------------------
(***************************************************************************)
(* Follows(s, u, j): between s and u only job j changed, and the counters  *)
(* moved with its status.  That is what the counters are meant to do; the  *)
(* operators do it only for the status changes of a job that is neither    *)
(* late nor cancelled while it is processed.                               *)
(***************************************************************************)
Follows(s, u, j) ==
    LET old == s.jobs[j].status
        new == u.jobs[j].status
    IN  /\ OnlyJob(s, u, j)
        /\ u.metrics.total_jobs
              = s.metrics.total_jobs + One(old = "absent") - One(new = "absent")
        /\ u.metrics.active_jobs
              = s.metrics.active_jobs - One(old \in Live) + One(new \in Live)
        /\ u.metrics.completed_jobs
              = s.metrics.completed_jobs - One(old = "completed") + One(new = "completed")
        /\ u.metrics.failed_jobs
              = s.metrics.failed_jobs - One(old = "failed") + One(new = "failed")

\* Following composes.
LEMMA FollowsTransitive ==
    ASSUME NEW s \in ManagerState, NEW u \in ManagerState, NEW v \in ManagerState, NEW j \in Jobs,
           Follows(s, u, j), Follows(u, v, j)
    PROVE  Follows(s, v, j)
<1>1. /\ s.metrics \in ProcessingMetrics /\ u.metrics \in ProcessingMetrics
      /\ v.metrics \in ProcessingMetrics
  BY DEF ManagerState
<1>2. OnlyJob(s, v, j)
  BY DEF Follows, OnlyJob
<1> QED
  BY <1>1, <1>2, MetricsFields DEF Follows, One

\* A call that changes nothing follows.
LEMMA FollowsItself ==
    ASSUME NEW s \in ManagerState, NEW j \in Jobs
    PROVE  Follows(s, s, j)
<1>1. s.metrics \in ProcessingMetrics
  BY DEF ManagerState
<1> QED
  BY <1>1, MetricsFields DEF Follows, OnlyJob, One

\* create_job follows.
LEMMA CreateFollows ==
    ASSUME NEW s \in ManagerState, NEW j \in Jobs, s.jobs[j].status = "absent",
           NEW p \in Priorities, NEW b \in Nat, NEW t \in Nat, NEW n \in Nat
    PROVE  Follows(s, CreateJob(s, j, p, b, t, n), j)
<1> DEFINE u == CreateJob(s, j, p, b, t, n)
<1>1. s.metrics \in ProcessingMetrics /\ s.jobs \in [Jobs -> BatchJob]
  BY DEF ManagerState
<1>2. /\ u.metrics.total_jobs = s.metrics.total_jobs + 1
      /\ u.metrics.active_jobs = s.metrics.active_jobs + 1
      /\ u.metrics.completed_jobs = s.metrics.completed_jobs
      /\ u.metrics.failed_jobs = s.metrics.failed_jobs
  BY <1>1 DEF CreateJob, ProcessingMetrics
<1>3. u.jobs[j].status = "pending" /\ \A k \in Jobs \ {j} : u.jobs[k] = s.jobs[k]
  BY <1>1 DEF CreateJob
<1> HIDE DEF u
<1>4. Follows(s, u, j)
  BY <1>1, <1>2, <1>3, MetricsFields DEF Follows, OnlyJob, One, Live
<1> QED
  BY <1>4 DEF u

\* What the branches of update_job_status do to the counters.
LEMMA StatusMetricsMoves ==
    ASSUME NEW m \in ProcessingMetrics, NEW old, NEW new, NEW n, n = StatusMetrics(m, old, new)
    PROVE  /\ n.total_jobs = m.total_jobs
           /\ old = "pending" /\ new = "processing" =>
                 /\ n.active_jobs = m.active_jobs /\ n.completed_jobs = m.completed_jobs
                 /\ n.failed_jobs = m.failed_jobs
           /\ old = "processing" /\ new = "processing" => n = m
           /\ old = "processing" /\ new = "completed" =>
                 /\ n.active_jobs = m.active_jobs - 1
                 /\ n.completed_jobs = m.completed_jobs + 1
                 /\ n.failed_jobs = m.failed_jobs
           /\ old = "pending" /\ new = "failed" =>
                 /\ n.active_jobs = m.active_jobs - 1
                 /\ n.failed_jobs = m.failed_jobs + 1
                 /\ n.completed_jobs = m.completed_jobs
<1>1. n.total_jobs = m.total_jobs
  BY StatusMetricsTotal
<1>2. CASE old = "pending" /\ new = "processing"
  <2>1. n = [m EXCEPT !.queue_size = @ - 1]
    BY <1>2 DEF StatusMetrics
  <2> QED
    BY <1>1, <1>2, <2>1 DEF ProcessingMetrics
<1>3. CASE old = "processing" /\ new = "processing"
  BY <1>1, <1>3 DEF StatusMetrics
<1>4. CASE old = "processing" /\ new = "completed"
  <2>1. n = [m EXCEPT !.active_jobs = @ - 1, !.completed_jobs = @ + 1]
    BY <1>4 DEF StatusMetrics
  <2> QED
    BY <1>1, <1>4, <2>1 DEF ProcessingMetrics
<1>5. CASE old = "pending" /\ new = "failed"
  <2>1. n = [m EXCEPT !.active_jobs = @ - 1, !.failed_jobs = @ + 1,
                      !.queue_size = @ - One(old = "pending")]
    BY <1>5 DEF StatusMetrics
  <2> QED
    BY <1>1, <1>5, <2>1 DEF ProcessingMetrics
<1> QED
  BY <1>1, <1>2, <1>3, <1>4, <1>5

\* update_job_status follows on the ways a job takes when nothing goes wrong, and
\* when a full queue refuses it.
LEMMA UpdateFollows ==
    ASSUME NEW s \in ManagerState, NEW j \in Jobs, NEW new,
           \/ s.jobs[j].status = "pending" /\ new \in {"processing", "failed"}
           \/ s.jobs[j].status = "processing" /\ new \in {"processing", "completed"}
    PROVE  Follows(s, UpdateJobStatus(s, j, new), j)
<1> DEFINE u == UpdateJobStatus(s, j, new)
           old == s.jobs[j].status
<1>1. s.metrics \in ProcessingMetrics
  BY DEF ManagerState
<1>2. u.jobs[j].status = new /\ \A k \in Jobs \ {j} : u.jobs[k] = s.jobs[k]
  BY UpdateJobStatusEffect
<1>3. u.metrics = StatusMetrics(s.metrics, old, new)
  BY DEF UpdateJobStatus
<1>4. /\ s.metrics.total_jobs \in Nat /\ s.metrics.active_jobs \in Int
      /\ s.metrics.completed_jobs \in Nat /\ s.metrics.failed_jobs \in Nat
  BY <1>1, MetricsFields
<1> HIDE DEF u
<1>5. u.metrics.total_jobs = s.metrics.total_jobs
  BY <1>1, <1>3, StatusMetricsMoves
<1>6. CASE old = "pending" /\ new = "processing"
  BY <1>1, <1>2, <1>3, <1>4, <1>5, <1>6, StatusMetricsMoves DEF Follows, OnlyJob, One, Live, u
<1>7. CASE old = "pending" /\ new = "failed"
  BY <1>1, <1>2, <1>3, <1>4, <1>5, <1>7, StatusMetricsMoves DEF Follows, OnlyJob, One, Live, u
<1>8. CASE old = "processing" /\ new = "processing"
  BY <1>1, <1>2, <1>3, <1>4, <1>5, <1>8, StatusMetricsMoves DEF Follows, OnlyJob, One, Live, u
<1>9. CASE old = "processing" /\ new = "completed"
  BY <1>1, <1>2, <1>3, <1>4, <1>5, <1>9, StatusMetricsMoves DEF Follows, OnlyJob, One, Live, u
<1> QED
  BY <1>6, <1>7, <1>8, <1>9

\* u and v differ in what they record of job j besides its status, and in
\* texts_processed.
SameCounters(u, v, j) ==
    /\ OnlyJob(u, v, j) /\ v.jobs[j].status = u.jobs[j].status
    /\ v.metrics.total_jobs = u.metrics.total_jobs
    /\ v.metrics.active_jobs = u.metrics.active_jobs
    /\ v.metrics.completed_jobs = u.metrics.completed_jobs
    /\ v.metrics.failed_jobs = u.metrics.failed_jobs

LEMMA SameCountersFollow ==
    ASSUME NEW s, NEW u, NEW v, NEW j \in Jobs, Follows(s, u, j), SameCounters(u, v, j)
    PROVE  Follows(s, v, j)
BY DEF Follows, SameCounters, OnlyJob

\* Progress of a job that is PROCESSING follows.
LEMMA ProgressFollows ==
    ASSUME NEW s \in ManagerState, NEW j \in Jobs, NEW out \in Seq(Outcome),
           s.jobs[j].status = "processing"
    PROVE  Follows(s, UpdateProgress(s, j, out), j)
<1> DEFINE u == UpdateJobStatus(s, j, "processing")
<1> DEFINE v == [u EXCEPT !.jobs[j].processed_count = Len(out),
                          !.jobs[j].failed_count = Errors(out)]
<1>1. u \in ManagerState
  BY UpdateJobStatusType DEF BatchJobStatus
<1>2. Follows(s, u, j)
  BY UpdateFollows
<1>3. UpdateProgress(s, j, out) = v
  BY DEF UpdateProgress
<1> HIDE DEF u
<1>4. u.jobs \in [Jobs -> BatchJob]
  BY <1>1 DEF ManagerState
<1>5. v.metrics = u.metrics
  BY <1>1 DEF ManagerState
<1>6. ASSUME NEW k \in Jobs
      PROVE  v.jobs[k] = IF k = j THEN [u.jobs[k] EXCEPT !.processed_count = Len(out),
                                                         !.failed_count = Errors(out)]
                         ELSE u.jobs[k]
  BY <1>1, <1>4 DEF ManagerState, BatchJob
<1> HIDE DEF v
<1>7. v.jobs[j].status = u.jobs[j].status
  BY <1>4, <1>6 DEF BatchJob
<1>8. SameCounters(u, v, j)
  BY <1>5, <1>6, <1>7 DEF SameCounters, OnlyJob
<1> QED
  BY <1>2, <1>3, <1>8, SameCountersFollow

\* Completion of a job that is PROCESSING follows.
LEMMA CompleteFollows ==
    ASSUME NEW s \in ManagerState, NEW j \in Jobs, NEW out \in Seq(Outcome),
           s.jobs[j].status = "processing"
    PROVE  Follows(s, CompleteJob(s, j, out), j)
<1> DEFINE u == UpdateJobStatus(s, j, "completed")
<1> DEFINE v == [u EXCEPT !.jobs[j].results = out, !.jobs[j].processed_count = Len(out),
                          !.jobs[j].failed_count = Errors(out),
                          !.metrics.texts_processed = @ + Len(out)]
<1>1. u \in ManagerState
  BY UpdateJobStatusType DEF BatchJobStatus
<1>2. Follows(s, u, j)
  BY UpdateFollows
<1>3. CompleteJob(s, j, out) = v
  BY DEF CompleteJob
<1> HIDE DEF u
<1>4. u.jobs \in [Jobs -> BatchJob] /\ u.metrics \in ProcessingMetrics
  BY <1>1 DEF ManagerState
<1>5. v.metrics = [u.metrics EXCEPT !.texts_processed = @ + Len(out)]
  BY <1>1 DEF ManagerState
<1>6. ASSUME NEW k \in Jobs
      PROVE  v.jobs[k] = IF k = j THEN [u.jobs[k] EXCEPT !.results = out,
                                                         !.processed_count = Len(out),
                                                         !.failed_count = Errors(out)]
                         ELSE u.jobs[k]
  BY <1>1, <1>4 DEF ManagerState, BatchJob
<1> HIDE DEF v
<1>7. v.jobs[j].status = u.jobs[j].status
  BY <1>4, <1>6 DEF BatchJob
<1>8. /\ v.metrics.total_jobs = u.metrics.total_jobs
      /\ v.metrics.active_jobs = u.metrics.active_jobs
      /\ v.metrics.completed_jobs = u.metrics.completed_jobs
      /\ v.metrics.failed_jobs = u.metrics.failed_jobs
  BY <1>4, <1>5 DEF ProcessingMetrics
<1>9. SameCounters(u, v, j)
  BY <1>6, <1>7, <1>8 DEF SameCounters, OnlyJob
<1> QED
  BY <1>2, <1>3, <1>9, SameCountersFollow

\* cancel_job follows.
LEMMA CancelFollows ==
    ASSUME NEW s \in ManagerState, NEW j \in Jobs, Cancellable(s, j)
    PROVE  Follows(s, CancelledJob(s, j), j)
<1> DEFINE u == CancelledJob(s, j)
<1>1. s.metrics \in ProcessingMetrics
  BY DEF ManagerState
<1>2. OnlyJob(s, u, j) /\ u.jobs[j].status = "cancelled"
  BY CancelledEffect
<1>3. /\ u.metrics.total_jobs = s.metrics.total_jobs
      /\ u.metrics.active_jobs = s.metrics.active_jobs - 1
      /\ u.metrics.completed_jobs = s.metrics.completed_jobs
      /\ u.metrics.failed_jobs = s.metrics.failed_jobs
  BY <1>1 DEF CancelledJob, ProcessingMetrics
<1> HIDE DEF u
<1>4. Follows(s, u, j)
  BY <1>1, <1>2, <1>3, MetricsFields DEF Follows, One, Live, Cancellable
<1> QED
  BY <1>4 DEF u
=============================================================================
