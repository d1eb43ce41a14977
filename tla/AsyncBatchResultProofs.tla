------------------------- MODULE AsyncBatchResultProofs -------------------------
(***************************************************************************)
(* Theorems about what AsyncBatch answers, for all values of its           *)
(* constants: results are complete and published once, the cache never     *)
(* holds anything else, and a completion is counted once.  Then, for a     *)
(* processor that does not suspend, a job marked PROCESSING is being       *)
(* processed, and the service implements JobLifecycle.                     *)
(***************************************************************************)
EXTENDS AsyncBatchProofs

-----------------------------------------------------------------------------
(***************************************************************************)
(* What a step may do to the jobs.  Every step of the service is of one of *)
(* six kinds; the proofs below go through these instead of the actions.    *)
(***************************************************************************)

\* The deadline of job j has come.
Due(j) == now - jobs[j].created_at >= jobs[j].timeout

\* Jobs whose deadline has come may expire.
Reads ==
    /\ Kept(mgr, mgr') /\ Recorded(mgr, mgr')
    /\ \A j \in Jobs : jobs'[j].status # jobs[j].status =>
          jobs'[j].status = "expired" /\ Known(j) /\ Due(j)
    /\ LoopFree \/ UNCHANGED <<jobs, metrics, workers>>

\* Job j is cancelled.
Cancels(j) ==
    /\ Kept(mgr, mgr') /\ Recorded(mgr, mgr') /\ OnlyJob(mgr, mgr', j)
    /\ jobs[j].status \in Live /\ jobs'[j].status = "cancelled"
    /\ LoopFree

\* Job j comes in with priority p and is queued or refused.
Creates(j, p) ==
    /\ ~Known(j) /\ OnlyJob(mgr, mgr', j)
    /\ jobs'[j].results = NoResults /\ jobs'[j].batches >= 1
    /\ jobs'[j].created_at = now /\ jobs'[j].timeout > 0
    /\ metrics'.completed_jobs = metrics.completed_jobs
    /\ \/ jobs'[j].status = "pending" /\ queues' = [queues EXCEPT ![p] = Append(@, j)]
       \/ jobs'[j].status = "failed" /\ UNCHANGED queues
    /\ LoopFree

\* The worker of p does something to its job and to no other.
AtWork(p) ==
    LET j == workers[p].job
    IN  /\ Kept(mgr, mgr') /\ OnlyJob(mgr, mgr', j)
        /\ jobs'[j].created_at = jobs[j].created_at /\ jobs'[j].timeout = jobs[j].timeout
        /\ UNCHANGED queues
        /\ \A q \in Priorities \ {p} : workers'[q] = workers[q]

\* It begins the job or goes on to another batch, unless the time is up.
Works(p) ==
    LET j == workers[p].job
        w == workers'[p]
    IN  /\ AtWork(p)
        /\ metrics'.completed_jobs = metrics.completed_jobs
        /\ jobs'[j].results = jobs[j].results
        /\ \/ workers[p].pc = "got" /\ JobValid(mgr, j, now) /\ LoopFree
           \/ workers[p].pc = "predict"
        /\ \/ w.pc \in {"off", "wait"} /\ jobs'[j].status = "expired" /\ Due(j)
           \/ /\ w.pc = "predict" /\ w.job = j /\ jobs'[j].status = "processing"
              /\ \/ workers[p].pc = "got" /\ w.out = <<>>
                 \/ /\ workers[p].pc = "predict" /\ ~LastBatch(p)
                    /\ \E outcome \in Outcome : w.out = Append(workers[p].out, outcome)

\* It answers the job.
Finishes(p) ==
    LET j == workers[p].job
    IN  /\ AtWork(p)
        /\ workers[p].pc = "predict" /\ workers'[p].pc \in {"off", "wait"}
        /\ LastBatch(p)
        /\ \E outcome \in Outcome : jobs'[j].results = Append(workers[p].out, outcome)
        /\ jobs'[j].processed_count = Len(jobs'[j].results)
        /\ jobs'[j].failed_count = Errors(jobs'[j].results)
        /\ metrics'.completed_jobs = metrics.completed_jobs + 1
        /\ \/ /\ jobs'[j].status = "completed"
              /\ cache' \in CacheResult(cache, j, jobs'[j].results, now)
           \/ jobs'[j].status = "expired" /\ JobExpired(jobs[j], now) /\ UNCHANGED cache

\* No worker takes anything on.
HandsKept ==
    \A p \in Priorities : workers'[p].pc \in {"got", "predict"} =>
        /\ workers'[p].pc = workers[p].pc /\ workers'[p].job = workers[p].job
        /\ workers'[p].out = workers[p].out

\* A cache may lose an entry that is not fresh any more.
CacheKept == UNCHANGED cache \/ \E j \in Jobs : cache' = AfterLookup(cache, j, now)

\* The cases of a step.
Effect ==
    \/ Reads /\ HandsKept /\ CacheKept /\ UNCHANGED queues
    \/ \E j \in Jobs : Cancels(j) /\ UNCHANGED <<queues, workers, cache>>
    \/ \E j \in Jobs, p \in Priorities : Creates(j, p) /\ UNCHANGED <<workers, cache>>
    \/ \E p \in Priorities : TakeJob(p)
    \/ \E p \in Priorities : Works(p) /\ UNCHANGED cache
    \/ \E p \in Priorities : Finishes(p)

\* Times of jobs and of the clock are natural numbers.
LEMMA TimesNat ==
    ASSUME TypeOK
    PROVE  /\ now \in Nat
           /\ \A j \in Jobs : jobs[j].created_at \in Nat /\ jobs[j].timeout \in Nat
BY DEF TypeOK, BatchJob

\* Past its timeout, a job's deadline has come.
LEMMA ExpiredIsDue ==
    ASSUME TypeOK, NEW j \in Jobs, JobExpired(jobs[j], now)
    PROVE  Due(j)
BY TimesNat DEF JobExpired, Due

\* The checkpoint either expires the job, whose deadline has come, and frees the
\* worker, or sends the worker into the next batch.
LEMMA CheckpointEffect ==
    ASSUME TypeInv, NEW p \in Priorities, workers[p].job \in Jobs,
           NEW s \in ManagerState, NEW out \in Seq(Outcome), Checkpoint(s, p, out)
    PROVE  LET j == workers[p].job
           IN  /\ Recorded(s, mgr') /\ OnlyJob(s, mgr', j)
               /\ \A q \in Priorities \ {p} : workers'[q] = workers[q]
               /\ \/ /\ workers'[p].pc \in {"off", "wait"}
                     /\ jobs'[j].status = "expired" /\ TimedOut(s.jobs[j])
                  \/ /\ workers'[p] = [pc |-> "predict", job |-> j, out |-> out,
                                       cancel |-> FALSE]
                     /\ jobs'[j].status = s.jobs[j].status
<1> DEFINE j == workers[p].job
           seen == GetJob(s, j, now)
<1>1. now \in Nat /\ workers \in [Priorities -> Worker]
  BY DEF TypeInv, TypeOK
<1>2. seen \in ManagerState
  BY <1>1, GetJobType
<1>3. /\ Recorded(s, seen) /\ OnlyJob(s, seen, j)
      /\ seen.jobs[j].status = IF JobExpired(s.jobs[j], now) THEN "expired"
                                                             ELSE s.jobs[j].status
  BY GetJobEffect
<1>4. s.jobs[j].created_at \in Nat /\ s.jobs[j].timeout \in Nat
  BY DEF ManagerState, BatchJob
<1>5. CASE TimedOut(s.jobs[j])
  <2> DEFINE last == UpdateJobStatus(seen, j, "expired")
  <2>1. last \in ManagerState
    BY <1>2, UpdateJobStatusType DEF BatchJobStatus
  <2>2. Recorded(seen, last) /\ OnlyJob(seen, last, j) /\ last.jobs[j].status = "expired"
    BY <1>2, UpdateRecords
  <2>3. Commit(last) /\ Park(p)
    BY <1>5 DEF Checkpoint
  <2> HIDE DEF last, seen, j
  <2>4. mgr' = last /\ jobs' = last.jobs
    BY <2>1, <2>3, CommitMgr DEF Commit
  <2>5. Recorded(s, last) /\ OnlyJob(s, last, j)
    BY <1>3, <2>2, RecordedTransitive DEF OnlyJob
  <2>6. workers'[p].pc \in {"off", "wait"} /\ \A q \in Priorities \ {p} : workers'[q] = workers[q]
    BY <1>1, <2>3, ParkFrees
  <2> QED
    BY <1>5, <2>2, <2>4, <2>5, <2>6 DEF j
<1>6. CASE ~TimedOut(s.jobs[j])
  <2>1. /\ Commit(seen)
        /\ workers' = [workers EXCEPT ![p] = [pc |-> "predict", job |-> j,
                                              out |-> out, cancel |-> FALSE]]
    BY <1>6 DEF Checkpoint
  <2>2. ~JobExpired(s.jobs[j], now)
    BY <1>1, <1>4, <1>6 DEF TimedOut, JobExpired
  <2>3. workers'[p] = [pc |-> "predict", job |-> j, out |-> out, cancel |-> FALSE]
    BY <1>1, <2>1
  <2>4. \A q \in Priorities \ {p} : workers'[q] = workers[q]
    BY <1>1, <2>1
  <2> HIDE DEF seen, j
  <2>5. mgr' = seen /\ jobs' = seen.jobs
    BY <1>2, <2>1, CommitMgr DEF Commit
  <2> QED
    BY <1>3, <2>2, <2>3, <2>4, <2>5 DEF j
<1> QED
  BY <1>5, <1>6

\* A call that at most expires job j, when that is past its timeout, is a reading.
LEMMA ReadsOfStatus ==
    ASSUME TypeInv, NEW j \in Jobs, Known(j), LoopFree,
           Kept(mgr, mgr'), Recorded(mgr, mgr'), OnlyJob(mgr, mgr', j),
           \/ jobs'[j].status = jobs[j].status
           \/ jobs'[j].status = "expired" /\ JobExpired(jobs[j], now)
    PROVE  Reads
<1>1. mgr'.jobs = jobs' /\ mgr.jobs = jobs
  BY DEF mgr
<1>2. ASSUME NEW k \in Jobs, jobs'[k].status # jobs[k].status
      PROVE  jobs'[k].status = "expired" /\ Known(k) /\ Due(k)
  <2>1. k = j
    BY <1>1, <1>2 DEF OnlyJob
  <2>2. jobs'[k].status = "expired" /\ JobExpired(jobs[k], now)
    BY <1>2, <2>1
  <2> QED
    BY <2>1, <2>2, ExpiredIsDue DEF TypeInv
<1> QED
  BY <1>2 DEF Reads

\* Every step is of one of the six kinds.
LEMMA StepEffect ==
    ASSUME OrderInv, [Next]_vars
    PROVE  Effect
<1>a. /\ mgr \in ManagerState /\ workers \in [Priorities -> Worker] /\ now \in Nat
      /\ mgr.jobs = jobs /\ mgr.metrics = metrics /\ mgr'.jobs = jobs' /\ mgr'.metrics = metrics'
      /\ TypeInv /\ Tracked /\ QuietWhenStopped
      /\ jobs \in [Jobs -> BatchJob]
  BY MgrType DEF OrderInv, TypeInv, TypeOK, mgr
<1>b. Kept(mgr, mgr) /\ Recorded(mgr, mgr)
  BY DEF Kept, Recorded
<1>c. ASSUME NEW p \in Priorities, workers[p].pc \in {"got", "predict"}
      PROVE  workers[p].job \in Jobs /\ mgr.jobs[workers[p].job].status # "absent"
  BY <1>a, <1>c DEF TypeInv, HandsFull, Tracked, Holds, Known
<1>d. UNCHANGED workers => HandsKept
  BY DEF HandsKept
<1>1. ASSUME NEW j \in Jobs, NEW p \in Priorities, NEW b \in 1..MaxBatches,
             NEW t \in Timeouts, SubmitBatchJob(j, p, b, t) \/ SubmitRejected(j, p, b, t)
      PROVE  Creates(j, p) /\ UNCHANGED <<workers, cache>>
  <2> DEFINE new == Created(j, p, b, t)
             failed == UpdateJobStatus(new, j, "failed")
  <2>1. b \in Nat /\ b >= 1 /\ t \in Nat /\ t > 0
    BY AsyncBatchAssumption
  <2>2. new \in ManagerState
    BY <1>a, <2>1, CreateJobType DEF Created
  <2>3. /\ new.jobs[j].status = "pending" /\ new.jobs[j].batches = b
        /\ new.jobs[j].timeout = t /\ new.jobs[j].created_at = now
        /\ new.jobs[j].results = NoResults
        /\ new.metrics.completed_jobs = metrics.completed_jobs
        /\ \A k \in Jobs \ {j} : new.jobs[k] = jobs[k]
    BY <1>a, <2>1, CreateJobEffect DEF Created
  <2>4. failed \in ManagerState
    BY <2>2, UpdateJobStatusType DEF BatchJobStatus
  <2>5. Recorded(new, failed) /\ OnlyJob(new, failed, j) /\ failed.jobs[j].status = "failed"
    BY <2>2, UpdateRecords
  <2>6. Kept(new, failed)
    BY <2>2, <2>3, UpdateKeeps DEF BatchJobStatus
  <2>7. /\ LoopFree /\ ~Known(j) /\ UNCHANGED <<workers, cache>>
        /\ \/ Commit(new) /\ queues' = [queues EXCEPT ![p] = Append(@, j)]
           \/ Commit(failed) /\ UNCHANGED queues
    BY <1>1 DEF SubmitBatchJob, SubmitRejected, Known
  <2> HIDE DEF new, failed
  <2>8. CASE Commit(new) /\ queues' = [queues EXCEPT ![p] = Append(@, j)]
    <3>1. mgr' = new
      BY <2>2, <2>8, CommitMgr
    <3> QED
      BY <1>a, <2>1, <2>3, <2>7, <2>8, <3>1 DEF Creates, OnlyJob
  <2>9. CASE Commit(failed) /\ UNCHANGED queues
    <3>1. mgr' = failed
      BY <2>4, <2>9, CommitMgr
    <3>2. /\ failed.jobs[j].batches = b /\ failed.jobs[j].timeout = t
          /\ failed.jobs[j].created_at = now /\ failed.jobs[j].results = NoResults
          /\ failed.metrics.completed_jobs = metrics.completed_jobs
          /\ \A k \in Jobs \ {j} : failed.jobs[k] = jobs[k]
      BY <2>3, <2>5, <2>6 DEF Recorded, Kept, OnlyJob
    <3> QED
      BY <1>a, <2>1, <2>5, <2>7, <2>9, <3>1, <3>2 DEF Creates, OnlyJob
  <2> QED
    BY <2>7, <2>8, <2>9
<1>2. ASSUME NEW j \in Jobs, GetJobStatus(j) \/ GetJobResults(j)
      PROVE  Reads /\ HandsKept /\ CacheKept /\ UNCHANGED queues
  <2> DEFINE read == GetJob(mgr, j, now)
  <2>1. /\ Commit(read) /\ UNCHANGED <<queues, workers>> /\ LoopFree
        /\ mgr.jobs[j].status # "absent" /\ Known(j) /\ CacheKept
    BY <1>2, <1>a DEF GetJobStatus, GetJobResults, CacheKept, Known
  <2>2. read \in ManagerState /\ Kept(mgr, read)
    BY <1>a, <2>1, GetJobType, ReadingKeeps
  <2>3. /\ Recorded(mgr, read) /\ OnlyJob(mgr, read, j)
        /\ read.jobs[j].status = IF JobExpired(jobs[j], now) THEN "expired"
                                                             ELSE jobs[j].status
    BY <1>a, GetJobEffect
  <2> HIDE DEF read
  <2>4. mgr' = read
    BY <2>1, <2>2, CommitMgr
  <2>5. Reads
    <3>1. /\ Kept(mgr, mgr') /\ Recorded(mgr, mgr') /\ OnlyJob(mgr, mgr', j)
          /\ \/ jobs'[j].status = jobs[j].status
             \/ jobs'[j].status = "expired" /\ JobExpired(jobs[j], now)
      BY <1>a, <2>2, <2>3, <2>4
    <3> QED
      BY <1>a, <2>1, <3>1, ReadsOfStatus
  <2> QED
    BY <1>d, <2>1, <2>5
<1>3. ASSUME NEW j \in Jobs, CancelJob(j)
      PROVE  Cancels(j) /\ UNCHANGED <<queues, workers, cache>>
  <2> DEFINE gone == CancelledJob(mgr, j)
  <2>1. /\ LoopFree /\ Cancellable(mgr, j) /\ Commit(gone)
        /\ UNCHANGED <<queues, workers, cache>>
    BY <1>3 DEF CancelJob
  <2>2. gone \in ManagerState /\ Kept(mgr, gone)
    BY <1>a, <2>1, CancelledJobType, CancelledKeeps
  <2>3. Recorded(mgr, gone) /\ OnlyJob(mgr, gone, j) /\ gone.jobs[j].status = "cancelled"
    BY <1>a, CancelledEffect
  <2> HIDE DEF gone
  <2>4. mgr' = gone
    BY <2>1, <2>2, CommitMgr
  <2> QED
    BY <1>a, <2>1, <2>2, <2>3, <2>4 DEF Cancels, Cancellable
<1>4. CASE GetBatchMetrics
  <2>1. /\ metrics'.total_jobs = metrics.total_jobs
        /\ metrics'.completed_jobs = metrics.completed_jobs
        /\ UNCHANGED <<jobs, queues, workers, cache>> /\ LoopFree
    BY <1>4 DEF GetBatchMetrics, TypeInv, TypeOK, OrderInv, ProcessingMetrics
  <2>2. Kept(mgr, mgr') /\ Recorded(mgr, mgr')
    BY <2>1 DEF Kept, Recorded, mgr
  <2> QED
    BY <1>d, <2>1, <2>2 DEF Reads, CacheKept, Effect
<1>5. ASSUME NEW p \in Priorities, DropJob(p)
      PROVE  Reads /\ HandsKept /\ CacheKept /\ UNCHANGED queues
  <2> DEFINE j == workers[p].job
             after == AfterValidityCheck(mgr, j, now)
  <2>1. /\ Commit(after) /\ Park(p) /\ UNCHANGED <<queues, cache>> /\ LoopFree
        /\ j \in Jobs /\ mgr.jobs[j].status # "absent" /\ Known(j)
    BY <1>5, <1>a, <1>c DEF DropJob, Known
  <2>2. after \in ManagerState /\ Kept(mgr, after)
    BY <1>a, <2>1, AfterValidityCheckType, ReadingKeeps
  <2>3. /\ Recorded(mgr, after) /\ OnlyJob(mgr, after, j)
        /\ \/ after.jobs[j].status = jobs[j].status
           \/ after.jobs[j].status = "expired" /\ JobExpired(jobs[j], now)
    BY <1>a, <2>1, ValidityCheckEffect
  <2> HIDE DEF after, j
  <2>4. mgr' = after
    BY <2>1, <2>2, CommitMgr
  <2>5. Reads
    <3>1. /\ Kept(mgr, mgr') /\ Recorded(mgr, mgr') /\ OnlyJob(mgr, mgr', j)
          /\ \/ jobs'[j].status = jobs[j].status
             \/ jobs'[j].status = "expired" /\ JobExpired(jobs[j], now)
      BY <1>a, <2>2, <2>3, <2>4
    <3> QED
      BY <1>a, <2>1, <3>1, ReadsOfStatus
  <2>6. HandsKept
    BY <1>a, <2>1, ParkFrees DEF HandsKept
  <2> QED
    BY <2>1, <2>5, <2>6 DEF CacheKept
<1>6. ASSUME NEW p \in Priorities, StartJob(p)
      PROVE  Works(p) /\ UNCHANGED cache
  <2> DEFINE j == workers[p].job
             begun == UpdateJobStatus(mgr, j, "processing")
  <2>1. /\ workers[p].pc = "got" /\ Checkpoint(begun, p, <<>>) /\ UNCHANGED <<queues, cache>>
        /\ j \in Jobs /\ mgr.jobs[j].status # "absent" /\ LoopFree /\ JobValid(mgr, j, now)
    BY <1>6, <1>c DEF StartJob
  <2>2. begun \in ManagerState /\ Kept(mgr, begun)
    <3>1. "processing" \in BatchJobStatus /\ "processing" \in BatchJobStatus \ {"absent", "pending"}
      BY DEF BatchJobStatus
    <3> QED
      BY <1>a, <2>1, <3>1, UpdateJobStatusType, UpdateKeeps
  <2>3. Recorded(mgr, begun) /\ OnlyJob(mgr, begun, j) /\ begun.jobs[j].status = "processing"
    BY <1>a, <2>1, UpdateRecords
  <2>4. <<>> \in Seq(Outcome)
    OBVIOUS
  <2> HIDE DEF begun
  <2>5. Kept(begun, mgr')
    <3>1. begun.jobs[j].status # "absent"
      BY <2>3
    <3> QED
      BY <1>a, <2>1, <2>2, <2>4, <3>1, CheckpointKeeps
  <2>6. /\ Recorded(begun, mgr') /\ OnlyJob(begun, mgr', j)
        /\ \A q \in Priorities \ {p} : workers'[q] = workers[q]
        /\ \/ /\ workers'[p].pc \in {"off", "wait"}
              /\ jobs'[j].status = "expired" /\ TimedOut(begun.jobs[j])
           \/ /\ workers'[p] = [pc |-> "predict", job |-> j, out |-> <<>>, cancel |-> FALSE]
              /\ jobs'[j].status = begun.jobs[j].status
    BY <1>a, <2>1, <2>2, <2>4, CheckpointEffect
  <2>7. Kept(mgr, mgr') /\ Recorded(mgr, mgr')
    BY <2>2, <2>3, <2>5, <2>6, KeptTransitive, RecordedTransitive
  <2>8. OnlyJob(mgr, mgr', j)
    BY <2>3, <2>6 DEF OnlyJob
  <2>9. TimedOut(begun.jobs[j]) => Due(j)
    BY <1>a, <2>1, <2>3 DEF TimedOut, Due, Recorded
  <2> HIDE DEF j
  <2>10. /\ jobs'[j].created_at = jobs[j].created_at /\ jobs'[j].timeout = jobs[j].timeout
         /\ metrics'.completed_jobs = metrics.completed_jobs
         /\ jobs'[j].results = jobs[j].results
    BY <1>a, <2>1, <2>7 DEF Recorded
  <2>11. AtWork(p)
    BY <2>1, <2>6, <2>7, <2>8, <2>10 DEF AtWork, j
  <2> QED
    BY <2>1, <2>3, <2>6, <2>9, <2>10, <2>11 DEF Works, j
<1>7. ASSUME NEW p \in Priorities, NEW outcome \in Outcome, NextBatch(p, outcome)
      PROVE  Works(p) /\ UNCHANGED cache
  <2> DEFINE j == workers[p].job
             s == Progress(p, outcome).state
             out == Progress(p, outcome).out
  <2>1. /\ workers[p].pc = "predict" /\ Checkpoint(s, p, out) /\ UNCHANGED <<queues, cache>>
        /\ Answerable(p) /\ ~LastBatch(p)
    BY <1>7 DEF NextBatch, Answerable
  <2>2. j \in Jobs /\ mgr.jobs[j].status # "absent"
    BY <1>c, <2>1
  <2>3. /\ s \in ManagerState /\ out \in Seq(Outcome) /\ s = UpdateProgress(mgr, j, out)
        /\ out = Append(workers[p].out, outcome)
    BY <1>a, <2>1, ProgressType
  <2>4. Kept(mgr, s)
    BY <1>a, <2>2, <2>3, ProgressKeeps
  <2> HIDE DEF s, out
  <2>5. /\ OnlyJob(mgr, s, j) /\ s.metrics.completed_jobs = metrics.completed_jobs
        /\ s.jobs[j].status = "processing" /\ s.jobs[j].results = jobs[j].results
        /\ s.jobs[j].created_at = jobs[j].created_at /\ s.jobs[j].timeout = jobs[j].timeout
    <3>1. Progressed(mgr, s, j)
      BY <1>a, <2>2, <2>3, ProgressEffect
    <3> QED
      BY <1>a, <3>1 DEF Progressed
  <2>6. Kept(s, mgr')
    <3>1. s.jobs[j].status # "absent"
      BY <2>5
    <3> QED
      BY <1>a, <2>1, <2>2, <2>3, <3>1, CheckpointKeeps
  <2>7. /\ Recorded(s, mgr') /\ OnlyJob(s, mgr', j)
        /\ \A q \in Priorities \ {p} : workers'[q] = workers[q]
        /\ \/ /\ workers'[p].pc \in {"off", "wait"}
              /\ jobs'[j].status = "expired" /\ TimedOut(s.jobs[j])
           \/ /\ workers'[p] = [pc |-> "predict", job |-> j, out |-> out, cancel |-> FALSE]
              /\ jobs'[j].status = s.jobs[j].status
    BY <1>a, <2>1, <2>2, <2>3, CheckpointEffect
  <2>8. Kept(mgr, mgr') /\ OnlyJob(mgr, mgr', j)
    BY <2>4, <2>5, <2>6, <2>7, KeptTransitive DEF OnlyJob
  <2>9. TimedOut(s.jobs[j]) => Due(j)
    BY <2>5 DEF TimedOut, Due
  <2> HIDE DEF j
  <2>10. /\ jobs'[j].created_at = jobs[j].created_at /\ jobs'[j].timeout = jobs[j].timeout
         /\ metrics'.completed_jobs = metrics.completed_jobs
         /\ jobs'[j].results = jobs[j].results
    BY <1>a, <2>2, <2>5, <2>7 DEF Recorded
  <2>11. AtWork(p)
    BY <2>1, <2>7, <2>8, <2>10 DEF AtWork, j
  <2>12. \/ workers'[p].pc \in {"off", "wait"} /\ jobs'[j].status = "expired" /\ Due(j)
         \/ /\ workers'[p].pc = "predict" /\ workers'[p].job = j
            /\ jobs'[j].status = "processing" /\ workers'[p].out = out
    BY <2>5, <2>7, <2>9
  <2> QED
    BY <2>1, <2>3, <2>10, <2>11, <2>12 DEF Works, j
<1>8. ASSUME NEW p \in Priorities, NEW outcome \in Outcome, FinishJob(p, outcome)
      PROVE  Finishes(p)
  <2> DEFINE j == workers[p].job
             s == Progress(p, outcome).state
             out == Progress(p, outcome).out
             seen == GetJob(s, j, now)
             done == CompleteJob(seen, j, out)
             final == GetJob(done, j, now)
  <2>1. /\ workers[p].pc = "predict" /\ Commit(final) /\ Park(p) /\ UNCHANGED queues
        /\ Answerable(p) /\ LastBatch(p)
        /\ IF final.jobs[j].status = "completed"
           THEN cache' \in CacheResult(cache, j, out, now)
           ELSE UNCHANGED cache
    BY <1>8 DEF FinishJob, Answerable
  <2>2. j \in Jobs /\ mgr.jobs[j].status # "absent"
    BY <1>c, <2>1
  <2>3. /\ s \in ManagerState /\ out \in Seq(Outcome) /\ s = UpdateProgress(mgr, j, out)
        /\ out = Append(workers[p].out, outcome)
    BY <1>a, <2>1, ProgressType
  <2>4. Kept(mgr, s)
    BY <1>a, <2>2, <2>3, ProgressKeeps
  <2> HIDE DEF s, out
  <2>5. /\ OnlyJob(mgr, s, j) /\ s.metrics.completed_jobs = metrics.completed_jobs
        /\ s.jobs[j].status = "processing"
        /\ s.jobs[j].created_at = jobs[j].created_at /\ s.jobs[j].timeout = jobs[j].timeout
    <3>1. Progressed(mgr, s, j)
      BY <1>a, <2>2, <2>3, ProgressEffect
    <3> QED
      BY <1>a, <3>1 DEF Progressed
  <2>6. seen \in ManagerState /\ Kept(s, seen)
    <3>1. s.jobs[j].status # "absent"
      BY <2>5
    <3> QED
      BY <1>a, <2>2, <2>3, <3>1, GetJobType, ReadingKeeps
  <2>7. /\ Recorded(s, seen) /\ OnlyJob(s, seen, j)
        /\ seen.jobs[j].status \in {"processing", "expired"}
    BY <2>2, <2>3, <2>5, GetJobEffect
  <2> HIDE DEF seen
  <2>8. done \in ManagerState /\ Kept(seen, done)
    <3>1. seen.jobs[j].status # "absent"
      BY <2>7
    <3> QED
      BY <2>2, <2>3, <2>6, <3>1, CompleteJobType, CompleteKeeps
  <2>0. done = CompleteJob(seen, j, out)
    OBVIOUS
  <2> HIDE DEF done
  <2>9. /\ OnlyJob(seen, done, j)
        /\ done.metrics.completed_jobs = seen.metrics.completed_jobs + 1
        /\ done.jobs[j].status = "completed" /\ done.jobs[j].results = out
        /\ done.jobs[j].processed_count = Len(out) /\ done.jobs[j].failed_count = Errors(out)
        /\ done.jobs[j].created_at = seen.jobs[j].created_at
        /\ done.jobs[j].timeout = seen.jobs[j].timeout
    <3>1. Answers(seen, done, j, out)
      BY <2>0, <2>2, <2>3, <2>6, CompleteEffect
    <3> QED
      BY <2>7, <3>1 DEF Answers
  <2>10. final \in ManagerState /\ Kept(done, final)
    <3>1. done.jobs[j].status # "absent"
      BY <2>9
    <3> QED
      BY <1>a, <2>2, <2>8, <3>1, GetJobType, ReadingKeeps
  <2>11. /\ Recorded(done, final) /\ OnlyJob(done, final, j)
         /\ final.jobs[j].status = IF JobExpired(done.jobs[j], now) THEN "expired"
                                                                    ELSE "completed"
    BY <2>2, <2>8, <2>9, GetJobEffect
  <2> HIDE DEF final
  <2>12. mgr' = final
    BY <2>1, <2>10, CommitMgr
  <2>13. Kept(mgr, mgr')
    BY <2>4, <2>6, <2>8, <2>10, <2>12, KeptTransitive
  <2>14. OnlyJob(mgr, mgr', j)
    BY <2>5, <2>7, <2>9, <2>11, <2>12 DEF OnlyJob
  <2>15. /\ jobs'[j].created_at = jobs[j].created_at /\ jobs'[j].timeout = jobs[j].timeout
         /\ metrics'.completed_jobs = metrics.completed_jobs + 1
         /\ jobs'[j].results = out
         /\ jobs'[j].processed_count = Len(out) /\ jobs'[j].failed_count = Errors(out)
         /\ done.jobs[j].created_at = jobs[j].created_at
         /\ done.jobs[j].timeout = jobs[j].timeout
    BY <1>a, <2>2, <2>5, <2>7, <2>9, <2>11, <2>12 DEF Recorded
  <2>16. JobExpired(done.jobs[j], now) => JobExpired(jobs[j], now)
    BY <2>15 DEF JobExpired
  <2>17. workers'[p].pc \in {"off", "wait"} /\ \A q \in Priorities \ {p} : workers'[q] = workers[q]
    BY <1>a, <2>1, ParkFrees
  <2>18. AtWork(p)
    BY <2>1, <2>13, <2>14, <2>15, <2>17 DEF AtWork
  <2>19. \/ jobs'[j].status = "completed" /\ cache' \in CacheResult(cache, j, jobs'[j].results, now)
         \/ jobs'[j].status = "expired" /\ JobExpired(jobs[j], now) /\ UNCHANGED cache
    BY <1>a, <2>1, <2>11, <2>12, <2>15, <2>16
  <2> HIDE DEF j
  <2> QED
    BY <2>1, <2>3, <2>15, <2>17, <2>18, <2>19 DEF Finishes, j
<1>9. ASSUME UNCHANGED <<jobs, metrics, queues, cache>>, HandsKept,
             LoopFree \/ UNCHANGED workers
      PROVE  Effect
  <2>1. Kept(mgr, mgr') /\ Recorded(mgr, mgr')
    BY <1>b, <1>9 DEF mgr
  <2>2. Reads
    BY <2>1, <1>9 DEF Reads
  <2> QED
    BY <1>9, <2>2 DEF CacheKept, Effect
<1>10. ASSUME NEW p \in Priorities, WorkerCancelled(p)
       PROVE  Effect
  <2>1. HandsKept
    BY <1>a, <1>10, WorkerAtType DEF WorkerCancelled, HandsKept
  <2> QED
    BY <1>9, <1>10, <2>1 DEF WorkerCancelled
<1>11. CASE Start
  <2>1. HandsKept
    BY <1>11, WorkerAtType DEF Start, HandsKept
  <2> QED
    BY <1>9, <1>11, <2>1 DEF Start
<1>12. CASE Stop
  <2>1. ASSUME NEW p \in Priorities
        PROVE  LET w == [workers[p] EXCEPT !.cancel = TRUE]
               IN  w.pc = workers[p].pc /\ w.job = workers[p].job /\ w.out = workers[p].out
    BY <1>a DEF Worker
  <2>2. HandsKept
    BY <1>12, <2>1 DEF Stop, HandsKept
  <2> QED
    BY <1>9, <1>12, <2>2 DEF Stop
<1>13. CASE Cleanup
  <2> DEFINE clean == CleanupExpired(mgr, now)
  <2>1. Commit(clean) /\ UNCHANGED <<queues, workers, cache>> /\ LoopFree
    BY <1>13 DEF Cleanup
  <2>2. clean \in ManagerState /\ Kept(mgr, clean)
    BY <1>a, CleanupExpiredType, CleanupKeeps
  <2>3. /\ Recorded(mgr, clean)
        /\ \A k \in Jobs : clean.jobs[k].status = IF k \in Overdue(mgr, now) THEN "expired"
                                                                       ELSE jobs[k].status
    BY <1>a, CleanupEffect
  <2> HIDE DEF clean
  <2>4. mgr' = clean
    BY <2>1, <2>2, CommitMgr
  <2>5. \A k \in Overdue(mgr, now) : Known(k) /\ Due(k)
    BY <1>a, ExpiredIsDue DEF Overdue, Known, TypeInv
  <2>6. Reads
    BY <1>a, <2>1, <2>2, <2>3, <2>4, <2>5 DEF Reads
  <2> QED
    BY <1>d, <2>1, <2>6 DEF CacheKept, Effect
<1>14. CASE StopDone \/ Tick \/ UNCHANGED vars
  BY <1>9, <1>14, <1>d DEF StopDone, Tick, vars
<1>15. ASSUME NEW p \in Priorities, TakeJob(p)
       PROVE  Effect
  BY <1>15 DEF Effect
<1> QED
  BY <1>1, <1>2, <1>3, <1>4, <1>5, <1>6, <1>7, <1>8, <1>10, <1>11, <1>12, <1>13,
     <1>14, <1>15 DEF Next, Request, WorkerStep, Effect

-----------------------------------------------------------------------------
(* Results.  ResultsComplete holds because a job gets its results from the   *)
(* worker that holds it, and a job that is queued or held has none.          *)

Answered(j) == jobs[j].results # NoResults

\* A job nobody has begun: it can only have been cancelled or expired.
Untouched(job) ==
    job.status \in {"pending", "cancelled", "expired"} /\ job.results = NoResults

Unanswered ==
    /\ \A j \in Jobs : Known(j) => jobs[j].batches >= 1
    /\ \A p \in Priorities : \A i \in DOMAIN queues[p] : Untouched(jobs[queues[p][i]])
    /\ \A p \in Priorities : workers[p].pc = "got" => Untouched(jobs[workers[p].job])
    /\ \A p \in Priorities : workers[p].pc = "predict" =>
          /\ ~Answered(workers[p].job)
          /\ Len(workers[p].out) < jobs[workers[p].job].batches

ResultInv == OrderInv /\ Unanswered /\ ResultsComplete

\* Results with one more entry are results.
LEMMA AppendAnswers ==
    ASSUME NEW out \in Seq(Outcome), NEW outcome \in Outcome
    PROVE  Append(out, outcome) # NoResults /\ Len(Append(out, outcome)) = Len(out) + 1
<1>1. Len(Append(out, outcome)) = Len(out) + 1 /\ Len(out) \in Nat
  OBVIOUS
<1> QED
  BY <1>1 DEF NoResults

\* A job that a worker holds is in no queue and in no other worker's hand.
LEMMA HeldAlone ==
    ASSUME OrderInv, NEW p \in Priorities, NEW j \in Jobs, Holds(p, j)
    PROVE  /\ Known(j)
           /\ \A q \in Priorities : \A i \in DOMAIN queues[q] : queues[q][i] # j
           /\ \A q \in Priorities \ {p} : ~Holds(q, j)
<1>1. jobs[j].ticket \in Nat
  BY DEF OrderInv, TypeInv, TypeOK, BatchJob
<1>2. /\ Known(j) /\ jobs[j].priority = p
      /\ \A i \in DOMAIN queues[p] : jobs[j].ticket < jobs[queues[p][i]].ticket
  BY DEF OrderInv, Tracked, QueueOrder, Ticket
<1>3. ASSUME NEW q \in Priorities, NEW i \in DOMAIN queues[q], queues[q][i] = j
      PROVE  FALSE
  <2>1. q = p
    BY <1>2, <1>3 DEF OrderInv, Tracked, QueueOrder
  <2>2. jobs[j].ticket < jobs[j].ticket
    BY <1>2, <1>3, <2>1
  <2> QED
    BY <1>1, <2>2
<1>4. \A q \in Priorities : Holds(q, j) => q = p
  BY <1>2 DEF OrderInv, Tracked, QueueOrder
<1> QED
  BY <1>2, <1>3, <1>4

\* Parts of the invariant in the form the proofs below use.
LEMMA ResultParts ==
    ASSUME ResultInv
    PROVE  /\ mgr.jobs = jobs /\ mgr'.jobs = jobs' /\ mgr'.metrics = metrics'
           /\ \A q \in Priorities : \A i \in DOMAIN queues[q] :
                 queues[q][i] \in Jobs /\ Known(queues[q][i]) /\ Untouched(jobs[queues[q][i]])
           /\ \A q \in Priorities : workers[q].pc \in {"got", "predict"} =>
                 workers[q].job \in Jobs /\ Holds(q, workers[q].job) /\ Known(workers[q].job)
           /\ \A q \in Priorities : workers[q].out \in Seq(Outcome)
           /\ \A k \in Jobs : jobs[k].batches \in Nat /\ jobs[k].results \in Seq(Outcome)
           /\ queues \in [Priorities -> Seq(Jobs)]
BY DEF ResultInv, OrderInv, TypeInv, TypeOK, HandsFull, Tracked, Unanswered, Holds, Worker,
       BatchJob, mgr

\* Jobs that expire on being read stay untouched, or keep their results.
LEMMA ReadsStep ==
    ASSUME ResultInv, Reads, HandsKept, UNCHANGED queues
    PROVE  Unanswered' /\ ResultsComplete'
<1>1. \A k \in Jobs : /\ jobs'[k].batches = jobs[k].batches
                      /\ jobs'[k].results = jobs[k].results
                      /\ jobs'[k].processed_count = jobs[k].processed_count
                      /\ jobs'[k].failed_count = jobs[k].failed_count
                      /\ jobs'[k].status = "absent" <=> jobs[k].status = "absent"
                      /\ jobs'[k].status = jobs[k].status \/ jobs'[k].status = "expired"
  BY ResultParts DEF Reads, Kept, Recorded
<1>2. \A k \in Jobs : Untouched(jobs[k]) => Untouched(jobs'[k])
  BY <1>1 DEF Untouched, Answered
<1>3. (\A k \in Jobs : Known(k) => jobs[k].batches >= 1)'
  BY <1>1 DEF ResultInv, Unanswered, Known
<1>4. (\A q \in Priorities : \A i \in DOMAIN queues[q] : Untouched(jobs[queues[q][i]]))'
  BY <1>2, ResultParts
<1>5. (\A q \in Priorities : workers[q].pc = "got" => Untouched(jobs[workers[q].job]))'
  BY <1>2, ResultParts DEF HandsKept, ResultInv, Unanswered
<1>6. ASSUME NEW q \in Priorities, workers'[q].pc = "predict"
      PROVE  /\ jobs'[workers'[q].job].results = NoResults
             /\ Len(workers'[q].out) < jobs'[workers'[q].job].batches
  <2>1. /\ workers[q].pc = "predict" /\ workers'[q].job = workers[q].job
        /\ workers'[q].out = workers[q].out
    BY <1>6 DEF HandsKept
  <2> QED
    BY <1>1, <2>1, ResultParts DEF ResultInv, Unanswered, Answered
<1>7. ResultsComplete'
  BY <1>1 DEF ResultInv, ResultsComplete
<1> QED
  BY <1>3, <1>4, <1>5, <1>6, <1>7 DEF Unanswered, Answered

\* A job that is cancelled has not been answered.
LEMMA CancelsStep ==
    ASSUME ResultInv, NEW j \in Jobs, Cancels(j), UNCHANGED <<queues, workers>>
    PROVE  Unanswered' /\ ResultsComplete'
<1>1. /\ jobs'[j].status = "cancelled" /\ ~Answered(j) /\ jobs'[j].results = jobs[j].results
      /\ jobs'[j].batches = jobs[j].batches /\ Known(j)
      /\ \A k \in Jobs \ {j} : jobs'[k] = jobs[k]
  BY ResultParts DEF Cancels, Kept, Recorded, OnlyJob, ResultInv, ResultsComplete, Answered,
                     Live, Known
<1>2. \A k \in Jobs : Untouched(jobs[k]) => Untouched(jobs'[k])
  BY <1>1 DEF Untouched, Answered
<1>3. (\A k \in Jobs : Known(k) => jobs[k].batches >= 1)'
  BY <1>1 DEF ResultInv, Unanswered, Known
<1>4. (\A q \in Priorities : \A i \in DOMAIN queues[q] : Untouched(jobs[queues[q][i]]))'
  BY <1>2, ResultParts
<1>5. (\A q \in Priorities : workers[q].pc = "got" => Untouched(jobs[workers[q].job]))'
  BY <1>2, ResultParts DEF ResultInv, Unanswered
<1>6. ASSUME NEW q \in Priorities, workers[q].pc = "predict"
      PROVE  /\ jobs'[workers[q].job].results = NoResults
             /\ Len(workers[q].out) < jobs'[workers[q].job].batches
  <2>1. workers[q].job \in Jobs
    BY <1>6, ResultParts
  <2> QED
    BY <1>1, <1>6, <2>1 DEF ResultInv, Unanswered, Answered
<1>7. ResultsComplete'
  BY <1>1 DEF ResultInv, ResultsComplete, Answered
<1> QED
  BY <1>3, <1>4, <1>5, <1>6, <1>7 DEF Unanswered, Answered

\* A new job is in no hand yet and has no results.
LEMMA CreatesStep ==
    ASSUME ResultInv, NEW j \in Jobs, NEW p \in Priorities, Creates(j, p), UNCHANGED workers
    PROVE  Unanswered' /\ ResultsComplete'
<1>1. /\ jobs'[j].results = NoResults /\ jobs'[j].batches >= 1
      /\ jobs'[j].status \in {"pending", "failed"} /\ ~Known(j)
      /\ \A k \in Jobs \ {j} : jobs'[k] = jobs[k]
  BY ResultParts DEF Creates, OnlyJob
<1>2. \A k \in Jobs \ {j} : Untouched(jobs[k]) => Untouched(jobs'[k])
  BY <1>1 DEF Untouched, Answered
<1>3. (\A k \in Jobs : Known(k) => jobs[k].batches >= 1)'
  BY <1>1 DEF ResultInv, Unanswered, Known
<1>4. ASSUME NEW q \in Priorities, NEW i \in DOMAIN queues'[q]
      PROVE  Untouched(jobs'[queues'[q][i]])
  <2>1. CASE UNCHANGED queues
    BY <1>1, <1>2, <2>1, ResultParts
  <2>2. CASE queues' = [queues EXCEPT ![p] = Append(@, j)] /\ jobs'[j].status = "pending"
    <3>1. queues[q] \in Seq(Jobs) /\ queues'[q] \in {queues[q], Append(queues[q], j)}
      BY <2>2, ResultParts
    <3>2. \/ i \in DOMAIN queues[q] /\ queues'[q][i] = queues[q][i]
          \/ queues'[q][i] = j
      BY <3>1
    <3>3. Untouched(jobs'[j])
      BY <1>1, <2>2 DEF Untouched, Answered
    <3>4. CASE i \in DOMAIN queues[q] /\ queues'[q][i] = queues[q][i]
      <4>1. /\ queues[q][i] \in Jobs /\ Known(queues[q][i]) /\ Untouched(jobs[queues[q][i]])
        BY <3>4, ResultParts
      <4>2. queues[q][i] \in Jobs \ {j}
        BY <1>1, <4>1
      <4> QED
        BY <1>2, <3>4, <4>1, <4>2 DEF Untouched, Answered
    <3>5. CASE queues'[q][i] = j
      BY <3>3, <3>5 DEF Untouched, Answered
    <3> QED
      BY <3>2, <3>4, <3>5
  <2> QED
    BY <2>1, <2>2 DEF Creates
<1>5. (\A q \in Priorities : workers[q].pc = "got" => Untouched(jobs[workers[q].job]))'
  BY <1>1, <1>2, ResultParts DEF ResultInv, Unanswered
<1>6. ASSUME NEW q \in Priorities, workers[q].pc = "predict"
      PROVE  /\ jobs'[workers[q].job].results = NoResults
             /\ Len(workers[q].out) < jobs'[workers[q].job].batches
  <2>1. workers[q].job \in Jobs \ {j}
    BY <1>1, <1>6, ResultParts
  <2> QED
    BY <1>1, <1>6, <2>1 DEF ResultInv, Unanswered, Answered
<1>7. ResultsComplete'
  BY <1>1 DEF ResultInv, ResultsComplete, Answered
<1> QED
  BY <1>3, <1>4, <1>5, <1>6, <1>7 DEF Unanswered, Answered

\* The job taken off a queue is untouched, as it was in the queue.
LEMMA TakesStep ==
    ASSUME ResultInv, NEW p \in Priorities, TakeJob(p)
    PROVE  Unanswered' /\ ResultsComplete'
<1>1. /\ queues[p] \in Seq(Jobs) /\ queues[p] # <<>> /\ UNCHANGED jobs
      /\ queues'[p] = Tail(queues[p])
      /\ \A q \in Priorities \ {p} : queues'[q] = queues[q] /\ workers'[q] = workers[q]
      /\ workers'[p].pc = "got" /\ workers'[p].job = Head(queues[p])
  BY ResultParts DEF TakeJob, ResultInv, OrderInv, TypeInv, TypeOK, Worker
<1>2. Untouched(jobs[Head(queues[p])])
  BY <1>1, ResultParts
<1>3. ASSUME NEW q \in Priorities, NEW i \in DOMAIN queues'[q]
      PROVE  Untouched(jobs'[queues'[q][i]])
  <2>1. CASE q = p
    <3>1. i + 1 \in DOMAIN queues[p] /\ queues'[p][i] = queues[p][i + 1]
      <4>1. queues[p] \in Seq(Jobs) /\ queues[p] # <<>> /\ i \in DOMAIN Tail(queues[p])
        BY <1>1, <2>1
      <4>2. i + 1 \in DOMAIN queues[p] /\ Tail(queues[p])[i] = queues[p][i + 1]
        BY <4>1
      <4> QED
        BY <1>1, <4>2
    <3> QED
      BY <1>1, <2>1, <3>1, ResultParts DEF Untouched, Answered
  <2>2. CASE q # p
    BY <1>1, <2>2, ResultParts DEF Untouched, Answered
  <2> QED
    BY <2>1, <2>2
<1>4. ASSUME NEW q \in Priorities, workers'[q].pc = "got"
      PROVE  Untouched(jobs'[workers'[q].job])
  BY <1>1, <1>2, <1>4 DEF ResultInv, Unanswered, Untouched, Answered
<1>5. ASSUME NEW q \in Priorities, workers'[q].pc = "predict"
      PROVE  /\ jobs[workers'[q].job].results = NoResults
             /\ Len(workers'[q].out) < jobs[workers'[q].job].batches
  BY <1>1, <1>5 DEF ResultInv, Unanswered, Answered
<1> QED
  BY <1>1, <1>3, <1>4, <1>5 DEF ResultInv, Unanswered, ResultsComplete, Answered, Known

\* A worker at its job leaves the others' jobs and the queued ones alone.
LEMMA AtWorkStep ==
    ASSUME ResultInv, NEW p \in Priorities, AtWork(p), workers[p].pc \in {"got", "predict"}
    PROVE  /\ \A k \in Jobs : Known(k)' <=> Known(k)
           /\ (\A k \in Jobs : Known(k) => jobs[k].batches >= 1)'
           /\ (\A q \in Priorities : \A i \in DOMAIN queues[q] : Untouched(jobs[queues[q][i]]))'
           /\ \A q \in Priorities \ {p} :
                 /\ workers'[q].pc = "got" => Untouched(jobs'[workers'[q].job])
                 /\ workers'[q].pc = "predict" =>
                       /\ jobs'[workers'[q].job].results = NoResults
                       /\ Len(workers'[q].out) < jobs'[workers'[q].job].batches
<1> DEFINE j == workers[p].job
<1>1. /\ j \in Jobs /\ Holds(p, j) /\ UNCHANGED queues
      /\ \A k \in Jobs \ {j} : jobs'[k] = jobs[k]
      /\ \A q \in Priorities \ {p} : workers'[q] = workers[q]
      /\ \A k \in Jobs : /\ jobs'[k].batches = jobs[k].batches
                         /\ jobs'[k].status = "absent" <=> jobs[k].status = "absent"
  BY ResultParts DEF AtWork, OnlyJob, Kept
<1>2. /\ \A q \in Priorities : \A i \in DOMAIN queues[q] : queues[q][i] # j
      /\ \A q \in Priorities \ {p} : ~Holds(q, j)
  BY <1>1, HeldAlone DEF ResultInv
<1> HIDE DEF j
<1>3. \A k \in Jobs \ {j} : Untouched(jobs[k]) => Untouched(jobs'[k])
  BY <1>1 DEF Untouched, Answered
<1>4. \A k \in Jobs : Known(k)' <=> Known(k)
  BY <1>1 DEF Known
<1>5. (\A k \in Jobs : Known(k) => jobs[k].batches >= 1)'
  BY <1>1, <1>4 DEF ResultInv, Unanswered
<1>6. (\A q \in Priorities : \A i \in DOMAIN queues[q] : Untouched(jobs[queues[q][i]]))'
  BY <1>1, <1>2, <1>3, ResultParts
<1>7. ASSUME NEW q \in Priorities \ {p}, workers[q].pc \in {"got", "predict"}
      PROVE  workers[q].job \in Jobs \ {j}
  BY <1>2, <1>7, ResultParts
<1>8. ASSUME NEW q \in Priorities \ {p}, workers'[q].pc = "got"
      PROVE  Untouched(jobs'[workers'[q].job])
  BY <1>1, <1>3, <1>7, <1>8 DEF ResultInv, Unanswered
<1>9. ASSUME NEW q \in Priorities \ {p}, workers'[q].pc = "predict"
      PROVE  /\ jobs'[workers'[q].job].results = NoResults
             /\ Len(workers'[q].out) < jobs'[workers'[q].job].batches
  BY <1>1, <1>7, <1>9 DEF ResultInv, Unanswered, Answered
<1> QED
  BY <1>4, <1>5, <1>6, <1>8, <1>9

\* Beginning a job, or going on to its next batch, answers nothing.
LEMMA WorksStep ==
    ASSUME ResultInv, NEW p \in Priorities, Works(p)
    PROVE  Unanswered' /\ ResultsComplete'
<1> DEFINE j == workers[p].job
<1>1. AtWork(p) /\ workers[p].pc \in {"got", "predict"} /\ jobs'[j].results = jobs[j].results
  BY DEF Works
<1>2. /\ j \in Jobs /\ Known(j) /\ workers[p].out \in Seq(Outcome) /\ jobs[j].batches \in Nat
      /\ jobs[j].batches >= 1
      /\ \A k \in Jobs \ {j} : jobs'[k] = jobs[k]
      /\ jobs'[j].batches = jobs[j].batches
  BY <1>1, ResultParts DEF AtWork, OnlyJob, Kept, ResultInv, Unanswered
<1>3. ~Answered(j)
  BY <1>1 DEF ResultInv, Unanswered, Untouched, Answered
<1>4. /\ jobs'[j].status \in {"expired", "processing"}
      /\ workers'[p].pc \in {"off", "wait", "predict"}
      /\ workers'[p].pc = "predict" =>
            /\ workers'[p].job = j
            /\ \/ workers'[p].out = <<>>
               \/ /\ workers[p].pc = "predict" /\ ~LastBatch(p)
                  /\ \E outcome \in Outcome : workers'[p].out = Append(workers[p].out, outcome)
  BY DEF Works
<1> HIDE DEF j
<1>5. workers'[p].pc = "predict" => Len(workers'[p].out) < jobs[j].batches
  <2>1. CASE workers'[p].out = <<>>
    BY <1>2, <2>1
  <2>2. ASSUME NEW outcome \in Outcome, workers[p].pc = "predict", ~LastBatch(p),
               workers'[p].out = Append(workers[p].out, outcome)
        PROVE  Len(workers'[p].out) < jobs[j].batches
    <3>1. Len(workers[p].out) < jobs[j].batches /\ Len(workers[p].out) + 1 # jobs[j].batches
      BY <2>2 DEF ResultInv, Unanswered, LastBatch, j
    <3> QED
      BY <1>2, <2>2, <3>1
  <2> QED
    BY <1>4, <2>1, <2>2
<1>6. ResultsComplete'
  BY <1>1, <1>2, <1>3, <1>4 DEF ResultInv, ResultsComplete, Answered, j
<1>7. workers'[p].pc = "predict" => /\ jobs'[workers'[p].job].results = NoResults
                                    /\ Len(workers'[p].out) < jobs'[workers'[p].job].batches
  BY <1>1, <1>2, <1>3, <1>4, <1>5 DEF Answered, j
<1> QED
  BY <1>1, <1>4, <1>6, <1>7, AtWorkStep DEF Unanswered, Answered

\* The answer to a job covers all its batches.
LEMMA FinishesStep ==
    ASSUME ResultInv, NEW p \in Priorities, Finishes(p)
    PROVE  Unanswered' /\ ResultsComplete'
<1> DEFINE j == workers[p].job
<1>1. /\ AtWork(p) /\ workers[p].pc = "predict" /\ workers'[p].pc \in {"off", "wait"}
      /\ jobs'[j].status \in {"completed", "expired"}
      /\ jobs'[j].processed_count = Len(jobs'[j].results)
      /\ jobs'[j].failed_count = Errors(jobs'[j].results)
  BY DEF Finishes
<1>2. /\ j \in Jobs /\ workers[p].out \in Seq(Outcome)
      /\ \A k \in Jobs \ {j} : jobs'[k] = jobs[k]
      /\ jobs'[j].batches = jobs[j].batches
  BY <1>1, ResultParts DEF AtWork, OnlyJob, Kept
<1>3. PICK outcome \in Outcome : jobs'[j].results = Append(workers[p].out, outcome)
  BY DEF Finishes
<1>4. Len(workers[p].out) + 1 = jobs[j].batches
  BY DEF Finishes, LastBatch
<1>5. jobs'[j].results # NoResults /\ Len(jobs'[j].results) = jobs'[j].batches
  BY <1>2, <1>3, <1>4, AppendAnswers
<1> HIDE DEF j
<1>6. ResultsComplete'
  BY <1>1, <1>2, <1>5 DEF ResultInv, ResultsComplete
<1> QED
  BY <1>1, <1>6, AtWorkStep DEF Unanswered, Answered

\* ResultInv is kept by every step.
LEMMA ResultStep ==
    ASSUME ResultInv, [Next]_vars
    PROVE  ResultInv'
<1>1. OrderInv'
  BY TypeStep, QuietStep, TrackedStep DEF ResultInv, OrderInv
<1>2. Effect
  BY StepEffect DEF ResultInv
<1>3. Unanswered' /\ ResultsComplete'
  BY <1>2, ReadsStep, CancelsStep, CreatesStep, TakesStep, WorksStep, FinishesStep DEF Effect
<1> QED
  BY <1>1, <1>3 DEF ResultInv

\* Before anything is submitted there is nothing to answer.
LEMMA ResultInit ==
    ASSUME Init
    PROVE  ResultInv
<1>1. OrderInv
  BY TypeInit, TrackedInit DEF OrderInv
<1>2. \A p \in Priorities : workers[p].pc = "off" /\ queues[p] = <<>>
  BY WorkerAtType DEF Init
<1>3. \A j \in Jobs : jobs[j].status = "absent" /\ jobs[j].results = NoResults
  BY DEF Init, NoSuchJob
<1> QED
  BY <1>1, <1>2, <1>3 DEF ResultInv, Unanswered, ResultsComplete, Known

\* ResultInv holds in every state.
LEMMA ResultInvariant == Spec => []ResultInv
BY ResultInit, ResultStep, PTL DEF Spec

\* However requests, the cleanup, stop() and the clock fall between its batches, a
\* job has results exactly when it was COMPLETED, one for every batch, and its counts
\* agree with them.
THEOREM AnswersAreComplete == Spec => []ResultsComplete
<1>1. ResultInv => ResultsComplete
  BY DEF ResultInv
<1> QED
  BY <1>1, ResultInvariant, PTL

-----------------------------------------------------------------------------
(* The cache.  It is coherent because results never change once they are     *)
(* there, and a job is offered to the cache at the moment it gets its own.   *)

\* Results are written once.
LEMMA ResultsStable ==
    ASSUME ResultInv, [Next]_vars
    PROVE  \A k \in Jobs : Answered(k) => jobs'[k].results = jobs[k].results
<1>1. ASSUME NEW k \in Jobs, Answered(k)
      PROVE  Known(k) /\ jobs[k].status \in {"completed", "expired"}
  BY <1>1 DEF ResultInv, ResultsComplete, Answered, Known
<1>2. Effect
  BY StepEffect DEF ResultInv
<1>3. CASE Reads
  BY <1>3, ResultParts DEF Reads, Recorded
<1>4. ASSUME NEW j \in Jobs, Cancels(j)
      PROVE  \A k \in Jobs : jobs'[k].results = jobs[k].results
  BY <1>4, ResultParts DEF Cancels, Recorded
<1>5. ASSUME NEW j \in Jobs, NEW p \in Priorities, Creates(j, p)
      PROVE  \A k \in Jobs : Answered(k) => jobs'[k].results = jobs[k].results
  BY <1>1, <1>5, ResultParts DEF Creates, OnlyJob
<1>6. ASSUME NEW p \in Priorities, TakeJob(p)
      PROVE  UNCHANGED jobs
  BY <1>6 DEF TakeJob
<1>7. ASSUME NEW p \in Priorities, Works(p)
      PROVE  \A k \in Jobs : jobs'[k].results = jobs[k].results
  BY <1>7, ResultParts DEF Works, AtWork, OnlyJob
<1>8. ASSUME NEW p \in Priorities, Finishes(p)
      PROVE  \A k \in Jobs : Answered(k) => jobs'[k].results = jobs[k].results
  BY <1>8, ResultParts DEF Finishes, AtWork, OnlyJob, ResultInv, Unanswered
<1> QED
  BY <1>2, <1>3, <1>4, <1>5, <1>6, <1>7, <1>8 DEF Effect

\* A lookup leaves a part of the cache.
LEMMA LookupShrinks ==
    ASSUME NEW c, NEW j, NEW n
    PROVE  /\ DOMAIN AfterLookup(c, j, n) \subseteq DOMAIN c
           /\ \A k \in DOMAIN AfterLookup(c, j, n) : AfterLookup(c, j, n)[k] = c[k]
BY DEF AfterLookup, Restrict

\* cache_result leaves entries that were there, adds at most the new one, and keeps
\* the cache within its limit: the oldest entries make room for it.
LEMMA CacheResultEffect ==
    ASSUME NEW c, IsFiniteSet(DOMAIN c), Cardinality(DOMAIN c) <= CacheMax,
           NEW j, NEW out, NEW n, NEW d \in CacheResult(c, j, out, n)
    PROVE  /\ Cardinality(DOMAIN d) <= CacheMax
           /\ \A k \in DOMAIN d :
                 \/ k \in DOMAIN c /\ d[k] = c[k]
                 \/ k = j /\ d[k].results = out
<1>1. PICK old \in Oldest(c, Fresh(c, n)) :
         LET room == Restrict(c, Fresh(c, n) \ old)
         IN  d = IF j \in DOMAIN room THEN room
                 ELSE [k \in DOMAIN room \cup {j} |->
                         IF k = j THEN [results |-> out, cached_at |-> n] ELSE room[k]]
  BY DEF CacheResult
<1> DEFINE fresh == Fresh(c, n)
           kept == fresh \ old
           room == [k \in kept |-> c[k]]
<1>2. fresh \subseteq DOMAIN c /\ old \subseteq fresh
  BY DEF Fresh, Oldest
<1>3. d = IF j \in kept THEN room
          ELSE [k \in kept \cup {j} |->
                  IF k = j THEN [results |-> out, cached_at |-> n] ELSE room[k]]
  BY <1>1 DEF Restrict
<1>4. Cardinality(old) = IF Cardinality(fresh) < CacheMax THEN 0
                         ELSE Cardinality(fresh) - CacheMax + 1
  BY DEF Oldest
<1> HIDE DEF fresh
<1>5. /\ IsFiniteSet(fresh) /\ Cardinality(fresh) \in Nat
      /\ Cardinality(fresh) <= Cardinality(DOMAIN c) /\ Cardinality(DOMAIN c) \in Nat
  BY <1>2, FS_Subset, FS_CardinalityType
<1>6. IsFiniteSet(kept) /\ Cardinality(kept) = Cardinality(fresh) - Cardinality(old)
  <2>1. fresh \cap old = old
    BY <1>2
  <2> QED
    BY <1>5, <2>1, FS_Difference
<1>7. Cardinality(kept) + 1 <= CacheMax
  BY <1>4, <1>5, <1>6, CacheAssumption
<1>8. Cardinality(kept) \in Nat
  BY <1>6, FS_CardinalityType
<1>9. DOMAIN d = kept \/ DOMAIN d = kept \cup {j}
  BY <1>3
<1> HIDE DEF kept
<1>10. Cardinality(DOMAIN d) <= CacheMax
  <2>1. Cardinality(kept \cup {j}) \in {Cardinality(kept), Cardinality(kept) + 1}
    BY <1>6, FS_AddElement
  <2>2. Cardinality(kept \cup {j}) \in Nat
    BY <1>6, FS_AddElement, FS_CardinalityType
  <2> QED
    BY <1>7, <1>8, <1>9, <2>1, <2>2, CacheAssumption
<1>11. kept \subseteq DOMAIN c
  BY <1>2 DEF kept
<1>12. ASSUME NEW k \in DOMAIN d
       PROVE  \/ k \in DOMAIN c /\ d[k] = c[k]
              \/ k = j /\ d[k].results = out
  BY <1>3, <1>11, <1>12
<1> QED
  BY <1>10, <1>12

\* Every step keeps the cache coherent.
LEMMA CacheStep ==
    ASSUME ResultInv, CacheCoherent, [Next]_vars
    PROVE  CacheCoherent'
<1>1. /\ IsFiniteSet(DOMAIN cache) /\ DOMAIN cache \subseteq Jobs
      /\ Cardinality(DOMAIN cache) \in Nat /\ CacheMax \in Nat
  <2>1. DOMAIN cache \subseteq Jobs
    BY DEF ResultInv, OrderInv, TypeInv, TypeOK
  <2> QED
    BY <2>1, ManagerAssumption, CacheAssumption, FS_Subset, FS_CardinalityType
<1>2. \A k \in DOMAIN cache : cache[k].results = jobs'[k].results /\ jobs'[k].results # NoResults
  BY <1>1, ResultsStable DEF CacheCoherent, Answered
<1>3. Effect
  BY StepEffect DEF ResultInv
<1>4. CASE UNCHANGED cache
  BY <1>2, <1>4 DEF CacheCoherent
<1>5. ASSUME NEW j \in Jobs, cache' = AfterLookup(cache, j, now)
      PROVE  CacheCoherent'
  <2>1. DOMAIN cache' \subseteq DOMAIN cache /\ \A k \in DOMAIN cache' : cache'[k] = cache[k]
    BY <1>5, LookupShrinks
  <2>2. Cardinality(DOMAIN cache') <= Cardinality(DOMAIN cache)
        /\ Cardinality(DOMAIN cache') \in Nat
    BY <1>1, <2>1, FS_Subset, FS_CardinalityType
  <2>3. Cardinality(DOMAIN cache') <= CacheMax
    BY <1>1, <2>2 DEF CacheCoherent
  <2> QED
    BY <1>2, <2>1, <2>3 DEF CacheCoherent
<1>6. ASSUME NEW p \in Priorities, Finishes(p),
             cache' \in CacheResult(cache, workers[p].job, jobs'[workers[p].job].results, now)
      PROVE  CacheCoherent'
  <2> DEFINE j == workers[p].job
  <2>1. jobs'[j].results # NoResults
    <3>1. j \in Jobs /\ Finishes(p) /\ ResultsComplete' /\ jobs'[j].status \in {"completed", "expired"}
      BY <1>6, FinishesStep, ResultParts DEF Finishes
    <3>2. PICK outcome \in Outcome : jobs'[j].results = Append(workers[p].out, outcome)
      BY <1>6 DEF Finishes
    <3> QED
      BY <3>2, ResultParts, AppendAnswers
  <2> HIDE DEF j
  <2>2. /\ Cardinality(DOMAIN cache') <= CacheMax
        /\ \A k \in DOMAIN cache' :
              \/ k \in DOMAIN cache /\ cache'[k] = cache[k]
              \/ k = j /\ cache'[k].results = jobs'[j].results
    BY <1>1, <1>6, CacheResultEffect DEF CacheCoherent, j
  <2> QED
    BY <1>2, <2>1, <2>2 DEF CacheCoherent
<1>7. ASSUME NEW p \in Priorities, TakeJob(p)
      PROVE  UNCHANGED cache
  BY <1>7 DEF TakeJob
<1>8. ASSUME NEW p \in Priorities, Finishes(p)
      PROVE  CacheCoherent'
  BY <1>4, <1>6, <1>8 DEF Finishes
<1> QED
  BY <1>3, <1>4, <1>5, <1>7, <1>8 DEF Effect, CacheKept

CacheInv == ResultInv /\ CacheCoherent

\* CacheInv holds in every state.
LEMMA CacheInvariant == Spec => []CacheInv
<1>1. Init => CacheInv
  <2>1. ASSUME Init
        PROVE  DOMAIN cache = {}
    BY <2>1 DEF Init, EmptyCache
  <2>2. 0 <= CacheMax /\ Cardinality({}) = 0
    BY CacheAssumption, FS_EmptySet
  <2> QED
    BY <2>1, <2>2, ResultInit DEF CacheInv, CacheCoherent
<1>2. CacheInv /\ [Next]_vars => CacheInv'
  BY ResultStep, CacheStep DEF CacheInv
<1> QED
  BY <1>1, <1>2, PTL DEF Spec

\* The cache keeps to its size limit and never holds anything but the results the
\* job itself has.
THEOREM CacheIsCoherent == Spec => []CacheCoherent
<1>1. CacheInv => CacheCoherent
  BY DEF CacheInv
<1> QED
  BY <1>1, CacheInvariant, PTL

\* get_job_results hands out nothing but the complete results of a COMPLETED job,
\* from the cache or not.
THEOREM RepliesAreComplete == Spec => []RepliesComplete
<1>1. ASSUME CacheInv
      PROVE  RepliesComplete
  <2>1. /\ mgr \in ManagerState /\ mgr.jobs = jobs
    BY <1>1, MgrType DEF CacheInv, ResultInv, OrderInv, TypeInv, mgr
  <2>2. ASSUME NEW j \in Jobs, ResultsReply(j) # NoResults
        PROVE  jobs[j].status = "completed" /\ Len(ResultsReply(j)) = jobs[j].batches
    <3>1. GetJob(mgr, j, now).jobs[j].status = "completed"
      BY <2>2 DEF ResultsReply
    <3>2. jobs[j].status = "completed"
      BY <2>1, <3>1, GetJobEffect
    <3>3. ResultsReply(j) = jobs[j].results
      BY <1>1, <3>1 DEF ResultsReply, CacheHit, Fresh, CacheInv, CacheCoherent
    <3> QED
      BY <1>1, <2>2, <3>2, <3>3 DEF CacheInv, ResultInv, ResultsComplete
  <2> QED
    BY <2>2 DEF RepliesComplete
<1>2. CacheInv => RepliesComplete
  BY <1>1
<1> QED
  BY <1>2, CacheInvariant, PTL

-----------------------------------------------------------------------------
(* The count of completions: it grows exactly when a job gets its results.   *)

WithResults == {j \in Jobs : jobs[j].results # NoResults}

\* A completion is counted when its results are written, and nothing else is.
LEMMA CountStep ==
    ASSUME ResultInv, CompletedCountedOnce, [Next]_vars
    PROVE  CompletedCountedOnce'
<1>1. IsFiniteSet(WithResults) /\ metrics.completed_jobs = Cardinality(WithResults)
  BY ManagerAssumption, FS_Subset DEF WithResults, CompletedCountedOnce
<1>2. /\ mgr.metrics = metrics /\ mgr'.metrics = metrics'
  BY DEF mgr
<1>3. ASSUME metrics'.completed_jobs = metrics.completed_jobs,
             \A k \in Jobs : jobs'[k].results = jobs[k].results
      PROVE  CompletedCountedOnce'
  BY <1>1, <1>3 DEF CompletedCountedOnce, WithResults
<1>4. CASE Reads
  BY <1>2, <1>3, <1>4, ResultParts DEF Reads, Recorded
<1>5. ASSUME NEW j \in Jobs, Cancels(j)
      PROVE  CompletedCountedOnce'
  BY <1>2, <1>3, <1>5, ResultParts DEF Cancels, Recorded
<1>6. ASSUME NEW j \in Jobs, NEW p \in Priorities, Creates(j, p)
      PROVE  CompletedCountedOnce'
  <2>1. jobs[j].results = NoResults
    BY <1>6 DEF Creates, Known, ResultInv, ResultsComplete
  <2>2. \A k \in Jobs : jobs'[k].results = jobs[k].results
    BY <1>6, <2>1, ResultParts DEF Creates, OnlyJob
  <2> QED
    BY <1>3, <1>6, <2>2 DEF Creates
<1>7. ASSUME NEW p \in Priorities, TakeJob(p)
      PROVE  CompletedCountedOnce'
  BY <1>3, <1>7 DEF TakeJob
<1>8. ASSUME NEW p \in Priorities, Works(p)
      PROVE  CompletedCountedOnce'
  <2>1. \A k \in Jobs : jobs'[k].results = jobs[k].results
    BY <1>8, ResultParts DEF Works, AtWork, OnlyJob
  <2> QED
    BY <1>3, <1>8, <2>1 DEF Works
<1>9. ASSUME NEW p \in Priorities, Finishes(p)
      PROVE  CompletedCountedOnce'
  <2> DEFINE j == workers[p].job
  <2>1. /\ j \in Jobs /\ jobs[j].results = NoResults
        /\ \A k \in Jobs \ {j} : jobs'[k] = jobs[k]
        /\ metrics'.completed_jobs = metrics.completed_jobs + 1
    BY <1>9, ResultParts DEF Finishes, AtWork, OnlyJob, ResultInv, Unanswered, Answered
  <2>2. jobs'[j].results # NoResults
    <3>1. PICK outcome \in Outcome : jobs'[j].results = Append(workers[p].out, outcome)
      BY <1>9 DEF Finishes
    <3> QED
      BY <3>1, ResultParts, AppendAnswers
  <2> HIDE DEF j
  <2>3. {k \in Jobs : jobs'[k].results # NoResults} = WithResults \cup {j} /\ j \notin WithResults
    BY <2>1, <2>2 DEF WithResults
  <2>4. Cardinality(WithResults \cup {j}) = Cardinality(WithResults) + 1
    BY <1>1, <2>3, FS_AddElement
  <2> QED
    BY <1>1, <2>1, <2>3, <2>4 DEF CompletedCountedOnce
<1>10. Effect
  BY StepEffect DEF ResultInv
<1> QED
  BY <1>4, <1>5, <1>6, <1>7, <1>8, <1>9, <1>10 DEF Effect

\* completed_jobs counts every job that produced results, and counts it once.
THEOREM CompletionsCountedOnce == Spec => []CompletedCountedOnce
<1>1. Init => CompletedCountedOnce
  <2>1. ASSUME Init
        PROVE  {j \in Jobs : jobs[j].results # NoResults} = {} /\ metrics.completed_jobs = 0
    BY <2>1 DEF Init, NoSuchJob, NoMetrics
  <2> QED
    BY <2>1, FS_EmptySet DEF CompletedCountedOnce
<1>2. ResultInv /\ CompletedCountedOnce /\ [Next]_vars => CompletedCountedOnce'
  BY CountStep
<1> QED
  BY <1>1, <1>2, ResultInvariant, PTL DEF Spec

-----------------------------------------------------------------------------
(* The processor that ships does not suspend (PredictYields = FALSE): while  *)
(* a worker is inside predict_async_batch it keeps the event loop, so no     *)
(* other task runs, and the job it works on stays PROCESSING.                *)

Marked(p) == workers[p].pc = "predict" => jobs[workers[p].job].status = "processing"

OneAtWork == \A p, q \in Priorities :
    workers[p].pc = "predict" /\ workers[q].pc = "predict" => p = q

ShippedInv == ResultInv /\ (\A p \in Priorities : Marked(p)) /\ OneAtWork /\ ProcessingIsOwned

\* While nobody keeps the loop, no job is PROCESSING.
LEMMA LoopFreeMeans ==
    ASSUME ~PredictYields, ShippedInv, LoopFree
    PROVE  /\ \A p \in Priorities : workers[p].pc # "predict"
           /\ \A k \in Jobs : jobs[k].status # "processing"
<1>1. \A p \in Priorities : workers[p].pc # "predict"
  BY DEF LoopFree
<1>2. \A k \in Jobs : jobs[k].priority \in Priorities
  BY DEF ShippedInv, ResultInv, OrderInv, TypeInv, TypeOK, BatchJob
<1> QED
  BY <1>1, <1>2 DEF ShippedInv, ProcessingIsOwned

\* A step that leaves no worker inside predict_async_batch and no job PROCESSING
\* keeps the part of ShippedInv that is about them.
LEMMA NobodyAtWork ==
    ASSUME \A p \in Priorities : workers'[p].pc # "predict",
           \A k \in Jobs : jobs'[k].status # "processing"
    PROVE  (\A p \in Priorities : Marked(p))' /\ OneAtWork' /\ ProcessingIsOwned'
BY DEF Marked, OneAtWork, ProcessingIsOwned

\* When a worker acts on its job, no other is inside predict_async_batch, and no
\* other job is PROCESSING.
LEMMA OthersIdle ==
    ASSUME ~PredictYields, ShippedInv, NEW p \in Priorities,
           workers[p].pc = "predict" \/ LoopFree
    PROVE  /\ \A q \in Priorities \ {p} : workers[q].pc # "predict"
           /\ \A k \in Jobs : jobs[k].status = "processing" => k = workers[p].job
<1>1. CASE LoopFree
  BY <1>1, LoopFreeMeans
<1>2. CASE workers[p].pc = "predict"
  <2>1. \A k \in Jobs : jobs[k].priority \in Priorities
    BY DEF ShippedInv, ResultInv, OrderInv, TypeInv, TypeOK, BatchJob
  <2>2. \A q \in Priorities : workers[q].pc = "predict" => q = p
    BY <1>2 DEF ShippedInv, OneAtWork
  <2> QED
    BY <2>1, <2>2 DEF ShippedInv, ProcessingIsOwned
<1> QED
  BY <1>1, <1>2

\* Every step keeps ShippedInv.
LEMMA ShippedStep ==
    ASSUME ~PredictYields, ShippedInv, [Next]_vars
    PROVE  ShippedInv'
<1> DEFINE Good == (\A p \in Priorities : Marked(p))' /\ OneAtWork' /\ ProcessingIsOwned'
<1>1. ResultInv' /\ ResultInv
  BY ResultStep DEF ShippedInv
<1>2. Effect
  BY <1>1, StepEffect DEF ResultInv
<1>3. ASSUME Reads, HandsKept
      PROVE  Good
  <2>1. CASE LoopFree
    <3>1. /\ \A p \in Priorities : workers[p].pc # "predict"
          /\ \A k \in Jobs : jobs[k].status # "processing"
      BY <2>1, LoopFreeMeans
    <3>2. /\ \A p \in Priorities : workers'[p].pc # "predict"
          /\ \A k \in Jobs : jobs'[k].status # "processing"
      BY <1>3, <3>1 DEF Reads, HandsKept
    <3> QED
      BY <3>2, NobodyAtWork
  <2>2. CASE UNCHANGED <<jobs, metrics, workers>>
    BY <2>2 DEF ShippedInv, Marked, OneAtWork, ProcessingIsOwned
  <2> QED
    BY <1>3, <2>1, <2>2 DEF Reads
<1>4. ASSUME NEW j \in Jobs, Cancels(j), UNCHANGED workers
      PROVE  Good
  <2>1. /\ \A p \in Priorities : workers[p].pc # "predict"
        /\ \A k \in Jobs : jobs[k].status # "processing"
    BY <1>4, LoopFreeMeans DEF Cancels
  <2>2. \A k \in Jobs : jobs'[k].status # "processing"
    BY <1>1, <1>4, <2>1, ResultParts DEF Cancels, OnlyJob
  <2> QED
    BY <1>4, <2>1, <2>2, NobodyAtWork
<1>5. ASSUME NEW j \in Jobs, NEW p \in Priorities, Creates(j, p), UNCHANGED workers
      PROVE  Good
  <2>1. /\ \A q \in Priorities : workers[q].pc # "predict"
        /\ \A k \in Jobs : jobs[k].status # "processing"
    BY <1>5, LoopFreeMeans DEF Creates
  <2>2. jobs'[j].status \in {"pending", "failed"} /\ \A k \in Jobs \ {j} : jobs'[k] = jobs[k]
    BY <1>1, <1>5, ResultParts DEF Creates, OnlyJob
  <2>3. \A k \in Jobs : jobs'[k].status # "processing"
    BY <2>1, <2>2
  <2> QED
    BY <1>5, <2>1, <2>3, NobodyAtWork
<1>6. ASSUME NEW p \in Priorities, TakeJob(p)
      PROVE  Good
  <2>1. /\ \A q \in Priorities : workers[q].pc # "predict"
        /\ \A k \in Jobs : jobs[k].status # "processing"
    BY <1>6, LoopFreeMeans DEF TakeJob
  <2>2. \A q \in Priorities : workers'[q].pc # "predict"
    BY <1>1, <1>6, <2>1 DEF TakeJob, ResultInv, OrderInv, TypeInv, TypeOK, Worker
  <2>3. UNCHANGED jobs
    BY <1>6 DEF TakeJob
  <2> QED
    BY <2>1, <2>2, <2>3, NobodyAtWork
<1>7. ASSUME NEW p \in Priorities, Works(p) \/ Finishes(p)
      PROVE  Good
  <2> DEFINE j == workers[p].job
  <2>1. /\ workers[p].pc \in {"got", "predict"} /\ AtWork(p)
        /\ workers[p].pc = "predict" \/ LoopFree
        /\ \/ workers'[p].pc # "predict" /\ jobs'[j].status # "processing"
           \/ /\ workers'[p].pc = "predict" /\ workers'[p].job = j
              /\ jobs'[j].status = "processing"
    BY <1>7 DEF Works, Finishes
  <2>2. /\ \A q \in Priorities \ {p} : workers'[q] = workers[q] /\ workers[q].pc # "predict"
        /\ \A k \in Jobs : jobs[k].status = "processing" => k = j
    BY <2>1, OthersIdle DEF AtWork
  <2>3. /\ j \in Jobs /\ jobs'[j].priority = jobs[j].priority
        /\ \A k \in Jobs \ {j} : jobs'[k] = jobs[k]
    BY <1>1, <2>1, ResultParts DEF AtWork, OnlyJob, Kept
  <2>4. jobs[j].priority = p
    BY <1>1, <2>1, <2>3 DEF ResultInv, OrderInv, Tracked, QueueOrder, Holds
  <2> HIDE DEF j
  <2>5. (\A q \in Priorities : Marked(q))' /\ OneAtWork'
    BY <2>1, <2>2 DEF Marked, OneAtWork
  <2>6. ProcessingIsOwned'
    BY <2>1, <2>2, <2>3, <2>4 DEF ProcessingIsOwned
  <2> QED
    BY <2>5, <2>6
<1>8. Good
  BY <1>2, <1>3, <1>4, <1>5, <1>6, <1>7 DEF Effect
<1> QED
  BY <1>1, <1>8 DEF ShippedInv

\* ShippedInv holds in every state.
LEMMA ShippedInvariant ==
    ASSUME ~PredictYields
    PROVE  Spec => []ShippedInv
<1>1. Init => ShippedInv
  <2>1. ASSUME Init
        PROVE  /\ \A p \in Priorities : workers[p].pc # "predict"
               /\ \A k \in Jobs : jobs[k].status # "processing"
    BY <2>1, WorkerAtType DEF Init, NoSuchJob
  <2> QED
    BY <2>1, ResultInit DEF ShippedInv, Marked, OneAtWork, ProcessingIsOwned
<1>2. ShippedInv /\ [Next]_vars => ShippedInv'
  BY ShippedStep
<1> QED
  BY <1>1, <1>2, PTL DEF Spec

\* A job marked PROCESSING is in the hands of the worker of its priority: no
\* cancellation, expiry or stop() leaves one behind.
THEOREM ProcessingOwned ==
    ASSUME ~PredictYields
    PROVE  Spec => []ProcessingIsOwned
<1>1. ShippedInv => ProcessingIsOwned
  BY DEF ShippedInv
<1> QED
  BY <1>1, ShippedInvariant, PTL

-----------------------------------------------------------------------------
(* The life cycle.  Each kind of step is a step of JobLifecycle or none.     *)

\* Only the clock's own step changes the time.
LEMMA OnlyTickMovesTheClock ==
    ASSUME [Next]_vars
    PROVE  Tick \/ UNCHANGED now
BY DEF Next, Request, WorkerStep, SubmitBatchJob, SubmitRejected, GetJobStatus, GetJobResults,
       CancelJob, GetBatchMetrics, TakeJob, DropJob, StartJob, NextBatch, FinishJob,
       WorkerCancelled, Start, Stop, StopDone, Cleanup, vars

\* What changes between two states of one job at most.
StatusOf(f) == [k \in Jobs |-> f[k].status]
AnswerOf(f) == [k \in Jobs |-> f[k].results]
DeadlineOf(f) == [k \in Jobs |-> f[k].created_at + f[k].timeout]

\* Between the tables f and g the client's view of job j changed at most.
Seen(f, g, j) ==
    /\ StatusOf(g) = [StatusOf(f) EXCEPT ![j] = g[j].status]
    /\ AnswerOf(g) = [AnswerOf(f) EXCEPT ![j] = g[j].results]
    /\ DeadlineOf(g) = [DeadlineOf(f) EXCEPT ![j] = g[j].created_at + g[j].timeout]
    /\ g[j].results = f[j].results => AnswerOf(g) = AnswerOf(f)
    /\ g[j].created_at = f[j].created_at /\ g[j].timeout = f[j].timeout
         => DeadlineOf(g) = DeadlineOf(f)
    /\ StatusOf(f)[j] = f[j].status /\ AnswerOf(f)[j] = f[j].results
    /\ AnswerOf(g)[j] = g[j].results
    /\ DeadlineOf(f)[j] = f[j].created_at + f[j].timeout

\* A change of one job changes the client's view of that job only.
LEMMA OneJobSeen ==
    ASSUME NEW f, NEW g, NEW j \in Jobs, \A k \in Jobs \ {j} : g[k] = f[k]
    PROVE  Seen(f, g, j)
BY DEF Seen, StatusOf, AnswerOf, DeadlineOf

\* Jobs that expire on being read expire in the life cycle.
LEMMA ReadsIsExpire ==
    ASSUME ResultInv, Reads, UNCHANGED now
    PROVE  Lifecycle!Expire
<1> DEFINE late == {k \in Jobs : jobs'[k].status # jobs[k].status}
<1>1. \A k \in Jobs : /\ jobs[k].created_at \in Nat /\ jobs[k].timeout \in Nat
                      /\ jobs'[k].results = jobs[k].results
                      /\ jobs'[k].created_at = jobs[k].created_at
                      /\ jobs'[k].timeout = jobs[k].timeout
  BY ResultParts, TimesNat DEF Reads, Recorded, ResultInv, OrderInv, TypeInv
<1>2. now \in Nat
  BY DEF ResultInv, OrderInv, TypeInv, TypeOK
<1>3. \A k \in late : /\ jobs'[k].status = "expired" /\ jobs[k].status # "absent"
                      /\ jobs[k].created_at + jobs[k].timeout <= now
  BY <1>1, <1>2 DEF Reads, Known, Due
<1>4. late \in SUBSET {k \in Jobs : /\ StatusOf(jobs)[k] # "absent"
                                    /\ DeadlineOf(jobs)[k] <= now}
  BY <1>3 DEF StatusOf, DeadlineOf
<1>5. StatusOf(jobs') = [k \in Jobs |-> IF k \in late THEN "expired" ELSE StatusOf(jobs)[k]]
  BY <1>3 DEF StatusOf
<1>6. AnswerOf(jobs') = AnswerOf(jobs) /\ DeadlineOf(jobs') = DeadlineOf(jobs)
  BY <1>1 DEF AnswerOf, DeadlineOf
<1> HIDE DEF late
<1> QED
  BY <1>4, <1>5, <1>6 DEF Lifecycle!Expire, StatusOf, AnswerOf, DeadlineOf

\* What AtWork says of one job, as the life cycle sees it.
LEMMA AtWorkSeen ==
    ASSUME ResultInv, NEW p \in Priorities, AtWork(p), workers[p].pc \in {"got", "predict"}
    PROVE  /\ workers[p].job \in Jobs /\ Known(workers[p].job)
           /\ Seen(jobs, jobs', workers[p].job)
           /\ DeadlineOf(jobs') = DeadlineOf(jobs)
<1> DEFINE j == workers[p].job
<1>1. j \in Jobs /\ Known(j) /\ \A k \in Jobs \ {j} : jobs'[k] = jobs[k]
  BY ResultParts DEF AtWork, OnlyJob
<1>2. jobs'[j].created_at = jobs[j].created_at /\ jobs'[j].timeout = jobs[j].timeout
  BY DEF AtWork
<1> HIDE DEF j
<1>3. Seen(jobs, jobs', j)
  BY <1>1, OneJobSeen
<1>4. DeadlineOf(jobs') = DeadlineOf(jobs)
  BY <1>2, <1>3 DEF Seen
<1> QED
  BY <1>1, <1>3, <1>4 DEF j

\* A worker's step before the answer begins the job, expires it, or shows nothing.
LEMMA WorksRefines ==
    ASSUME ShippedInv, NEW p \in Priorities, Works(p), UNCHANGED now
    PROVE  [Lifecycle!Next]_(Lifecycle!vars)
<1>1. ResultInv /\ AtWork(p) /\ workers[p].pc \in {"got", "predict"}
  BY DEF Works, ShippedInv
<1>a. PICK j \in Jobs : j = workers[p].job
  BY <1>1, AtWorkSeen
<1>b. Known(j) /\ Seen(jobs, jobs', j) /\ DeadlineOf(jobs') = DeadlineOf(jobs)
  BY <1>1, <1>a, AtWorkSeen
<1>2. /\ Known(j)
      /\ StatusOf(jobs') = [StatusOf(jobs) EXCEPT ![j] = jobs'[j].status]
      /\ AnswerOf(jobs') = AnswerOf(jobs) /\ DeadlineOf(jobs') = DeadlineOf(jobs)
      /\ StatusOf(jobs)[j] = jobs[j].status
      /\ DeadlineOf(jobs)[j] = jobs[j].created_at + jobs[j].timeout
  <2>1. jobs'[j].results = jobs[j].results
    BY <1>a DEF Works
  <2> QED
    BY <1>b, <2>1 DEF Seen
<1>3. CASE jobs'[j].status = "expired" /\ Due(j)
  <2>1. jobs[j].created_at + jobs[j].timeout <= now
    BY <1>1, <1>2, <1>3, TimesNat DEF Due, ResultInv, OrderInv, TypeInv
  <2> DEFINE late == {j}
  <2>2. late \in SUBSET {k \in Jobs : StatusOf(jobs)[k] # "absent" /\ DeadlineOf(jobs)[k] <= now}
    BY <1>2, <2>1 DEF Known
  <2>3. StatusOf(jobs') = [k \in Jobs |-> IF k \in late THEN "expired" ELSE StatusOf(jobs)[k]]
    <3>1. StatusOf(jobs) = [k \in Jobs |-> StatusOf(jobs)[k]]
      BY DEF StatusOf
    <3> QED
      BY <1>2, <1>3, <3>1
  <2> HIDE DEF late
  <2>4. Lifecycle!Expire
    BY <1>2, <2>2, <2>3 DEF Lifecycle!Expire, StatusOf, AnswerOf, DeadlineOf
  <2> QED
    BY <2>4 DEF Lifecycle!Next
<1>4. CASE jobs'[j].status = "processing" /\ workers[p].pc = "got" /\ JobValid(mgr, j, now)
  <2>1. jobs[j].status = "pending"
    BY <1>1, <1>4, <1>a, ResultParts DEF ResultInv, Unanswered, Untouched, JobValid
  <2>2. Lifecycle!Begin(j)
    BY <1>2, <1>4, <2>1 DEF Lifecycle!Begin, StatusOf, AnswerOf, DeadlineOf
  <2> QED
    BY <1>2, <2>2 DEF Lifecycle!Next
<1>5. CASE jobs'[j].status = "processing" /\ workers[p].pc = "predict"
  <2>1. jobs[j].status = "processing"
    BY <1>5, <1>a DEF ShippedInv, Marked
  <2>2. [StatusOf(jobs) EXCEPT ![j] = "processing"] = StatusOf(jobs)
    BY <1>2, <2>1 DEF StatusOf
  <2> QED
    BY <1>2, <1>5, <2>2 DEF Lifecycle!vars, StatusOf, AnswerOf, DeadlineOf
<1>6. \/ jobs'[j].status = "expired" /\ Due(j)
      \/ /\ jobs'[j].status = "processing"
         /\ (workers[p].pc = "got" /\ JobValid(mgr, j, now)) \/ workers[p].pc = "predict"
  BY <1>a DEF Works
<1> QED
  BY <1>3, <1>4, <1>5, <1>6

\* An answer is published once, by a job that was PROCESSING.
LEMMA FinishesRefines ==
    ASSUME ShippedInv, ResultInv', NEW p \in Priorities, Finishes(p), UNCHANGED now
    PROVE  Lifecycle!Next
<1>1. ResultInv /\ AtWork(p) /\ workers[p].pc = "predict"
  BY DEF Finishes, ShippedInv
<1>a. PICK j \in Jobs : j = workers[p].job
  BY <1>1, AtWorkSeen
<1>b. Seen(jobs, jobs', j) /\ DeadlineOf(jobs') = DeadlineOf(jobs)
  BY <1>1, <1>a, AtWorkSeen
<1>2. /\ j \in Jobs
      /\ StatusOf(jobs') = [StatusOf(jobs) EXCEPT ![j] = jobs'[j].status]
      /\ AnswerOf(jobs') = [AnswerOf(jobs) EXCEPT ![j] = AnswerOf(jobs')[j]]
      /\ DeadlineOf(jobs') = DeadlineOf(jobs)
      /\ StatusOf(jobs)[j] = jobs[j].status /\ AnswerOf(jobs)[j] = jobs[j].results
      /\ AnswerOf(jobs')[j] = jobs'[j].results
      /\ DeadlineOf(jobs)[j] = jobs[j].created_at + jobs[j].timeout
  BY <1>b DEF Seen
<1>3. jobs[j].status = "processing" /\ jobs[j].results = NoResults
  BY <1>1, <1>a DEF ShippedInv, Marked, ResultInv, Unanswered, Answered
<1>4. jobs'[j].results \in Seq(Outcome) \ {NoResults}
  <2>1. PICK outcome \in Outcome : jobs'[j].results = Append(workers[p].out, outcome)
    BY <1>a DEF Finishes
  <2>2. Append(workers[p].out, outcome) # NoResults
    BY <1>1, ResultParts, AppendAnswers
  <2>3. jobs'[j].results \in Seq(Outcome)
    BY <1>2 DEF ResultInv, OrderInv, TypeInv, TypeOK, BatchJob
  <2> QED
    BY <2>1, <2>2, <2>3
<1>5. \/ jobs'[j].status = "completed"
      \/ jobs'[j].status = "expired" /\ jobs[j].created_at + jobs[j].timeout < now
  <2>1. \/ jobs'[j].status = "completed"
        \/ jobs'[j].status = "expired" /\ JobExpired(jobs[j], now)
    BY <1>a DEF Finishes
  <2>2. now \in Nat /\ jobs[j].created_at \in Nat /\ jobs[j].timeout \in Nat
    BY <1>1, <1>2, TimesNat DEF ResultInv, OrderInv, TypeInv
  <2> QED
    BY <2>1, <2>2 DEF JobExpired
<1>6. Lifecycle!Publish(j)
  BY <1>2, <1>4 DEF Lifecycle!Publish, AnswerOf
<1>7. Lifecycle!Finish(j)
  BY <1>2, <1>3, <1>5, <1>6 DEF Lifecycle!Finish, StatusOf, AnswerOf, DeadlineOf
<1> QED
  BY <1>2, <1>7 DEF Lifecycle!Next

\* A submitted job is accepted or refused, with a deadline in the future.
LEMMA CreatesRefines ==
    ASSUME ResultInv, ResultInv', NEW j \in Jobs, NEW p \in Priorities, Creates(j, p),
           UNCHANGED now
    PROVE  Lifecycle!Next
<1>1. /\ jobs[j].status = "absent" /\ jobs[j].results = NoResults
      /\ jobs'[j].results = NoResults /\ jobs'[j].status \in {"pending", "failed"}
      /\ jobs'[j].created_at = now /\ jobs'[j].timeout > 0
      /\ \A k \in Jobs \ {j} : jobs'[k] = jobs[k]
  BY ResultParts DEF Creates, OnlyJob, Known, ResultInv, ResultsComplete
<1>2. /\ StatusOf(jobs') = [StatusOf(jobs) EXCEPT ![j] = jobs'[j].status]
      /\ AnswerOf(jobs') = AnswerOf(jobs)
      /\ DeadlineOf(jobs') = [DeadlineOf(jobs) EXCEPT ![j] = jobs'[j].created_at + jobs'[j].timeout]
      /\ StatusOf(jobs)[j] = jobs[j].status
  <2>1. Seen(jobs, jobs', j)
    BY <1>1, OneJobSeen
  <2> QED
    BY <1>1, <2>1 DEF Seen
<1>3. DeadlineOf(jobs')[j] = jobs'[j].created_at + jobs'[j].timeout
  BY DEF DeadlineOf
<1>4. DeadlineOf(jobs')[j] > now
  <2>1. now \in Nat /\ jobs'[j].timeout \in Nat
    BY DEF Creates, ResultInv, OrderInv, TypeInv, TypeOK, BatchJob
  <2> QED
    BY <1>1, <1>3, <2>1
<1>5. Lifecycle!SetDeadline(j)
  BY <1>2, <1>3, <1>4 DEF Lifecycle!SetDeadline, DeadlineOf
<1>6. Lifecycle!Accept(j) \/ Lifecycle!Refuse(j)
  BY <1>1, <1>2, <1>5 DEF Lifecycle!Accept, Lifecycle!Refuse, StatusOf, AnswerOf
<1> QED
  BY <1>6 DEF Lifecycle!Next

\* Only a live job is cancelled.
LEMMA CancelsRefines ==
    ASSUME ResultInv, NEW j \in Jobs, Cancels(j), UNCHANGED now
    PROVE  Lifecycle!Next
<1>1. /\ jobs[j].status \in {"pending", "processing"} /\ jobs'[j].status = "cancelled"
      /\ jobs'[j].results = jobs[j].results /\ jobs'[j].created_at = jobs[j].created_at
      /\ jobs'[j].timeout = jobs[j].timeout
      /\ \A k \in Jobs \ {j} : jobs'[k] = jobs[k]
  BY ResultParts DEF Cancels, OnlyJob, Recorded, Live
<1>2. /\ StatusOf(jobs') = [StatusOf(jobs) EXCEPT ![j] = "cancelled"]
      /\ AnswerOf(jobs') = AnswerOf(jobs) /\ DeadlineOf(jobs') = DeadlineOf(jobs)
      /\ StatusOf(jobs)[j] = jobs[j].status
  <2>1. Seen(jobs, jobs', j)
    BY <1>1, OneJobSeen
  <2> QED
    BY <1>1, <2>1 DEF Seen
<1>3. Lifecycle!Cancel(j)
  BY <1>1, <1>2 DEF Lifecycle!Cancel, StatusOf, AnswerOf, DeadlineOf
<1> QED
  BY <1>3 DEF Lifecycle!Next

\* Every step of the service is a step of the life cycle or none.
LEMMA StepRefines ==
    ASSUME ShippedInv, ResultInv', [Next]_vars
    PROVE  [Lifecycle!Next]_(Lifecycle!vars)
<1>1. ResultInv /\ Effect
  BY StepEffect DEF ShippedInv, ResultInv
<1>2. CASE Tick
  <2>1. UNCHANGED jobs /\ now' = now + 1
    BY <1>2 DEF Tick
  <2>2. Lifecycle!Tick
    BY <2>1 DEF Lifecycle!Tick
  <2> QED
    BY <2>2 DEF Lifecycle!Next
<1>3. CASE UNCHANGED now
  <2>1. CASE Reads
    BY <1>1, <1>3, <2>1, ReadsIsExpire DEF Lifecycle!Next
  <2>2. ASSUME NEW p \in Priorities, TakeJob(p)
        PROVE  [Lifecycle!Next]_(Lifecycle!vars)
    <3>1. UNCHANGED jobs
      BY <2>2 DEF TakeJob
    <3> QED
      BY <1>3, <3>1 DEF Lifecycle!vars
  <2> QED
    BY <1>1, <1>3, <2>1, <2>2, WorksRefines, FinishesRefines, CreatesRefines, CancelsRefines
       DEF Effect
<1> QED
  BY <1>2, <1>3, OnlyTickMovesTheClock

\* With the processor that ships, the service implements JobLifecycle: no job is
\* processed after it was cancelled, revived after it expired, or answered twice.
THEOREM LifecycleImplemented ==
    ASSUME ~PredictYields
    PROVE  Spec => ImplementsLifecycle
<1>1. Init => Lifecycle!Init
  <2>1. ASSUME Init
        PROVE  /\ [k \in Jobs |-> jobs[k].status] = [k \in Jobs |-> "absent"]
               /\ [k \in Jobs |-> jobs[k].results] = [k \in Jobs |-> NoResults]
               /\ [k \in Jobs |-> jobs[k].created_at + jobs[k].timeout] = [k \in Jobs |-> 0]
               /\ now = 0
    BY <2>1 DEF Init, NoSuchJob
  <2> QED
    BY <2>1 DEF Lifecycle!Init
<1>2. ShippedInv /\ ShippedInv' /\ [Next]_vars => [Lifecycle!Next]_(Lifecycle!vars)
  BY StepRefines DEF ShippedInv
<1> QED
  BY <1>1, <1>2, ShippedInvariant, PTL DEF Spec, ImplementsLifecycle, Lifecycle!Spec

-----------------------------------------------------------------------------
(* The counters.  As long as nothing is late, every step that touches a job  *)
(* moves the counters with its status.                                       *)

\* The jobs of the table f whose status is one of S.
InStatus(f, S) == {k \in Jobs : f[k].status \in S}

\* From table f to g the number of jobs in a status of S changes by job j alone.
CountMoves(f, g, j, S) ==
    /\ Cardinality(InStatus(g, S))
         = Cardinality(InStatus(f, S)) - One(f[j].status \in S) + One(g[j].status \in S)
    /\ Cardinality(InStatus(f, S)) \in Nat

\* A change of one job changes the number of jobs in a status by that job.
LEMMA OneJobCounted ==
    ASSUME NEW f, NEW g, NEW j \in Jobs, \A k \in Jobs \ {j} : g[k] = f[k], NEW S
    PROVE  CountMoves(f, g, j, S)
<1> DEFINE rest == {k \in Jobs \ {j} : f[k].status \in S}
<1>1. IsFiniteSet(rest) /\ Cardinality(rest) \in Nat /\ j \notin rest
  BY ManagerAssumption, FS_Subset, FS_CardinalityType
<1>2. Cardinality(rest \cup {j}) = Cardinality(rest) + 1
  BY <1>1, FS_AddElement
<1>3. InStatus(f, S) = IF f[j].status \in S THEN rest \cup {j} ELSE rest
  BY DEF InStatus
<1>4. InStatus(g, S) = IF g[j].status \in S THEN rest \cup {j} ELSE rest
  BY DEF InStatus
<1> HIDE DEF rest
<1> QED
  BY <1>1, <1>2, <1>3, <1>4 DEF One, CountMoves

\* The counters are the numbers they are named after.
Counted(f, m) ==
    /\ m.total_jobs = Cardinality(Jobs \ InStatus(f, {"absent"}))
    /\ m.active_jobs = Cardinality(InStatus(f, Live))
    /\ m.completed_jobs = Cardinality(InStatus(f, {"completed"}))
    /\ m.failed_jobs = Cardinality(InStatus(f, {"failed"}))

\* A call that moves the counters with the status of its job keeps them right.
LEMMA FollowingCounts ==
    ASSUME NEW j \in Jobs, Follows(mgr, mgr', j), Counted(jobs, metrics)
    PROVE  Counted(jobs', metrics')
<1>1. mgr.jobs = jobs /\ mgr'.jobs = jobs' /\ mgr.metrics = metrics /\ mgr'.metrics = metrics'
  BY DEF mgr
<1>2. \A k \in Jobs \ {j} : jobs'[k] = jobs[k]
  BY <1>1 DEF Follows, OnlyJob
<1> DEFINE old == jobs[j].status
           new == jobs'[j].status
<1>0. \A S : CountMoves(jobs, jobs', j, S)
  BY <1>2, OneJobCounted
<1>3. /\ Cardinality(InStatus(jobs', {"absent"}))
            = Cardinality(InStatus(jobs, {"absent"})) - One(old = "absent") + One(new = "absent")
      /\ Cardinality(InStatus(jobs, {"absent"})) \in Nat
  <2>1. CountMoves(jobs, jobs', j, {"absent"})
    BY <1>0
  <2>2. old \in {"absent"} <=> old = "absent"
    OBVIOUS
  <2>3. new \in {"absent"} <=> new = "absent"
    OBVIOUS
  <2> QED
    BY <2>1, <2>2, <2>3 DEF CountMoves, One
<1>4. /\ Cardinality(InStatus(jobs', Live))
            = Cardinality(InStatus(jobs, Live)) - One(old \in Live) + One(new \in Live)
      /\ Cardinality(InStatus(jobs, Live)) \in Nat
  <2>1. CountMoves(jobs, jobs', j, Live)
    BY <1>0
  <2> QED
    BY <2>1 DEF CountMoves
<1>5. /\ Cardinality(InStatus(jobs', {"completed"}))
            = Cardinality(InStatus(jobs, {"completed"})) - One(old = "completed") + One(new = "completed")
      /\ Cardinality(InStatus(jobs, {"completed"})) \in Nat
  <2>1. CountMoves(jobs, jobs', j, {"completed"})
    BY <1>0
  <2>2. old \in {"completed"} <=> old = "completed"
    OBVIOUS
  <2>3. new \in {"completed"} <=> new = "completed"
    OBVIOUS
  <2> QED
    BY <2>1, <2>2, <2>3 DEF CountMoves, One
<1>6. /\ Cardinality(InStatus(jobs', {"failed"}))
            = Cardinality(InStatus(jobs, {"failed"})) - One(old = "failed") + One(new = "failed")
      /\ Cardinality(InStatus(jobs, {"failed"})) \in Nat
  <2>1. CountMoves(jobs, jobs', j, {"failed"})
    BY <1>0
  <2>2. old \in {"failed"} <=> old = "failed"
    OBVIOUS
  <2>3. new \in {"failed"} <=> new = "failed"
    OBVIOUS
  <2> QED
    BY <2>1, <2>2, <2>3 DEF CountMoves, One
<1>7. ASSUME NEW f
      PROVE  /\ Cardinality(Jobs \ InStatus(f, {"absent"}))
                    = Cardinality(Jobs) - Cardinality(InStatus(f, {"absent"}))
             /\ Cardinality(InStatus(f, {"absent"})) \in Nat
  <2>1. Jobs \cap InStatus(f, {"absent"}) = InStatus(f, {"absent"})
    BY DEF InStatus
  <2>2. InStatus(f, {"absent"}) \subseteq Jobs
    BY DEF InStatus
  <2> QED
    BY <2>1, <2>2, ManagerAssumption, FS_Difference, FS_Subset, FS_CardinalityType
<1>8. Cardinality(Jobs) \in Nat
  BY ManagerAssumption, FS_CardinalityType
<1>9. Cardinality(Jobs \ InStatus(jobs', {"absent"}))
        = Cardinality(Jobs \ InStatus(jobs, {"absent"})) + One(old = "absent") - One(new = "absent")
  <2>1. One(old = "absent") \in Int /\ One(new = "absent") \in Int
    BY DEF One
  <2>2. Cardinality(Jobs \ InStatus(jobs', {"absent"}))
          = Cardinality(Jobs) - Cardinality(InStatus(jobs', {"absent"}))
    BY <1>7
  <2>3. Cardinality(Jobs \ InStatus(jobs, {"absent"}))
          = Cardinality(Jobs) - Cardinality(InStatus(jobs, {"absent"}))
    BY <1>7
  <2> HIDE DEF old, new
  <2> QED
    BY <1>3, <1>8, <2>1, <2>2, <2>3
<1>10. /\ metrics'.total_jobs = metrics.total_jobs + One(old = "absent") - One(new = "absent")
       /\ metrics'.active_jobs = metrics.active_jobs - One(old \in Live) + One(new \in Live)
       /\ metrics'.completed_jobs
             = metrics.completed_jobs - One(old = "completed") + One(new = "completed")
       /\ metrics'.failed_jobs = metrics.failed_jobs - One(old = "failed") + One(new = "failed")
  BY <1>1 DEF Follows
<1> HIDE DEF old, new
<1> QED
  BY <1>4, <1>5, <1>6, <1>9, <1>10 DEF Counted

\* If nothing is late after a step, nothing was before.
LEMMA NothingLateBefore ==
    ASSUME ResultInv, ResultInv', [Next]_vars, NothingLate'
    PROVE  NothingLate
<1>1. now \in Nat /\ now' \in Nat /\ now <= now'
  <2>1. now \in Nat
    BY DEF ResultInv, OrderInv, TypeInv, TypeOK
  <2> QED
    BY <2>1, OnlyTickMovesTheClock DEF Tick
<1>2. ASSUME NEW k \in Jobs, jobs[k].status # "absent"
      PROVE  /\ jobs'[k].status # "absent" /\ jobs'[k].created_at = jobs[k].created_at
             /\ jobs'[k].timeout = jobs[k].timeout
  <2>1. Effect
    BY StepEffect DEF ResultInv
  <2>2. CASE Reads
    BY <1>2, <2>2, ResultParts DEF Reads, Kept, Recorded
  <2>3. ASSUME NEW j \in Jobs, Cancels(j)
        PROVE  /\ jobs'[k].status # "absent" /\ jobs'[k].created_at = jobs[k].created_at
               /\ jobs'[k].timeout = jobs[k].timeout
    BY <1>2, <2>3, ResultParts DEF Cancels, Kept, Recorded
  <2>4. ASSUME NEW j \in Jobs, NEW p \in Priorities, Creates(j, p)
        PROVE  jobs'[k] = jobs[k]
    BY <1>2, <2>4, ResultParts DEF Creates, OnlyJob, Known
  <2>5. ASSUME NEW p \in Priorities, TakeJob(p)
        PROVE  jobs'[k] = jobs[k]
    BY <2>5 DEF TakeJob
  <2>6. ASSUME NEW p \in Priorities, AtWork(p)
        PROVE  /\ jobs'[k].status # "absent" /\ jobs'[k].created_at = jobs[k].created_at
               /\ jobs'[k].timeout = jobs[k].timeout
    BY <1>2, <2>6, ResultParts DEF AtWork, OnlyJob, Kept
  <2> QED
    BY <1>2, <2>1, <2>2, <2>3, <2>4, <2>5, <2>6 DEF Effect, Works, Finishes
<1>3. \A k \in Jobs : jobs[k].created_at \in Nat /\ jobs[k].timeout \in Nat
  BY TimesNat DEF ResultInv, OrderInv, TypeInv
<1> QED
  BY <1>1, <1>2, <1>3 DEF NothingLate

\* A job that is not late does not expire when it is read, or between batches.
LEMMA NotLate ==
    ASSUME ResultInv, NothingLate, NEW j \in Jobs, Known(j)
    PROVE  /\ ~JobExpired(jobs[j], now) /\ ~TimedOut(jobs[j])
           /\ \A job : job.created_at = jobs[j].created_at /\ job.timeout = jobs[j].timeout
                  => ~JobExpired(job, now) /\ ~TimedOut(job)
<1>1. now \in Nat /\ jobs[j].created_at \in Nat /\ jobs[j].timeout \in Nat
  BY TimesNat DEF ResultInv, OrderInv, TypeInv
<1>2. now - jobs[j].created_at < jobs[j].timeout
  BY DEF NothingLate, Known
<1> QED
  BY <1>1, <1>2 DEF JobExpired, TimedOut

\* The checkpoint with time left changes no job and no counter.
LEMMA CheckpointIdle ==
    ASSUME NEW s \in ManagerState, NEW p, NEW out, Checkpoint(s, p, out),
           ~TimedOut(s.jobs[workers[p].job]), ~JobExpired(s.jobs[workers[p].job], now)
    PROVE  mgr' = s
<1>1. Commit(GetJob(s, workers[p].job, now))
  BY DEF Checkpoint
<1>2. GetJob(s, workers[p].job, now) = s
  BY DEF GetJob
<1> QED
  BY <1>1, <1>2, CommitMgr

\* As long as nothing is late, every step keeps the counters right.
LEMMA CountersStep ==
    ASSUME ~PredictYields, ShippedInv, ResultInv', NothingLate, Counted(jobs, metrics),
           [Next]_vars
    PROVE  Counted(jobs', metrics')
<1>a. /\ mgr \in ManagerState /\ now \in Nat /\ mgr.jobs = jobs /\ mgr.metrics = metrics
      /\ mgr'.jobs = jobs' /\ mgr'.metrics = metrics'
      /\ ResultInv /\ TypeInv
  BY MgrType DEF ShippedInv, ResultInv, OrderInv, TypeInv, TypeOK, mgr
<1>b. ASSUME UNCHANGED <<jobs, metrics>>
      PROVE  Counted(jobs', metrics')
  BY <1>b
<1>c. ASSUME NEW p \in Priorities, workers[p].pc \in {"got", "predict"}
      PROVE  workers[p].job \in Jobs /\ Known(workers[p].job)
  BY <1>a, <1>c, ResultParts
<1>1. ASSUME NEW j \in Jobs, NEW p \in Priorities, NEW b \in 1..MaxBatches,
             NEW t \in Timeouts, SubmitBatchJob(j, p, b, t) \/ SubmitRejected(j, p, b, t)
      PROVE  Counted(jobs', metrics')
  <2> DEFINE new == Created(j, p, b, t)
             failed == UpdateJobStatus(new, j, "failed")
  <2>1. b \in Nat /\ t \in Nat
    BY AsyncBatchAssumption
  <2>2. mgr.jobs[j].status = "absent"
    BY <1>1, <1>a DEF SubmitBatchJob, SubmitRejected
  <2>3. new \in ManagerState /\ Follows(mgr, new, j)
    BY <1>a, <2>1, <2>2, CreateJobType, CreateFollows DEF Created
  <2>4. new.jobs[j].status = "pending"
    BY <1>a, <2>1, CreateJobEffect DEF Created
  <2>5. failed \in ManagerState /\ Follows(new, failed, j)
    BY <2>3, <2>4, UpdateJobStatusType, UpdateFollows DEF BatchJobStatus
  <2>6. Commit(new) \/ Commit(failed)
    BY <1>1 DEF SubmitBatchJob, SubmitRejected
  <2> HIDE DEF new, failed
  <2>7. Follows(mgr, failed, j)
    BY <1>a, <2>3, <2>5, FollowsTransitive
  <2>8. mgr' = new \/ mgr' = failed
    BY <2>3, <2>5, <2>6, CommitMgr
  <2>9. Follows(mgr, mgr', j)
    BY <2>3, <2>7, <2>8
  <2> QED
    BY <2>9, FollowingCounts
<1>2. ASSUME NEW j \in Jobs, GetJobStatus(j) \/ GetJobResults(j)
      PROVE  Counted(jobs', metrics')
  <2>1. Commit(GetJob(mgr, j, now)) /\ Known(j)
    BY <1>2 DEF GetJobStatus, GetJobResults, Known
  <2>2. GetJob(mgr, j, now) = mgr
    BY <1>a, <2>1, NotLate DEF GetJob
  <2>3. UNCHANGED <<jobs, metrics>>
    BY <1>a, <2>1, <2>2 DEF Commit
  <2> QED
    BY <1>b, <2>3
<1>3. ASSUME NEW j \in Jobs, CancelJob(j)
      PROVE  Counted(jobs', metrics')
  <2> DEFINE gone == CancelledJob(mgr, j)
  <2>1. Cancellable(mgr, j) /\ Commit(gone)
    BY <1>3 DEF CancelJob
  <2>2. gone \in ManagerState /\ Follows(mgr, gone, j)
    BY <1>a, <2>1, CancelledJobType, CancelFollows
  <2> HIDE DEF gone
  <2>3. Follows(mgr, mgr', j)
    BY <2>1, <2>2, CommitMgr
  <2> QED
    BY <2>3, FollowingCounts
<1>4. CASE GetBatchMetrics
  <2>1. /\ UNCHANGED jobs
        /\ metrics'.total_jobs = metrics.total_jobs
        /\ metrics'.active_jobs = metrics.active_jobs
        /\ metrics'.completed_jobs = metrics.completed_jobs
        /\ metrics'.failed_jobs = metrics.failed_jobs
    BY <1>4, <1>a DEF GetBatchMetrics, TypeInv, TypeOK, ProcessingMetrics
  <2> QED
    BY <2>1 DEF Counted
<1>5. ASSUME NEW p \in Priorities, DropJob(p)
      PROVE  Counted(jobs', metrics')
  <2>1. /\ Commit(AfterValidityCheck(mgr, workers[p].job, now))
        /\ workers[p].job \in Jobs /\ Known(workers[p].job)
    BY <1>5, <1>c DEF DropJob
  <2>2. AfterValidityCheck(mgr, workers[p].job, now) = mgr
    BY <1>a, <2>1, NotLate DEF AfterValidityCheck
  <2>3. UNCHANGED <<jobs, metrics>>
    BY <1>a, <2>1, <2>2 DEF Commit
  <2> QED
    BY <1>b, <2>3
<1>6. ASSUME NEW p \in Priorities, StartJob(p)
      PROVE  Counted(jobs', metrics')
  <2> DEFINE j == workers[p].job
             begun == UpdateJobStatus(mgr, j, "processing")
  <2>1. /\ workers[p].pc = "got" /\ Checkpoint(begun, p, <<>>) /\ JobValid(mgr, j, now)
        /\ j \in Jobs /\ Known(j)
    BY <1>6, <1>c DEF StartJob
  <2>2. mgr.jobs[j].status = "pending"
    BY <1>a, <2>1 DEF ResultInv, Unanswered, Untouched, JobValid
  <2>3. begun \in ManagerState /\ Follows(mgr, begun, j) /\ Recorded(mgr, begun)
    BY <1>a, <2>1, <2>2, UpdateJobStatusType, UpdateFollows, UpdateRecords DEF BatchJobStatus
  <2> HIDE DEF begun
  <2>4. ~TimedOut(begun.jobs[j]) /\ ~JobExpired(begun.jobs[j], now)
    BY <1>a, <2>1, <2>3, NotLate DEF Recorded
  <2>5. mgr' = begun
    BY <2>1, <2>3, <2>4, CheckpointIdle
  <2>6. \E k \in Jobs : Follows(mgr, mgr', k)
    BY <2>1, <2>3, <2>5
  <2> QED
    BY <2>6, FollowingCounts
<1>7. ASSUME NEW p \in Priorities, NEW outcome \in Outcome, NextBatch(p, outcome)
      PROVE  Counted(jobs', metrics')
  <2> DEFINE j == workers[p].job
             s == Progress(p, outcome).state
             out == Progress(p, outcome).out
  <2>1. /\ workers[p].pc = "predict" /\ Checkpoint(s, p, out) /\ Answerable(p)
        /\ j \in Jobs /\ Known(j)
    BY <1>7, <1>c DEF NextBatch, Answerable
  <2>2. mgr.jobs[j].status = "processing"
    BY <1>a, <2>1 DEF ShippedInv, Marked
  <2>3. s \in ManagerState /\ out \in Seq(Outcome) /\ s = UpdateProgress(mgr, j, out)
    BY <1>a, <2>1, ProgressType
  <2> HIDE DEF s, out
  <2>4. Follows(mgr, s, j) /\ Progressed(mgr, s, j)
    BY <1>a, <2>1, <2>2, <2>3, ProgressFollows, ProgressEffect
  <2>5. ~TimedOut(s.jobs[j]) /\ ~JobExpired(s.jobs[j], now)
    BY <1>a, <2>1, <2>4, NotLate DEF Progressed
  <2>6. mgr' = s
    BY <2>1, <2>3, <2>5, CheckpointIdle
  <2>7. \E k \in Jobs : Follows(mgr, mgr', k)
    BY <2>1, <2>4, <2>6
  <2> QED
    BY <2>7, FollowingCounts
<1>8. ASSUME NEW p \in Priorities, NEW outcome \in Outcome, FinishJob(p, outcome)
      PROVE  Counted(jobs', metrics')
  <2> DEFINE j == workers[p].job
             s == Progress(p, outcome).state
             out == Progress(p, outcome).out
             done == CompleteJob(s, j, out)
  <2>1. /\ workers[p].pc = "predict" /\ Answerable(p) /\ j \in Jobs /\ Known(j)
        /\ Commit(GetJob(CompleteJob(GetJob(s, j, now), j, out), j, now))
    BY <1>8, <1>c DEF FinishJob, Answerable
  <2>2. mgr.jobs[j].status = "processing"
    BY <1>a, <2>1 DEF ShippedInv, Marked
  <2>3. s \in ManagerState /\ out \in Seq(Outcome) /\ s = UpdateProgress(mgr, j, out)
    BY <1>a, <2>1, ProgressType
  <2> HIDE DEF s, out
  <2>4. Follows(mgr, s, j) /\ Progressed(mgr, s, j)
    BY <1>a, <2>1, <2>2, <2>3, ProgressFollows, ProgressEffect
  <2>5. ~JobExpired(s.jobs[j], now)
    BY <1>a, <2>1, <2>4, NotLate DEF Progressed
  <2>6. GetJob(s, j, now) = s
    BY <2>5 DEF GetJob
  <2>7. s.jobs[j].status = "processing"
    BY <2>4 DEF Progressed
  <2>8. done \in ManagerState /\ Follows(s, done, j) /\ Answers(s, done, j, out)
    BY <2>1, <2>3, <2>7, CompleteJobType, CompleteFollows, CompleteEffect
  <2>9. Commit(GetJob(done, j, now))
    BY <2>1, <2>6
  <2> HIDE DEF done
  <2>10. ~JobExpired(done.jobs[j], now)
    BY <1>a, <2>1, <2>4, <2>8, NotLate DEF Progressed, Answers
  <2>11. mgr' = done
    BY <2>8, <2>9, <2>10, CommitMgr DEF GetJob
  <2>12. \E k \in Jobs : Follows(mgr, mgr', k)
    BY <1>a, <2>1, <2>3, <2>4, <2>8, <2>11, FollowsTransitive
  <2> QED
    BY <2>12, FollowingCounts
<1>9. CASE Cleanup
  <2>1. \A k \in Jobs : mgr.jobs[k].status # "absent" => ~JobExpired(mgr.jobs[k], now)
    BY <1>a, NotLate DEF Known
  <2>2. Overdue(mgr, now) = {}
    BY <2>1 DEF Overdue
  <2> QED
    BY <1>9, <2>2 DEF Cleanup
<1>10. ASSUME NEW p \in Priorities, TakeJob(p) \/ WorkerCancelled(p)
       PROVE  Counted(jobs', metrics')
  BY <1>b, <1>10 DEF TakeJob, WorkerCancelled
<1>11. CASE Start \/ Stop \/ StopDone \/ Tick \/ UNCHANGED vars
  BY <1>b, <1>11 DEF Start, Stop, StopDone, Tick, vars
<1> QED
  BY <1>1, <1>2, <1>3, <1>4, <1>5, <1>6, <1>7, <1>8, <1>9, <1>10, <1>11
     DEF Next, Request, WorkerStep

\* With the processor that ships, and while no job has reached its timeout, the
\* counters of get_batch_metrics are the numbers of jobs they are named after.
THEOREM CountersAreExact ==
    ASSUME ~PredictYields
    PROVE  Spec => []CountersExact
<1>1. CountersExact <=> (NothingLate => Counted(jobs, metrics))
  BY DEF CountersExact, Counted, InStatus, WithStatus
<1>2. Init => CountersExact
  <2>1. ASSUME Init
        PROVE  Counted(jobs, metrics)
    <3>1. /\ \A k \in Jobs : jobs[k].status = "absent"
          /\ metrics.total_jobs = 0 /\ metrics.active_jobs = 0
          /\ metrics.completed_jobs = 0 /\ metrics.failed_jobs = 0
      BY <2>1 DEF Init, NoSuchJob, NoMetrics
    <3>2. /\ Jobs \ InStatus(jobs, {"absent"}) = {} /\ InStatus(jobs, Live) = {}
          /\ InStatus(jobs, {"completed"}) = {} /\ InStatus(jobs, {"failed"}) = {}
      BY <3>1 DEF InStatus, Live
    <3> QED
      BY <3>1, <3>2, FS_EmptySet DEF Counted
  <2> QED
    BY <1>1, <2>1
<1>3. ShippedInv /\ ShippedInv' /\ CountersExact /\ [Next]_vars => CountersExact'
  <2>1. ASSUME ShippedInv, ShippedInv', CountersExact, [Next]_vars, NothingLate'
        PROVE  Counted(jobs', metrics')
    <3>1. NothingLate
      BY <2>1, NothingLateBefore DEF ShippedInv
    <3> QED
      BY <1>1, <2>1, <3>1, CountersStep DEF ShippedInv
  <2>2. CountersExact' <=> (NothingLate' => Counted(jobs', metrics'))
    BY DEF CountersExact, Counted, InStatus, WithStatus
  <2> QED
    BY <2>1, <2>2
<1> QED
  BY <1>2, <1>3, ShippedInvariant, PTL DEF Spec
=============================================================================
