--------------------------- MODULE AsyncBatchProofs ---------------------------
(***************************************************************************)
(* Theorems about AsyncBatch for all values of its constants, whether or   *)
(* not predict_async_batch suspends: type correctness, the order of the    *)
(* queues, and that no accepted job is lost.                               *)
(***************************************************************************)
EXTENDS AsyncBatch, BatchJobManagerProofs

-----------------------------------------------------------------------------
(* Type correctness.  TypeOK alone is not inductive: DropJob, StartJob and   *)
(* FinishJob write the entry of the worker's job, so a worker past its queue *)
(* must be known to have one.                                                *)

HandsFull ==
    \A p \in Priorities : workers[p].pc \in {"got", "predict"} => workers[p].job \in Jobs

TypeInv == TypeOK /\ HandsFull

\* The two manager variables make up a manager state.
LEMMA MgrType ==
    ASSUME TypeOK
    PROVE  mgr \in ManagerState
BY DEF TypeOK, mgr, ManagerState

\* Committing a manager state keeps the two variables typed.
LEMMA CommitType ==
    ASSUME NEW s \in ManagerState, Commit(s)
    PROVE  jobs' \in [Jobs -> BatchJob] /\ metrics' \in ProcessingMetrics
BY DEF Commit, ManagerState

WorkersOK == workers \in [Priorities -> Worker] /\ HandsFull

\* A worker without a job is a well-formed worker.
LEMMA WorkerAtType ==
    ASSUME NEW pc \in {"off", "wait"}
    PROVE  WorkerAt(pc) \in Worker /\ WorkerAt(pc).pc = pc
<1>1. <<>> \in Seq(Outcome)
  OBVIOUS
<1> QED
  BY <1>1 DEF WorkerAt, Worker

\* Setting one worker to a well-formed one leaves all workers well-formed.
LEMMA WorkersUpdate ==
    ASSUME WorkersOK, NEW p \in Priorities, NEW w \in Worker,
           w.pc \in {"got", "predict"} => w.job \in Jobs,
           workers' = [workers EXCEPT ![p] = w]
    PROVE  WorkersOK'
BY DEF WorkersOK, HandsFull

\* Parking a worker leaves all workers well-formed.
LEMMA ParkType ==
    ASSUME WorkersOK, NEW p \in Priorities, Park(p)
    PROVE  WorkersOK'
<1> DEFINE w == WorkerAt(IF service = "running" THEN "wait" ELSE "off")
<1>1. w \in Worker /\ w.pc \notin {"got", "predict"}
  BY WorkerAtType
<1>2. workers' = [workers EXCEPT ![p] = w]
  BY DEF Park
<1> HIDE DEF w
<1> QED
  BY <1>1, <1>2, WorkersUpdate

\* So does a pass through the checkpoint between two batches, which leaves a
\* manager state behind.
LEMMA CheckpointType ==
    ASSUME TypeInv, NEW p \in Priorities, workers[p].job \in Jobs,
           NEW s \in ManagerState, NEW out \in Seq(Outcome), Checkpoint(s, p, out)
    PROVE  jobs' \in [Jobs -> BatchJob] /\ metrics' \in ProcessingMetrics /\ WorkersOK'
<1> DEFINE j == workers[p].job
           seen == GetJob(s, j, now)
<1>1. now \in Nat /\ WorkersOK
  BY DEF TypeInv, TypeOK, WorkersOK
<1>2. seen \in ManagerState
  BY <1>1, GetJobType
<1>3. CASE TimedOut(s.jobs[j])
  <2>1. UpdateJobStatus(seen, j, "expired") \in ManagerState
    BY <1>2, UpdateJobStatusType DEF BatchJobStatus
  <2>2. Commit(UpdateJobStatus(seen, j, "expired")) /\ Park(p)
    BY <1>3 DEF Checkpoint
  <2> QED
    BY <1>1, <2>1, <2>2, CommitType, ParkType
<1>4. CASE ~TimedOut(s.jobs[j])
  <2> DEFINE w == [pc |-> "predict", job |-> j, out |-> out, cancel |-> FALSE]
  <2>1. Commit(seen) /\ workers' = [workers EXCEPT ![p] = w]
    BY <1>4 DEF Checkpoint
  <2>2. w \in Worker /\ w.job \in Jobs
    BY DEF Worker
  <2> HIDE DEF w, seen
  <2>3. WorkersOK'
    BY <1>1, <2>1, <2>2, WorkersUpdate
  <2> QED
    BY <1>2, <2>1, <2>3, CommitType
<1> QED
  BY <1>3, <1>4

\* CacheOK: cached entries belong to known identifiers and are well-formed.
CacheOK ==
    /\ DOMAIN cache \subseteq Jobs
    /\ \A j \in DOMAIN cache : cache[j] \in [results : Seq(Outcome), cached_at : Nat]

\* A lookup only removes entries.
LEMMA LookupType ==
    ASSUME CacheOK, NEW j \in Jobs, cache' = AfterLookup(cache, j, now)
    PROVE  CacheOK'
BY DEF CacheOK, AfterLookup, Restrict

\* cache_result removes entries and adds at most a well-formed one.
LEMMA CacheResultType ==
    ASSUME CacheOK, NEW j \in Jobs, NEW out \in Seq(Outcome), now \in Nat,
           cache' \in CacheResult(cache, j, out, now)
    PROVE  CacheOK'
<1>1. PICK old \in Oldest(cache, Fresh(cache, now)) :
         LET room == Restrict(cache, Fresh(cache, now) \ old)
         IN  cache' = IF j \in DOMAIN room THEN room
                      ELSE [k \in DOMAIN room \cup {j} |->
                              IF k = j THEN [results |-> out, cached_at |-> now]
                              ELSE room[k]]
  BY DEF CacheResult
<1> DEFINE kept == Fresh(cache, now) \ old
           room == [k \in kept |-> cache[k]]
<1>2. kept \subseteq DOMAIN cache
  BY DEF Fresh
<1>3. cache' = IF j \in kept THEN room
               ELSE [k \in kept \cup {j} |->
                        IF k = j THEN [results |-> out, cached_at |-> now] ELSE room[k]]
  BY <1>1 DEF Restrict
<1>4. [results |-> out, cached_at |-> now] \in [results : Seq(Outcome), cached_at : Nat]
  OBVIOUS
<1> HIDE DEF kept
<1> QED
  BY <1>2, <1>3, <1>4 DEF CacheOK

\* What a worker with a batch answered works on.
LEMMA ProgressType ==
    ASSUME TypeInv, NEW p \in Priorities, NEW outcome \in Outcome, Answerable(p)
    PROVE  /\ workers[p].job \in Jobs
           /\ Progress(p, outcome).out \in Seq(Outcome)
           /\ Progress(p, outcome).out = Append(workers[p].out, outcome)
           /\ Progress(p, outcome).state \in ManagerState
           /\ Progress(p, outcome).state
                = UpdateProgress(mgr, workers[p].job, Append(workers[p].out, outcome))
<1>1. workers[p] \in Worker /\ workers[p].job \in Jobs
  BY DEF TypeInv, TypeOK, HandsFull, Answerable
<1>2. Append(workers[p].out, outcome) \in Seq(Outcome)
  BY <1>1 DEF Worker
<1>3. UpdateProgress(mgr, workers[p].job, Append(workers[p].out, outcome)) \in ManagerState
  BY <1>1, <1>2, MgrType, UpdateProgressType DEF TypeInv
<1> QED
  BY <1>1, <1>2, <1>3 DEF Progress

\* The initial state is well-typed.
LEMMA TypeInit ==
    ASSUME Init
    PROVE  TypeInv
<1>1. jobs \in [Jobs -> BatchJob]
  BY NoSuchJobType DEF Init
<1>2. metrics \in ProcessingMetrics
  BY DEF Init, NoMetrics, ProcessingMetrics
<1>3. WorkersOK
  BY WorkerAtType DEF Init, WorkersOK, HandsFull
<1>4. queues \in [Priorities -> Seq(Jobs)]
  BY DEF Init
<1>5. CacheOK
  BY DEF Init, CacheOK, EmptyCache
<1> QED
  BY <1>1, <1>2, <1>3, <1>4, <1>5 DEF Init, TypeInv, TypeOK, WorkersOK, CacheOK

\* Every step keeps the types: the manager's operators do, a worker that takes a
\* job has one, and what enters the cache are the results of a known job.
LEMMA TypeStep ==
    ASSUME TypeInv, [Next]_vars
    PROVE  TypeInv'
<1> DEFINE Manager == jobs' \in [Jobs -> BatchJob] /\ metrics' \in ProcessingMetrics
           Queues == queues' \in [Priorities -> Seq(Jobs)]
           Rest == /\ service' \in {"stopped", "running", "stopping"}
                   /\ now' \in Nat /\ starts' \in Nat
<1>0. SUFFICES Manager /\ Queues /\ Rest /\ WorkersOK' /\ CacheOK'
  BY DEF TypeInv, TypeOK, WorkersOK, CacheOK
<1> USE DEF Manager, Queues, Rest
<1>a. /\ jobs \in [Jobs -> BatchJob] /\ metrics \in ProcessingMetrics
      /\ queues \in [Priorities -> Seq(Jobs)] /\ WorkersOK /\ CacheOK
      /\ service \in {"stopped", "running", "stopping"}
      /\ now \in Nat /\ starts \in Nat
      /\ mgr \in ManagerState
  BY MgrType DEF TypeInv, TypeOK, WorkersOK, CacheOK
<1>b. UNCHANGED workers => WorkersOK'
  BY <1>a DEF WorkersOK, HandsFull
<1>c. UNCHANGED cache => CacheOK'
  BY <1>a DEF CacheOK
<1>1. ASSUME NEW j \in Jobs, NEW p \in Priorities, NEW b \in 1..MaxBatches,
             NEW t \in Timeouts, SubmitBatchJob(j, p, b, t) \/ SubmitRejected(j, p, b, t)
      PROVE  Manager /\ Queues /\ Rest /\ WorkersOK' /\ CacheOK'
  <2>1. Created(j, p, b, t) \in ManagerState
    <3>1. b \in Nat /\ t \in Nat
      BY AsyncBatchAssumption
    <3> QED
      BY <1>a, <3>1, CreateJobType DEF Created
  <2>2. UpdateJobStatus(Created(j, p, b, t), j, "failed") \in ManagerState
    BY <2>1, UpdateJobStatusType DEF BatchJobStatus
  <2>3. CASE SubmitBatchJob(j, p, b, t)
    <3>1. Manager /\ Rest /\ WorkersOK' /\ CacheOK'
      BY <1>a, <1>b, <1>c, <2>1, <2>3, CommitType DEF SubmitBatchJob
    <3>2. Append(queues[p], j) \in Seq(Jobs)
      BY <1>a
    <3> QED
      BY <1>a, <2>3, <3>1, <3>2 DEF SubmitBatchJob
  <2>4. CASE SubmitRejected(j, p, b, t)
    BY <1>a, <1>b, <1>c, <2>2, <2>4, CommitType DEF SubmitRejected
  <2> QED
    BY <1>1, <2>3, <2>4
<1>2. ASSUME NEW j \in Jobs, GetJobStatus(j)
      PROVE  Manager /\ Queues /\ Rest /\ WorkersOK' /\ CacheOK'
  BY <1>a, <1>b, <1>c, <1>2, GetJobType, CommitType DEF GetJobStatus
<1>3. ASSUME NEW j \in Jobs, GetJobResults(j)
      PROVE  Manager /\ Queues /\ Rest /\ WorkersOK' /\ CacheOK'
  BY <1>a, <1>b, <1>3, GetJobType, CommitType, LookupType DEF GetJobResults
<1>4. ASSUME NEW j \in Jobs, CancelJob(j)
      PROVE  Manager /\ Queues /\ Rest /\ WorkersOK' /\ CacheOK'
  BY <1>a, <1>b, <1>c, <1>4, CancelledJobType, CommitType DEF CancelJob
<1>5. CASE GetBatchMetrics
  <2>1. QueueTotal \in Nat
    <3>1. \A p \in Priorities : IsFiniteSet({p} \X DOMAIN queues[p])
      <4>1. ASSUME NEW p \in Priorities
            PROVE  IsFiniteSet({p} \X DOMAIN queues[p])
        <5> DEFINE places == DOMAIN queues[p]
                   self == {p}
        <5>1. places = 1..Len(queues[p]) /\ Len(queues[p]) \in Nat
          BY <1>a
        <5>2. IsFiniteSet(places)
          BY <5>1, FS_Interval
        <5>3. IsFiniteSet(self)
          BY FS_Singleton, Zenon
        <5> HIDE DEF places, self
        <5>4. IsFiniteSet(self \X places)
          BY <5>2, <5>3, FS_Product
        <5> QED
          BY <5>4 DEF places, self
      <4> QED
        BY <4>1
    <3>2. IsFiniteSet({{p} \X DOMAIN queues[p] : p \in Priorities})
      <4> DEFINE part == [p \in Priorities |-> {p} \X DOMAIN queues[p]]
                 parts == {{p} \X DOMAIN queues[p] : p \in Priorities}
      <4>1. part \in Surjection(Priorities, parts)
        BY DEF Surjection
      <4>2. IsFiniteSet(Priorities)
        BY AsyncBatchAssumption
      <4> HIDE DEF part, parts
      <4>3. IsFiniteSet(parts)
        BY <4>1, <4>2, FS_Surjection
      <4> QED
        BY <4>3 DEF parts
    <3>3. IsFiniteSet(UNION {{p} \X DOMAIN queues[p] : p \in Priorities})
      BY <3>1, <3>2, FS_UNION
    <3> QED
      BY <3>3, FS_CardinalityType DEF QueueTotal
  <2>2. QueueTotal \in Int
    BY <2>1
  <2>3. metrics' = [metrics EXCEPT !.queue_size = QueueTotal]
    BY <1>5 DEF GetBatchMetrics
  <2>4. metrics' \in ProcessingMetrics
    BY <1>a, <2>2, <2>3 DEF ProcessingMetrics
  <2> QED
    BY <1>a, <1>b, <1>c, <1>5, <2>4 DEF GetBatchMetrics
<1>6. ASSUME NEW p \in Priorities, TakeJob(p)
      PROVE  Manager /\ Queues /\ Rest /\ WorkersOK' /\ CacheOK'
  <2> DEFINE w == [workers[p] EXCEPT !.pc = "got", !.job = Head(queues[p])]
  <2>1. Head(queues[p]) \in Jobs /\ Tail(queues[p]) \in Seq(Jobs)
    BY <1>a, <1>6 DEF TakeJob
  <2>2. w \in Worker /\ w.job \in Jobs
    BY <1>a, <2>1 DEF WorkersOK, Worker
  <2>3. workers' = [workers EXCEPT ![p] = w]
    BY <1>a, <1>6 DEF TakeJob, WorkersOK, Worker
  <2>4. WorkersOK'
    <3> HIDE DEF w
    <3> QED
      BY <1>a, <2>2, <2>3, WorkersUpdate
  <2> QED
    BY <1>a, <1>c, <1>6, <2>1, <2>4 DEF TakeJob
<1>7. ASSUME NEW p \in Priorities, DropJob(p)
      PROVE  Manager /\ Queues /\ Rest /\ WorkersOK' /\ CacheOK'
  <2>1. workers[p].job \in Jobs
    BY <1>7 DEF DropJob, TypeInv, HandsFull
  <2> QED
    BY <1>a, <1>c, <1>7, <2>1, AfterValidityCheckType, CommitType, ParkType DEF DropJob
<1>8. ASSUME NEW p \in Priorities, StartJob(p)
      PROVE  Manager /\ Queues /\ Rest /\ WorkersOK' /\ CacheOK'
  <2>1. workers[p].job \in Jobs
    BY <1>8 DEF StartJob, TypeInv, HandsFull
  <2>2. UpdateJobStatus(mgr, workers[p].job, "processing") \in ManagerState
    BY <1>a, <2>1, UpdateJobStatusType DEF BatchJobStatus
  <2>3. <<>> \in Seq(Outcome)
    OBVIOUS
  <2>4. Manager /\ WorkersOK'
    BY <1>8, <2>1, <2>2, <2>3, CheckpointType DEF StartJob
  <2> QED
    BY <1>a, <1>c, <1>8, <2>4 DEF StartJob
<1>9. ASSUME NEW p \in Priorities, NEW outcome \in Outcome, NextBatch(p, outcome)
      PROVE  Manager /\ Queues /\ Rest /\ WorkersOK' /\ CacheOK'
  <2>1. Answerable(p)
    BY <1>9 DEF NextBatch
  <2>2. Manager /\ WorkersOK'
    BY <1>9, <2>1, ProgressType, CheckpointType DEF NextBatch
  <2> QED
    BY <1>a, <1>c, <1>9, <2>2 DEF NextBatch
<1>10. ASSUME NEW p \in Priorities, NEW outcome \in Outcome, FinishJob(p, outcome)
       PROVE  Manager /\ Queues /\ Rest /\ WorkersOK' /\ CacheOK'
  <2> DEFINE j     == workers[p].job
             step  == Progress(p, outcome)
             final == GetJob(CompleteJob(GetJob(step.state, j, now), j, step.out), j, now)
  <2>1. j \in Jobs /\ step.out \in Seq(Outcome) /\ step.state \in ManagerState
    BY <1>10, ProgressType DEF FinishJob
  <2>2. final \in ManagerState
    BY <1>a, <2>1, GetJobType, CompleteJobType
  <2>3. /\ Commit(final)
        /\ IF final.jobs[j].status = "completed"
           THEN cache' \in CacheResult(cache, j, step.out, now)
           ELSE UNCHANGED cache
        /\ Park(p)
        /\ UNCHANGED <<queues, service, now, starts>>
    BY <1>10 DEF FinishJob
  <2> HIDE DEF j, step, final
  <2>4. CacheOK'
    BY <1>a, <1>c, <2>1, <2>3, CacheResultType
  <2> QED
    BY <1>a, <2>2, <2>3, <2>4, CommitType, ParkType
<1>11. ASSUME NEW p \in Priorities, WorkerCancelled(p)
       PROVE  Manager /\ Queues /\ Rest /\ WorkersOK' /\ CacheOK'
  <2>1. WorkersOK'
    BY <1>a, <1>11, WorkerAtType, WorkersUpdate DEF WorkerCancelled
  <2> QED
    BY <1>a, <1>c, <1>11, <2>1 DEF WorkerCancelled
<1>12. CASE Start
  <2>1. WorkersOK'
    BY <1>12, WorkerAtType DEF Start, WorkersOK, HandsFull
  <2> QED
    BY <1>a, <1>c, <1>12, <2>1 DEF Start
<1>13. CASE Stop
  <2>1. ASSUME NEW p \in Priorities
        PROVE  LET w == [workers[p] EXCEPT !.cancel = TRUE]
               IN  w \in Worker /\ w.pc = workers[p].pc /\ w.job = workers[p].job
    BY <1>a DEF WorkersOK, Worker
  <2>2. workers' = [p \in Priorities |-> [workers[p] EXCEPT !.cancel = TRUE]]
    BY <1>13 DEF Stop
  <2>3. WorkersOK'
    BY <1>a, <2>1, <2>2 DEF WorkersOK, HandsFull
  <2> QED
    BY <1>a, <1>c, <1>13, <2>3 DEF Stop
<1>14. CASE StopDone
  BY <1>a, <1>b, <1>c, <1>14 DEF StopDone
<1>15. CASE Cleanup
  BY <1>a, <1>b, <1>c, <1>15, CleanupExpiredType, CommitType DEF Cleanup
<1>16. CASE Tick
  BY <1>a, <1>b, <1>c, <1>16 DEF Tick
<1>17. CASE UNCHANGED vars
  BY <1>a, <1>b, <1>c, <1>17 DEF vars
<1> HIDE DEF Manager, Queues, Rest
<1> QED
  BY <1>1, <1>2, <1>3, <1>4, <1>5, <1>6, <1>7, <1>8, <1>9, <1>10, <1>11, <1>12,
     <1>13, <1>14, <1>15, <1>16, <1>17 DEF Next, Request, WorkerStep

\* Every state of the service is well-typed: no counter that counts upwards runs
\* below zero, and a worker past its queue always has a job.
THEOREM TypeCorrect == Spec => []TypeOK
<1>1. Init => TypeInv
  BY TypeInit
<1>2. TypeInv /\ [Next]_vars => TypeInv'
  BY TypeStep
<1>3. TypeInv => TypeOK
  BY DEF TypeInv
<1> QED
  BY <1>1, <1>2, <1>3, PTL DEF Spec

-----------------------------------------------------------------------------
(* Queues and tickets.  QueueOrder and NoJobLost need each other: that a job *)
(* is found in the queue of its priority is an argument about priorities.    *)
(* Both need to know that a queued or held identifier has been handed out    *)
(* (or submitting it again would change its ticket), that no ticket lies     *)
(* ahead of the counter, and that no worker is at work when start() replaces *)
(* them all.                                                                 *)

Known(j) == jobs[j].status # "absent"

Tracked ==
    /\ \A j \in Jobs : Ticket(j) <= metrics.total_jobs
    /\ \A p \in Priorities : \A i \in DOMAIN queues[p] : Known(queues[p][i])
    /\ \A p \in Priorities, j \in Jobs : Holds(p, j) => Known(j)
    /\ QueueOrder
    /\ NoJobLost

\* A step that leaves the queues alone, creates no job and gives no worker a job
\* keeps Tracked if it takes no PENDING job out of a worker's hand.
LEMMA FrameStep ==
    ASSUME TypeInv, Tracked, Kept(mgr, mgr'), UNCHANGED queues,
           \A p \in Priorities, j \in Jobs : Holds(p, j)' => Holds(p, j),
           \A p \in Priorities : workers[p].pc = "got" =>
              \/ workers'[p].pc = "got" /\ workers'[p].job = workers[p].job
              \/ jobs'[workers[p].job].status # "pending"
    PROVE  Tracked'
<1>1. \A j \in Jobs :
         /\ jobs'[j].priority = jobs[j].priority
         /\ jobs'[j].ticket = jobs[j].ticket
         /\ jobs'[j].status = "absent" <=> jobs[j].status = "absent"
         /\ jobs'[j].status = "pending" => jobs[j].status = "pending"
  BY DEF Kept, mgr
<1>2. metrics'.total_jobs = metrics.total_jobs
  BY DEF Kept, mgr
<1>3. \A p \in Priorities : \A i \in DOMAIN queues[p] : queues[p][i] \in Jobs
  BY DEF TypeInv, TypeOK
<1>4. (\A j \in Jobs : Ticket(j) <= metrics.total_jobs)'
  BY <1>1, <1>2 DEF Tracked, Ticket
<1>5. (\A p \in Priorities : \A i \in DOMAIN queues[p] : Known(queues[p][i]))'
  BY <1>1, <1>3 DEF Tracked, Known
<1>6. (\A p \in Priorities, j \in Jobs : Holds(p, j) => Known(j))'
  BY <1>1 DEF Tracked, Known
<1>7. QueueOrder'
  <2>1. ASSUME NEW p \in Priorities, NEW i \in DOMAIN queues[p]
        PROVE  jobs'[queues[p][i]].priority = p
    BY <1>1, <1>3 DEF Tracked, QueueOrder
  <2>2. ASSUME NEW p \in Priorities, NEW i \in DOMAIN queues[p], NEW k \in DOMAIN queues[p],
               i < k
        PROVE  jobs'[queues[p][i]].ticket < jobs'[queues[p][k]].ticket
    BY <1>1, <1>3, <2>2 DEF Tracked, QueueOrder, Ticket
  <2>3. ASSUME NEW p \in Priorities, NEW j \in Jobs, Holds(p, j)'
        PROVE  /\ jobs'[j].priority = p
               /\ \A i \in DOMAIN queues[p] : jobs'[j].ticket < jobs'[queues[p][i]].ticket
    BY <1>1, <1>3, <2>3 DEF Tracked, QueueOrder, Ticket
  <2> QED
    BY <2>1, <2>2, <2>3 DEF QueueOrder, Ticket
<1>8. NoJobLost'
  <2>1. ASSUME NEW j \in Jobs, jobs'[j].status = "pending"
        PROVE  \/ \E i \in DOMAIN queues[jobs'[j].priority] :
                     queues[jobs'[j].priority][i] = j
               \/ /\ workers'[jobs'[j].priority].pc = "got"
                  /\ workers'[jobs'[j].priority].job = j
    <3>1. jobs[j].priority \in Priorities
      BY DEF TypeInv, TypeOK, BatchJob
    <3> QED
      BY <1>1, <2>1, <3>1 DEF Tracked, NoJobLost
  <2> QED
    BY <2>1 DEF NoJobLost
<1> QED
  BY <1>4, <1>5, <1>6, <1>7, <1>8 DEF Tracked

\* Committing a manager state makes it the next one.
LEMMA CommitMgr ==
    ASSUME NEW s \in ManagerState, Commit(s)
    PROVE  mgr' = s
<1>1. s = [jobs |-> s.jobs, metrics |-> s.metrics]
  BY DEF ManagerState
<1> QED
  BY <1>1 DEF Commit, mgr

\* A parked worker holds nothing, and the others are as they were.
LEMMA ParkFrees ==
    ASSUME workers \in [Priorities -> Worker], NEW p \in Priorities, Park(p)
    PROVE  /\ workers'[p].pc \in {"off", "wait"}
           /\ \A q \in Priorities \ {p} : workers'[q] = workers[q]
           /\ \A q \in Priorities, j \in Jobs : Holds(q, j)' => Holds(q, j)
<1>1. workers'[p] = WorkerAt(IF service = "running" THEN "wait" ELSE "off")
  BY DEF Park
<1>2. workers'[p].pc \in {"off", "wait"}
  BY <1>1, WorkerAtType
<1>3. \A q \in Priorities \ {p} : workers'[q] = workers[q]
  BY DEF Park
<1> QED
  BY <1>2, <1>3 DEF Holds

\* The checkpoint keeps, and gives no worker another job.
LEMMA CheckpointKeeps ==
    ASSUME TypeInv, NEW p \in Priorities, workers[p].job \in Jobs,
           workers[p].pc \in {"got", "predict"},
           NEW s \in ManagerState, s.jobs[workers[p].job].status # "absent",
           NEW out \in Seq(Outcome), Checkpoint(s, p, out)
    PROVE  /\ Kept(s, mgr')
           /\ \A q \in Priorities \ {p} : workers'[q] = workers[q]
           /\ workers'[p].pc # "got"
           /\ \A q \in Priorities, j \in Jobs : Holds(q, j)' => Holds(q, j)
<1> DEFINE j == workers[p].job
           seen == GetJob(s, j, now)
<1>1. now \in Nat /\ workers \in [Priorities -> Worker]
  BY DEF TypeInv, TypeOK
<1>2. seen \in ManagerState /\ Kept(s, seen)
  BY <1>1, GetJobType, ReadingKeeps
<1>3. seen.jobs[j].status # "absent"
  BY <1>2 DEF Kept
<1>4. CASE TimedOut(s.jobs[j])
  <2> DEFINE last == UpdateJobStatus(seen, j, "expired")
  <2>1. last \in ManagerState /\ Kept(seen, last)
    BY <1>2, <1>3, UpdateJobStatusType, UpdateKeeps DEF BatchJobStatus
  <2>2. Commit(last) /\ Park(p)
    BY <1>4 DEF Checkpoint
  <2> HIDE DEF last, seen, j
  <2>3. Kept(s, mgr')
    BY <1>2, <2>1, <2>2, CommitMgr, KeptTransitive
  <2> QED
    BY <1>1, <2>2, <2>3, ParkFrees
<1>5. CASE ~TimedOut(s.jobs[j])
  <2>1. /\ Commit(seen)
        /\ workers' = [workers EXCEPT ![p] = [pc |-> "predict", job |-> j,
                                              out |-> out, cancel |-> FALSE]]
    BY <1>5 DEF Checkpoint
  <2>2. workers'[p] = [pc |-> "predict", job |-> j, out |-> out, cancel |-> FALSE]
    BY <1>1, <2>1
  <2>3. \A q \in Priorities \ {p} : workers'[q] = workers[q]
    BY <1>1, <2>1
  <2>4. \A q \in Priorities, k \in Jobs : Holds(q, k)' => Holds(q, k)
    BY <2>2, <2>3 DEF Holds
  <2> HIDE DEF seen, j
  <2>5. Kept(s, mgr')
    BY <1>2, <2>1, CommitMgr
  <2> QED
    BY <2>2, <2>3, <2>4, <2>5
<1> QED
  BY <1>4, <1>5

\* A job that create_job has just made extends Tracked, whether its queue takes it
\* or refuses it.
LEMMA CreationStep ==
    ASSUME TypeInv, Tracked, NEW j \in Jobs, jobs[j].status = "absent",
           NEW p \in Priorities,
           metrics'.total_jobs = metrics.total_jobs + 1,
           jobs'[j].status # "absent", jobs'[j].priority = p,
           jobs'[j].ticket = metrics.total_jobs + 1,
           \A k \in Jobs \ {j} : jobs'[k] = jobs[k],
           UNCHANGED workers,
           \/ queues' = [queues EXCEPT ![p] = Append(@, j)]
           \/ UNCHANGED queues /\ jobs'[j].status # "pending"
    PROVE  Tracked'
<1>1. /\ queues \in [Priorities -> Seq(Jobs)]
      /\ \A q \in Priorities : \A i \in DOMAIN queues[q] :
            queues[q][i] \in Jobs /\ queues[q][i] # j
  BY DEF TypeInv, TypeOK, Tracked, Known
<1>2. \A q \in Priorities, k \in Jobs : Holds(q, k)' => Holds(q, k) /\ k # j
  BY DEF Holds, Tracked, Known
<1>3. metrics.total_jobs \in Nat /\ \A k \in Jobs : jobs[k].ticket \in Nat
  BY DEF TypeInv, TypeOK, ProcessingMetrics, BatchJob
<1>4. ASSUME NEW q \in Priorities, NEW i \in DOMAIN queues'[q]
      PROVE  \/ /\ i \in DOMAIN queues[q] /\ queues'[q][i] = queues[q][i]
                /\ queues'[q][i] \in Jobs \ {j}
             \/ /\ q = p /\ queues'[q][i] = j /\ i = Len(queues[q]) + 1
                /\ DOMAIN queues'[q] = 1..(Len(queues[q]) + 1)
  <2>1. CASE queues' = [queues EXCEPT ![p] = Append(@, j)]
    <3>1. CASE q = p
      <4>1. queues'[q] = Append(queues[q], j)
        BY <1>1, <2>1, <3>1
      <4>2. queues[q] \in Seq(Jobs)
        BY <1>1
      <4>3. /\ DOMAIN queues'[q] = 1..(Len(queues[q]) + 1)
            /\ DOMAIN queues[q] = 1..Len(queues[q]) /\ Len(queues[q]) \in Nat
            /\ i \in 1..Len(queues[q]) => queues'[q][i] = queues[q][i]
            /\ i = Len(queues[q]) + 1 => queues'[q][i] = j
        BY <4>1, <4>2
      <4> QED
        BY <1>1, <3>1, <4>3
    <3>2. CASE q # p
      BY <1>1, <2>1, <3>2
    <3> QED
      BY <3>1, <3>2
  <2>2. CASE UNCHANGED queues
    BY <1>1, <2>2
  <2> QED
    BY <2>1, <2>2
<1>5. (\A k \in Jobs : Ticket(k) <= metrics.total_jobs)'
  <2>1. ASSUME NEW k \in Jobs
        PROVE  jobs'[k].ticket <= metrics'.total_jobs
    <3>1. CASE k = j
      BY <3>1, <1>3
    <3>2. CASE k # j
      BY <3>2, <1>3 DEF Tracked, Ticket
    <3> QED
      BY <3>1, <3>2
  <2> QED
    BY <2>1 DEF Ticket
<1>6. (\A q \in Priorities : \A i \in DOMAIN queues[q] : Known(queues[q][i]))'
  <2>1. ASSUME NEW q \in Priorities, NEW i \in DOMAIN queues'[q]
        PROVE  jobs'[queues'[q][i]].status # "absent"
    BY <1>4 DEF Tracked, Known
  <2> QED
    BY <2>1 DEF Known
<1>7. (\A q \in Priorities, k \in Jobs : Holds(q, k) => Known(k))'
  BY <1>2 DEF Tracked, Known
<1>8. QueueOrder'
  <2>1. ASSUME NEW q \in Priorities, NEW i \in DOMAIN queues'[q]
        PROVE  jobs'[queues'[q][i]].priority = q
    BY <1>4 DEF Tracked, QueueOrder
  <2>2. ASSUME NEW q \in Priorities, NEW i \in DOMAIN queues'[q], NEW k \in DOMAIN queues'[q],
               i < k
        PROVE  jobs'[queues'[q][i]].ticket < jobs'[queues'[q][k]].ticket
    <3>1. CASE queues'[q][i] = j
      <4>1. i = Len(queues[q]) + 1 /\ DOMAIN queues'[q] = 1..(Len(queues[q]) + 1)
        BY <1>4, <3>1
      <4>2. Len(queues[q]) \in Nat
        BY <1>1
      <4> QED
        BY <2>2, <4>1, <4>2
    <3>2. CASE queues'[q][i] # j /\ queues'[q][k] # j
      BY <1>4, <2>2, <3>2 DEF Tracked, QueueOrder, Ticket
    <3>3. CASE queues'[q][i] # j /\ queues'[q][k] = j
      <4>1. queues'[q][i] \in Jobs \ {j}
        BY <1>4, <3>3
      <4>2. jobs'[queues'[q][i]].ticket <= metrics.total_jobs
        BY <4>1 DEF Tracked, Ticket
      <4>3. jobs'[queues'[q][i]].ticket \in Nat
        BY <1>3, <4>1
      <4> QED
        BY <1>3, <3>3, <4>2, <4>3
    <3> QED
      BY <3>1, <3>2, <3>3
  <2>3. ASSUME NEW q \in Priorities, NEW k \in Jobs, Holds(q, k)'
        PROVE  /\ jobs'[k].priority = q
               /\ \A i \in DOMAIN queues'[q] : jobs'[k].ticket < jobs'[queues'[q][i]].ticket
    <3>1. Holds(q, k) /\ jobs'[k] = jobs[k]
      BY <1>2, <2>3
    <3>2. jobs[k].priority = q
      BY <3>1 DEF Tracked, QueueOrder
    <3>3. ASSUME NEW i \in DOMAIN queues'[q]
          PROVE  jobs[k].ticket < jobs'[queues'[q][i]].ticket
      <4>1. CASE queues'[q][i] = j
        <5>1. jobs[k].ticket <= metrics.total_jobs
          BY DEF Tracked, Ticket
        <5> QED
          BY <1>3, <4>1, <5>1
      <4>2. CASE queues'[q][i] # j
        BY <1>4, <3>1, <4>2 DEF Tracked, QueueOrder, Ticket
      <4> QED
        BY <4>1, <4>2
    <3> QED
      BY <3>1, <3>2, <3>3
  <2> QED
    BY <2>1, <2>2, <2>3 DEF QueueOrder, Ticket
<1>9. NoJobLost'
  <2>1. ASSUME NEW k \in Jobs, jobs'[k].status = "pending"
        PROVE  LET q == jobs'[k].priority
               IN  \/ \E i \in DOMAIN queues'[q] : queues'[q][i] = k
                   \/ workers'[q].pc = "got" /\ workers'[q].job = k
    <3>1. CASE k = j
      <4>1. queues' = [queues EXCEPT ![p] = Append(@, j)]
        BY <2>1, <3>1
      <4>2. queues'[p] = Append(queues[p], j) /\ queues[p] \in Seq(Jobs)
        BY <1>1, <4>1
      <4>3. Len(queues[p]) + 1 \in DOMAIN queues'[p] /\ queues'[p][Len(queues[p]) + 1] = j
        BY <4>2
      <4> QED
        BY <3>1, <4>3
    <3>2. CASE k # j
      <4> DEFINE q == jobs[k].priority
      <4>1. jobs'[k] = jobs[k] /\ q \in Priorities
        BY <3>2 DEF TypeInv, TypeOK, BatchJob
      <4>2. \/ \E i \in DOMAIN queues[q] : queues[q][i] = k
            \/ workers[q].pc = "got" /\ workers[q].job = k
        BY <2>1, <4>1 DEF Tracked, NoJobLost
      <4>3. ASSUME NEW i \in DOMAIN queues[q]
            PROVE  i \in DOMAIN queues'[q] /\ queues'[q][i] = queues[q][i]
        <5>1. queues[q] \in Seq(Jobs)
          BY <1>1, <4>1
        <5>2. queues'[q] = Append(queues[q], j) \/ queues'[q] = queues[q]
          BY <1>1, <4>1
        <5> HIDE DEF q
        <5> QED
          BY <5>1, <5>2
      <4> QED
        BY <4>1, <4>2, <4>3
    <3> QED
      BY <3>1, <3>2
  <2> QED
    BY <2>1 DEF NoJobLost
<1> QED
  BY <1>5, <1>6, <1>7, <1>8, <1>9 DEF Tracked

\* Taking the head of a queue moves its job into the worker's hand: the tickets
\* that remain are greater, and every other PENDING job is where it was.
LEMMA TakeStep ==
    ASSUME TypeInv, Tracked, NEW p \in Priorities, TakeJob(p)
    PROVE  Tracked'
<1> DEFINE head == Head(queues[p])
<1>1. /\ queues \in [Priorities -> Seq(Jobs)] /\ workers \in [Priorities -> Worker]
      /\ queues[p] # <<>> /\ workers[p].pc = "wait"
      /\ UNCHANGED <<jobs, metrics>>
  BY DEF TypeInv, TypeOK, TakeJob
<1>2. /\ head \in Jobs /\ head = queues[p][1] /\ 1 \in DOMAIN queues[p]
      /\ Len(queues[p]) \in Nat
      /\ DOMAIN queues[p] = 1..Len(queues[p])
  BY <1>1
<1>3. workers'[p].pc = "got" /\ workers'[p].job = head
  BY <1>1 DEF TakeJob, Worker
<1>4. \A q \in Priorities \ {p} : workers'[q] = workers[q] /\ queues'[q] = queues[q]
  BY <1>1 DEF TakeJob
<1>5. queues'[p] = Tail(queues[p])
  BY <1>1 DEF TakeJob
<1>6. ASSUME NEW i \in DOMAIN queues'[p]
      PROVE  /\ i \in Nat \ {0} /\ i + 1 \in DOMAIN queues[p]
             /\ queues'[p][i] = queues[p][i + 1]
  <2>1. queues[p] \in Seq(Jobs)
    BY <1>1
  <2> QED
    BY <1>1, <1>5, <2>1
<1>7. (\A j \in Jobs : Ticket(j) <= metrics.total_jobs)'
  BY <1>1 DEF Tracked, Ticket
<1>8. (\A q \in Priorities : \A i \in DOMAIN queues[q] : Known(queues[q][i]))'
  <2>1. ASSUME NEW q \in Priorities, NEW i \in DOMAIN queues'[q]
        PROVE  jobs[queues'[q][i]].status # "absent"
    BY <1>4, <1>6 DEF Tracked, Known
  <2> QED
    BY <1>1, <2>1 DEF Known
<1>9. ASSUME NEW q \in Priorities, NEW j \in Jobs, Holds(q, j)'
      PROVE  (q = p /\ j = head) \/ (q # p /\ Holds(q, j))
  <2> HIDE DEF head
  <2>1. workers'[q].job = j /\ workers'[q].pc \in {"got", "predict"}
    BY <1>9 DEF Holds
  <2> QED
    BY <1>3, <1>4, <2>1 DEF Holds
<1>10. (\A q \in Priorities, j \in Jobs : Holds(q, j) => Known(j))'
  <2>1. Known(head)
    BY <1>2 DEF Tracked
  <2> QED
    BY <1>1, <1>9, <2>1 DEF Tracked, Known
<1>11. QueueOrder'
  <2>1. ASSUME NEW q \in Priorities, NEW i \in DOMAIN queues'[q]
        PROVE  jobs[queues'[q][i]].priority = q
    BY <1>4, <1>6 DEF Tracked, QueueOrder
  <2>2. ASSUME NEW q \in Priorities, NEW i \in DOMAIN queues'[q], NEW k \in DOMAIN queues'[q],
               i < k
        PROVE  jobs[queues'[q][i]].ticket < jobs[queues'[q][k]].ticket
    <3>1. CASE q = p
      <4>1. i + 1 < k + 1
        BY <1>6, <2>2, <3>1
      <4> QED
        BY <1>6, <3>1, <4>1 DEF Tracked, QueueOrder, Ticket
    <3>2. CASE q # p
      BY <1>4, <2>2, <3>2 DEF Tracked, QueueOrder, Ticket
    <3> QED
      BY <3>1, <3>2
  <2>3. ASSUME NEW q \in Priorities, NEW j \in Jobs, Holds(q, j)'
        PROVE  /\ jobs[j].priority = q
               /\ \A i \in DOMAIN queues'[q] : jobs[j].ticket < jobs[queues'[q][i]].ticket
    <3>1. CASE q = p /\ j = head
      <4>1. jobs[j].priority = q
        BY <1>2, <3>1 DEF Tracked, QueueOrder
      <4>2. ASSUME NEW i \in DOMAIN queues'[p]
            PROVE  jobs[head].ticket < jobs[queues'[p][i]].ticket
        <5>1. 1 < i + 1
          BY <1>6
        <5> QED
          BY <1>2, <1>6, <5>1 DEF Tracked, QueueOrder, Ticket
      <4> QED
        BY <3>1, <4>1, <4>2
    <3>2. CASE q # p /\ Holds(q, j)
      BY <1>4, <3>2 DEF Tracked, QueueOrder, Ticket
    <3> QED
      BY <1>9, <2>3, <3>1, <3>2
  <2> QED
    BY <1>1, <2>1, <2>2, <2>3 DEF QueueOrder, Ticket
<1>12. NoJobLost'
  <2>1. ASSUME NEW j \in Jobs, jobs[j].status = "pending"
        PROVE  LET q == jobs[j].priority
               IN  \/ \E i \in DOMAIN queues'[q] : queues'[q][i] = j
                   \/ workers'[q].pc = "got" /\ workers'[q].job = j
    <3> DEFINE q == jobs[j].priority
    <3>1. q \in Priorities
      BY DEF TypeInv, TypeOK, BatchJob
    <3>2. \/ \E i \in DOMAIN queues[q] : queues[q][i] = j
          \/ workers[q].pc = "got" /\ workers[q].job = j
      BY <2>1 DEF Tracked, NoJobLost
    <3>3. CASE q # p
      BY <1>4, <3>1, <3>2, <3>3
    <3>4. CASE q = p
      <4>1. PICK i \in DOMAIN queues[p] : queues[p][i] = j
        BY <1>1, <3>2, <3>4
      <4>2. CASE i = 1
        BY <1>2, <1>3, <3>4, <4>1, <4>2
      <4>3. CASE i # 1
        <5>1. queues[p] \in Seq(Jobs)
          BY <1>1
        <5>2. i - 1 \in DOMAIN queues'[p] /\ queues'[p][i - 1] = j
          BY <1>1, <1>2, <1>5, <4>1, <4>3, <5>1
        <5> QED
          BY <3>4, <5>2
      <4> QED
        BY <4>2, <4>3
    <3> QED
      BY <3>3, <3>4
  <2> QED
    BY <1>1, <2>1 DEF NoJobLost
<1> QED
  BY <1>7, <1>8, <1>10, <1>11, <1>12 DEF Tracked

\* stop() returns when its workers have ended.
QuietWhenStopped ==
    service = "stopped" => \A p \in Priorities : workers[p].pc = "off"

\* No worker is left when the service is stopped: only Start gives a worker a task,
\* and a worker that acts is not "off".
LEMMA QuietStep ==
    ASSUME TypeInv, QuietWhenStopped, [Next]_vars
    PROVE  QuietWhenStopped'
<1>1. ASSUME NEW p \in Priorities, WorkerStep(p)
      PROVE  service # "stopped" /\ UNCHANGED service
  <2>1. workers[p].pc # "off" /\ UNCHANGED service
    BY <1>1 DEF WorkerStep, TakeJob, DropJob, StartJob, NextBatch, FinishJob,
                WorkerCancelled, Answerable
  <2> QED
    BY <2>1 DEF QuietWhenStopped
<1>2. ASSUME NEW j \in Jobs, Request(j)
      PROVE  UNCHANGED <<service, workers>>
  BY <1>2 DEF Request, SubmitBatchJob, SubmitRejected, GetJobStatus, GetJobResults, CancelJob
<1>3. CASE GetBatchMetrics \/ Cleanup \/ Tick \/ UNCHANGED vars
  BY <1>3 DEF GetBatchMetrics, Cleanup, Tick, vars, QuietWhenStopped
<1>4. CASE Start \/ Stop \/ StopDone
  BY <1>4 DEF Start, Stop, StopDone, QuietWhenStopped
<1> QED
  BY <1>1, <1>2, <1>3, <1>4 DEF Next, QuietWhenStopped

\* Before anything is submitted, everything is tracked.
LEMMA TrackedInit ==
    ASSUME Init
    PROVE  QuietWhenStopped /\ Tracked
<1>1. \A p \in Priorities : workers[p].pc = "off" /\ queues[p] = <<>>
  BY WorkerAtType DEF Init
<1>2. \A j \in Jobs : jobs[j].status = "absent" /\ jobs[j].ticket = 0
  BY DEF Init, NoSuchJob
<1>3. metrics.total_jobs = 0
  BY DEF Init, NoMetrics
<1> QED
  BY <1>1, <1>2, <1>3 DEF QuietWhenStopped, Tracked, QueueOrder, NoJobLost, Holds, Known, Ticket

\* Every step keeps everything tracked.
LEMMA TrackedStep ==
    ASSUME TypeInv, QuietWhenStopped, Tracked, [Next]_vars
    PROVE  Tracked'
<1>a. /\ mgr \in ManagerState /\ workers \in [Priorities -> Worker] /\ now \in Nat
      /\ mgr.jobs = jobs /\ mgr.metrics = metrics
  BY MgrType DEF TypeInv, TypeOK, mgr
<1>b. ASSUME Kept(mgr, mgr'), UNCHANGED <<queues, workers>>
      PROVE  Tracked'
  BY <1>b, FrameStep DEF Holds
<1>c. Kept(mgr, mgr)
  BY DEF Kept
<1>d. ASSUME NEW p \in Priorities, workers[p].pc \in {"got", "predict"}
      PROVE  workers[p].job \in Jobs /\ mgr.jobs[workers[p].job].status # "absent"
  BY <1>a, <1>d DEF TypeInv, HandsFull, Tracked, Holds, Known
<1>1. ASSUME NEW j \in Jobs, NEW p \in Priorities, NEW b \in 1..MaxBatches,
             NEW t \in Timeouts, SubmitBatchJob(j, p, b, t) \/ SubmitRejected(j, p, b, t)
      PROVE  Tracked'
  <2> DEFINE new == Created(j, p, b, t)
  <2>1. b \in Nat /\ t \in Nat
    BY AsyncBatchAssumption
  <2>2. new \in ManagerState
    BY <1>a, <2>1, CreateJobType DEF Created
  <2>3. /\ new.metrics.total_jobs = metrics.total_jobs + 1
        /\ new.jobs[j].status = "pending" /\ new.jobs[j].priority = p
        /\ new.jobs[j].ticket = metrics.total_jobs + 1
        /\ \A k \in Jobs \ {j} : new.jobs[k] = jobs[k]
    BY <1>a, <2>1, CreateJobEffect DEF Created
  <2> HIDE DEF new
  <2>4. CASE SubmitBatchJob(j, p, b, t)
    <3>1. /\ jobs[j].status = "absent" /\ jobs' = new.jobs /\ metrics' = new.metrics
          /\ queues' = [queues EXCEPT ![p] = Append(@, j)] /\ UNCHANGED workers
      BY <2>4 DEF SubmitBatchJob, Commit, new
    <3> QED
      BY <2>3, <3>1, CreationStep
  <2>5. CASE SubmitRejected(j, p, b, t)
    <3> DEFINE failed == UpdateJobStatus(new, j, "failed")
    <3>1. /\ jobs[j].status = "absent" /\ jobs' = failed.jobs /\ metrics' = failed.metrics
          /\ UNCHANGED <<queues, workers>>
      BY <2>5 DEF SubmitRejected, Commit, new
    <3>2. Kept(new, failed)
      BY <2>2, <2>3, UpdateKeeps DEF BatchJobStatus
    <3>3. failed.jobs[j].status = "failed" /\ \A k \in Jobs \ {j} : failed.jobs[k] = new.jobs[k]
      BY <2>2, UpdateJobStatusEffect
    <3> HIDE DEF failed
    <3>4. /\ failed.metrics.total_jobs = metrics.total_jobs + 1
          /\ failed.jobs[j].priority = p /\ failed.jobs[j].ticket = metrics.total_jobs + 1
      BY <2>3, <3>2 DEF Kept
    <3>5. \A k \in Jobs \ {j} : failed.jobs[k] = jobs[k]
      BY <2>3, <3>3
    <3> QED
      BY <3>1, <3>3, <3>4, <3>5, CreationStep
  <2> QED
    BY <1>1, <2>4, <2>5
<1>2. ASSUME NEW j \in Jobs, GetJobStatus(j) \/ GetJobResults(j)
      PROVE  Tracked'
  <2>1. Commit(GetJob(mgr, j, now)) /\ UNCHANGED <<queues, workers>> /\ jobs[j].status # "absent"
    BY <1>2 DEF GetJobStatus, GetJobResults
  <2>2. Kept(mgr, mgr')
    BY <1>a, <2>1, GetJobType, ReadingKeeps, CommitMgr
  <2> QED
    BY <1>b, <2>1, <2>2
<1>3. ASSUME NEW j \in Jobs, CancelJob(j)
      PROVE  Tracked'
  <2>1. Kept(mgr, mgr')
    BY <1>a, <1>3, CancelledJobType, CancelledKeeps, CommitMgr DEF CancelJob
  <2> QED
    BY <1>b, <1>3, <2>1 DEF CancelJob
<1>4. CASE GetBatchMetrics
  <2>1. metrics'.total_jobs = metrics.total_jobs /\ UNCHANGED <<jobs, queues, workers>>
    BY <1>4 DEF GetBatchMetrics, TypeInv, TypeOK, ProcessingMetrics
  <2>2. Kept(mgr, mgr')
    BY <2>1 DEF Kept, mgr
  <2> QED
    BY <1>b, <2>1, <2>2
<1>5. ASSUME NEW p \in Priorities, TakeJob(p)
      PROVE  Tracked'
  BY <1>5, TakeStep
<1>6. ASSUME NEW p \in Priorities, DropJob(p)
      PROVE  Tracked'
  <2> DEFINE j == workers[p].job
             after == AfterValidityCheck(mgr, j, now)
  <2>1. /\ Commit(after) /\ Park(p) /\ ~JobValid(mgr, j, now) /\ UNCHANGED queues
        /\ j \in Jobs /\ mgr.jobs[j].status # "absent"
    BY <1>6, <1>d DEF DropJob
  <2>2. after \in ManagerState /\ Kept(mgr, after) /\ after.jobs[j].status # "pending"
    BY <1>a, <2>1, AfterValidityCheckType, ReadingKeeps, RefusedIsNotPending
  <2> HIDE DEF after, j
  <2>3. Kept(mgr, mgr') /\ jobs'[j].status # "pending"
    BY <2>1, <2>2, CommitMgr DEF Commit
  <2> QED
    BY <1>a, <2>1, <2>3, ParkFrees, FrameStep DEF j
<1>7. ASSUME NEW p \in Priorities, StartJob(p)
      PROVE  Tracked'
  <2> DEFINE j == workers[p].job
             begun == UpdateJobStatus(mgr, j, "processing")
  <2>1. /\ workers[p].pc \in {"got", "predict"} /\ Checkpoint(begun, p, <<>>) /\ UNCHANGED queues
        /\ j \in Jobs /\ mgr.jobs[j].status # "absent"
    BY <1>7, <1>d DEF StartJob
  <2>2. /\ begun \in ManagerState /\ Kept(mgr, begun) /\ begun.jobs[j].status = "processing"
    <3>1. "processing" \in BatchJobStatus /\ "processing" \in BatchJobStatus \ {"absent", "pending"}
      BY DEF BatchJobStatus
    <3>2. begun \in ManagerState /\ Kept(mgr, begun)
      BY <1>a, <2>1, <3>1, UpdateJobStatusType, UpdateKeeps
    <3>3. begun.jobs[j].status = "processing"
      BY <1>a, <2>1, UpdateJobStatusEffect
    <3> QED
      BY <3>2, <3>3
  <2>3. <<>> \in Seq(Outcome)
    OBVIOUS
  <2> HIDE DEF begun
  <2>4. /\ Kept(begun, mgr')
        /\ \A q \in Priorities \ {p} : workers'[q] = workers[q]
        /\ \A q \in Priorities, k \in Jobs : Holds(q, k)' => Holds(q, k)
    BY <2>1, <2>2, <2>3, CheckpointKeeps
  <2>5. Kept(mgr, mgr')
    BY <2>2, <2>4, KeptTransitive
  <2>6. jobs'[j].status # "pending"
    BY <2>1, <2>2, <2>4 DEF Kept, mgr
  <2> QED
    BY <2>1, <2>4, <2>5, <2>6, FrameStep
<1>8. ASSUME NEW p \in Priorities, NEW outcome \in Outcome, NextBatch(p, outcome)
      PROVE  Tracked'
  <2> DEFINE j == workers[p].job
             s == Progress(p, outcome).state
             out == Progress(p, outcome).out
  <2>1. /\ workers[p].pc = "predict" /\ Checkpoint(s, p, out) /\ UNCHANGED queues
        /\ Answerable(p)
    BY <1>8 DEF NextBatch, Answerable
  <2>2. j \in Jobs /\ mgr.jobs[j].status # "absent"
    BY <1>d, <2>1
  <2>3. s \in ManagerState /\ out \in Seq(Outcome) /\ s = UpdateProgress(mgr, j, out)
    BY <2>1, ProgressType
  <2>4. Kept(mgr, s)
    BY <1>a, <2>2, <2>3, ProgressKeeps
  <2>5. s.jobs[j].status # "absent"
    BY <2>2, <2>4 DEF Kept
  <2> HIDE DEF s, out
  <2>6. /\ Kept(s, mgr')
        /\ \A q \in Priorities \ {p} : workers'[q] = workers[q]
        /\ \A q \in Priorities, k \in Jobs : Holds(q, k)' => Holds(q, k)
    BY <2>1, <2>2, <2>3, <2>5, CheckpointKeeps
  <2>7. Kept(mgr, mgr')
    BY <2>4, <2>6, KeptTransitive
  <2> QED
    BY <2>1, <2>6, <2>7, FrameStep
<1>9. ASSUME NEW p \in Priorities, NEW outcome \in Outcome, FinishJob(p, outcome)
      PROVE  Tracked'
  <2> DEFINE j == workers[p].job
             s == Progress(p, outcome).state
             out == Progress(p, outcome).out
             seen == GetJob(s, j, now)
             done == CompleteJob(seen, j, out)
             final == GetJob(done, j, now)
  <2>1. /\ workers[p].pc = "predict" /\ Commit(final) /\ Park(p) /\ UNCHANGED queues
        /\ Answerable(p)
    BY <1>9 DEF FinishJob, Answerable
  <2>2. j \in Jobs /\ mgr.jobs[j].status # "absent"
    BY <1>d, <2>1
  <2>3. s \in ManagerState /\ out \in Seq(Outcome) /\ s = UpdateProgress(mgr, j, out)
    BY <2>1, ProgressType
  <2>4. Kept(mgr, s)
    BY <1>a, <2>2, <2>3, ProgressKeeps
  <2> HIDE DEF s, out
  <2>5. s.jobs[j].status # "absent"
    BY <2>2, <2>4 DEF Kept
  <2>6. seen \in ManagerState /\ Kept(s, seen)
    BY <1>a, <2>2, <2>3, <2>5, GetJobType, ReadingKeeps
  <2>7. seen.jobs[j].status # "absent"
    BY <2>2, <2>5, <2>6 DEF Kept
  <2> HIDE DEF seen
  <2>8. done \in ManagerState /\ Kept(seen, done)
    BY <2>2, <2>3, <2>6, <2>7, CompleteJobType, CompleteKeeps
  <2>9. done.jobs[j].status # "absent"
    BY <2>2, <2>7, <2>8 DEF Kept
  <2> HIDE DEF done
  <2>10. final \in ManagerState /\ Kept(done, final)
    BY <1>a, <2>2, <2>8, <2>9, GetJobType, ReadingKeeps
  <2> HIDE DEF final
  <2>11. Kept(mgr, final)
    BY <2>4, <2>6, <2>8, <2>10, KeptTransitive
  <2>12. Kept(mgr, mgr')
    BY <2>1, <2>10, <2>11, CommitMgr
  <2> QED
    BY <1>a, <2>1, <2>12, ParkFrees, FrameStep
<1>10. ASSUME NEW p \in Priorities, WorkerCancelled(p)
       PROVE  Tracked'
  <2>1. /\ workers'[p].pc = "off" /\ workers[p].pc # "got"
        /\ \A q \in Priorities \ {p} : workers'[q] = workers[q]
        /\ UNCHANGED <<jobs, metrics, queues>>
    BY <1>a, <1>10, WorkerAtType DEF WorkerCancelled
  <2>2. Kept(mgr, mgr')
    BY <1>c, <2>1 DEF mgr
  <2>3. \A q \in Priorities, j \in Jobs : Holds(q, j)' => Holds(q, j)
    BY <2>1 DEF Holds
  <2> QED
    BY <2>1, <2>2, <2>3, FrameStep
<1>11. CASE Start
  <2>1. /\ \A p \in Priorities : workers[p].pc = "off" /\ workers'[p].pc = "wait"
        /\ UNCHANGED <<jobs, metrics, queues>>
    BY <1>11, WorkerAtType DEF Start, QuietWhenStopped
  <2>2. Kept(mgr, mgr')
    BY <1>c, <2>1 DEF mgr
  <2>3. \A q \in Priorities, j \in Jobs : Holds(q, j)' => Holds(q, j)
    BY <2>1 DEF Holds
  <2> QED
    BY <2>1, <2>2, <2>3, FrameStep
<1>12. CASE Stop
  <2>0. ASSUME NEW p \in Priorities
        PROVE  LET w == [workers[p] EXCEPT !.cancel = TRUE]
               IN  w.pc = workers[p].pc /\ w.job = workers[p].job
    BY <1>a DEF Worker
  <2>1. /\ \A p \in Priorities : workers'[p].pc = workers[p].pc /\ workers'[p].job = workers[p].job
        /\ UNCHANGED <<jobs, metrics, queues>>
    BY <1>12, <2>0 DEF Stop
  <2>2. Kept(mgr, mgr')
    BY <1>c, <2>1 DEF mgr
  <2>3. \A q \in Priorities, j \in Jobs : Holds(q, j)' => Holds(q, j)
    BY <2>1 DEF Holds
  <2> QED
    BY <2>1, <2>2, <2>3, FrameStep
<1>13. CASE Cleanup
  <2>1. Kept(mgr, mgr')
    BY <1>a, <1>13, CleanupExpiredType, CleanupKeeps, CommitMgr DEF Cleanup
  <2> QED
    BY <1>b, <1>13, <2>1 DEF Cleanup
<1>14. CASE StopDone \/ Tick \/ UNCHANGED vars
  <2>1. UNCHANGED <<jobs, metrics, queues, workers>>
    BY <1>14 DEF StopDone, Tick, vars
  <2>2. Kept(mgr, mgr')
    BY <1>c, <2>1 DEF mgr
  <2> QED
    BY <1>b, <2>1, <2>2
<1> QED
  BY <1>1, <1>2, <1>3, <1>4, <1>5, <1>6, <1>7, <1>8, <1>9, <1>10, <1>11, <1>12, <1>13,
     <1>14 DEF Next, Request, WorkerStep

\* The inductive invariant behind the theorems below.
OrderInv == TypeInv /\ QuietWhenStopped /\ Tracked

\* OrderInv holds in every state.
LEMMA OrderInvariant == Spec => []OrderInv
<1>1. Init => OrderInv
  BY TypeInit, TrackedInit DEF OrderInv
<1>2. OrderInv /\ [Next]_vars => OrderInv'
  BY TypeStep, QuietStep, TrackedStep DEF OrderInv
<1> QED
  BY <1>1, <1>2, PTL DEF Spec

\* For any number of jobs, priorities, restarts and cancellations: jobs of one
\* priority are taken in submission order, and none is handed out twice.
THEOREM QueuesInOrder == Spec => []QueueOrder
<1>1. OrderInv => QueueOrder
  BY DEF OrderInv, Tracked
<1> QED
  BY <1>1, OrderInvariant, PTL

\* No accepted job that is still PENDING ever leaves both its queue and its
\* worker's hand: stop() cancelling the workers loses none.
THEOREM NoneLost == Spec => []NoJobLost
<1>1. OrderInv => NoJobLost
  BY DEF OrderInv, Tracked
<1> QED
  BY <1>1, OrderInvariant, PTL
=============================================================================
