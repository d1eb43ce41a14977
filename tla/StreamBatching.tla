---------------------------- MODULE StreamBatching ----------------------------
(***************************************************************************)
(* StreamProcessor (src/app/services/stream_processor.py): predict_async   *)
(* queues a request and waits; batch loops take requests off the queue in  *)
(* batches and answer them; shutdown drains the queue and cancels a loop.  *)
(*                                                                         *)
(* All of them share one event loop and one asyncio.Lock.  An action is    *)
(* what one task does between two suspensions.  A task suspends in a sleep *)
(* or because the lock is taken, and the only code that suspends while it  *)
(* holds the lock is a batch loop that found the queue empty.  asyncio.Lock*)
(* is first come, first served: it lets nobody overtake a waiter that has  *)
(* not been cancelled.                                                     *)
(*                                                                         *)
(* A batch loop is named by the request whose predict_async created it.    *)
(* What sleeps and waits last is left open; a request's age counts clock   *)
(* periods up to max_wait_time_ms.                                         *)
(***************************************************************************)
EXTENDS Integers, Sequences, FiniteSets, SequencesExt

CONSTANTS Requests,   \* calls of predict_async
          MaxBatch,   \* config.max_batch_size
          MinBatch,   \* config.min_batch_size
          MaxWait,    \* config.max_wait_time_ms, in clock periods
          Nobody      \* no task

ASSUME StreamAssumption ==
    /\ IsFiniteSet(Requests)
    /\ MaxBatch \in Nat \ {0} /\ MinBatch \in Nat \ {0} /\ MaxWait \in Nat \ {0}
    /\ Nobody \notin Requests

VARIABLES req,         \* what has become of each request
          age,         \* how long it has been waiting, at most MaxWait
          queue,       \* StreamProcessor.queue
          processing,  \* StreamProcessor._processing
          batchTask,   \* StreamProcessor._batch_task
          loop,        \* where the batch loop created for a request is
          cancelled,   \* loops that shutdown has cancelled
          lock,        \* the loop that sleeps inside the lock
          waiters,     \* tasks waiting for the lock, in order
          shutdown,    \* where shutdown() is
          joined       \* the loop shutdown() waits for

vars == <<req, age, queue, processing, batchTask, loop, cancelled, lock, waiters,
          shutdown, joined>>

\* "locked": waiting for the lock in predict_async; "gone": its client was cancelled.
RequestState == {"new", "locked", "queued", "answered", "failed", "gone"}

\* "fetch" and "check" wait for the lock in _should_process_batch and at the end of
\* an iteration; "idle" is the sleep inside the lock.
LoopState == {"none", "new", "poll", "fetch", "check", "idle", "ended"}

\* A task that can wait for the lock.
Task == [kind : {"client", "loop", "shutdown"}, id : Requests \cup {Nobody}]

Client(r)    == [kind |-> "client", id |-> r]
LoopOf(r)    == [kind |-> "loop", id |-> r]
ShutdownTask == [kind |-> "shutdown", id |-> Nobody]

\* shutdown() keeps the event loop from one batch to the next.
LoopFree == shutdown # "drain"

-----------------------------------------------------------------------------
(* The lock.                                                                 *)

\* Positions of the waiters whose future has not been cancelled.
Waiting(w) == {i \in DOMAIN w : ~(w[i].kind = "loop" /\ w[i].id \in cancelled)}

\* A task that gets the lock or gives up leaves the waiters.
Without(w, task) ==
    IF \E i \in DOMAIN w : w[i] = task
    THEN RemoveAt(w, CHOOSE i \in DOMAIN w : w[i] = task) ELSE w

\* A newcomer gets the lock at once; a waiter gets it when its turn has come.
LockFree == lock = Nobody /\ Waiting(waiters) = {}
Turn(task) == lock = Nobody /\ \E i \in Waiting(waiters) : /\ waiters[i] = task
                                                         /\ \A j \in Waiting(waiters) : i <= j

-----------------------------------------------------------------------------

Init ==
    /\ req = [r \in Requests |-> "new"]
    /\ age = [r \in Requests |-> 0]
    /\ queue = <<>>
    /\ processing = FALSE
    /\ batchTask = Nobody
    /\ loop = [r \in Requests |-> "none"]
    /\ cancelled = {}
    /\ lock = Nobody
    /\ waiters = <<>>
    /\ shutdown = "no"
    /\ joined = Nobody

-----------------------------------------------------------------------------
(* Clients.                                                                  *)

\* Fault: a loop is created only if none was ever created.
EnqueueFirstOnly(r) ==
    /\ queue' = Append(queue, r)
    /\ req' = [req EXCEPT ![r] = "queued"]
    /\ IF batchTask = Nobody
       THEN loop' = [loop EXCEPT ![r] = "new"] /\ batchTask' = r
       ELSE UNCHANGED <<loop, batchTask>>

\* The body of predict_async's critical section.
Enqueue(r) ==
    /\ queue' = Append(queue, r)
    /\ req' = [req EXCEPT ![r] = "queued"]
    /\ IF ~processing
       THEN loop' = [loop EXCEPT ![r] = "new"] /\ batchTask' = r
       ELSE UNCHANGED <<loop, batchTask>>

\* predict_async up to its first suspension.
PredictAsync(r) ==
    /\ LoopFree
    /\ req[r] = "new"
    /\ IF LockFree
       THEN Enqueue(r) /\ UNCHANGED waiters
       ELSE /\ req' = [req EXCEPT ![r] = "locked"]
            /\ waiters' = Append(waiters, Client(r))
            /\ UNCHANGED <<queue, loop, batchTask>>
    /\ UNCHANGED <<age, processing, cancelled, lock, shutdown, joined>>

\* A waiting client gets the lock.
ClientEnters(r) ==
    /\ LoopFree
    /\ Turn(Client(r))
    /\ waiters' = Without(waiters, Client(r))
    /\ Enqueue(r)
    /\ UNCHANGED <<age, processing, cancelled, lock, shutdown, joined>>

\* The client's task is cancelled, as when its connection closes.  A queued request
\* stays in the queue with a future that is done.
ClientGone(r) ==
    /\ LoopFree
    /\ req[r] \in {"locked", "queued"}
    /\ req' = [req EXCEPT ![r] = "gone"]
    /\ waiters' = Without(waiters, Client(r))
    /\ UNCHANGED <<age, queue, processing, batchTask, loop, cancelled, lock, shutdown, joined>>

-----------------------------------------------------------------------------
(* Batches.                                                                  *)

BatchSize == IF Len(queue) < MaxBatch THEN Len(queue) ELSE MaxBatch

\* Fault: no timeout: a batch is processed only when it is full.
ShouldProcessFullOnly == queue # <<>> /\ BatchSize >= MaxBatch

\* _should_process_batch, its three triggers.
ShouldProcess ==
    /\ queue # <<>>
    /\ \/ BatchSize >= MaxBatch
       \/ age[Head(queue)] >= MaxWait
       \/ BatchSize >= MinBatch /\ 2 * age[Head(queue)] >= MaxWait

\* Fault: the last request of a batch is popped and forgotten.
ProcessBatchShort(outcome) ==
    LET batch == ToSet(SubSeq(queue, 1, BatchSize - 1))
    IN  /\ queue' = SubSeq(queue, BatchSize + 1, Len(queue))
        /\ req' = [r \in Requests |-> IF r \in batch /\ req[r] = "queued"
                                      THEN outcome ELSE req[r]]

\* Pop a batch and run _process_single_batch: one outcome for all, except where
\* the future is done already.
ProcessBatch(outcome) ==
    LET batch == ToSet(SubSeq(queue, 1, BatchSize))
    IN  /\ queue' = SubSeq(queue, BatchSize + 1, Len(queue))
        /\ req' = [r \in Requests |-> IF r \in batch /\ req[r] = "queued"
                                      THEN outcome ELSE req[r]]

-----------------------------------------------------------------------------
(* The batch loop of r: _process_batches.                                    *)

StartLoop(r) ==
    /\ LoopFree
    /\ loop[r] = "new" /\ r \notin cancelled
    /\ processing' = TRUE
    /\ loop' = [loop EXCEPT ![r] = "poll"]
    /\ UNCHANGED <<req, age, queue, batchTask, cancelled, lock, waiters, shutdown, joined>>

\* Fault: the loop sleeps inside the lock whatever the queue holds.
CheckQueueBlindly(r, q) ==
    /\ loop' = [loop EXCEPT ![r] = "idle"]
    /\ lock' = r

\* The end of an iteration, holding the lock, q being the queue: an empty queue
\* is slept on without letting go of the lock.
CheckQueue(r, q) ==
    IF q = <<>>
    THEN loop' = [loop EXCEPT ![r] = "idle"] /\ lock' = r
    ELSE loop' = [loop EXCEPT ![r] = "poll"] /\ UNCHANGED lock

\* The rest of an iteration, from the lock of _should_process_batch on, `left`
\* being the other waiters.
Iteration(r, left) ==
    /\ \/ ShouldProcess /\ \E outcome \in {"answered", "failed"} : ProcessBatch(outcome)
       \/ ~ShouldProcess /\ UNCHANGED <<queue, req>>
    /\ IF Waiting(left) = {}
       THEN CheckQueue(r, queue') /\ waiters' = left
       ELSE /\ loop' = [loop EXCEPT ![r] = "check"]
            /\ waiters' = Append(left, LoopOf(r))
            /\ UNCHANGED lock

\* The short sleep is over.
PollLoop(r) ==
    /\ LoopFree
    /\ loop[r] = "poll" /\ r \notin cancelled
    /\ IF LockFree
       THEN Iteration(r, waiters)
       ELSE /\ loop' = [loop EXCEPT ![r] = "fetch"]
            /\ waiters' = Append(waiters, LoopOf(r))
            /\ UNCHANGED <<req, queue, lock>>
    /\ UNCHANGED <<age, processing, batchTask, cancelled, shutdown, joined>>

\* Its turn in _should_process_batch.
FetchLoop(r) ==
    /\ LoopFree
    /\ loop[r] = "fetch" /\ Turn(LoopOf(r))
    /\ Iteration(r, Without(waiters, LoopOf(r)))
    /\ UNCHANGED <<age, processing, batchTask, cancelled, shutdown, joined>>

\* Its turn at the end of an iteration.
CheckLoop(r) ==
    /\ LoopFree
    /\ loop[r] = "check" /\ Turn(LoopOf(r))
    /\ waiters' = Without(waiters, LoopOf(r))
    /\ CheckQueue(r, queue)
    /\ UNCHANGED <<req, age, queue, processing, batchTask, cancelled, shutdown, joined>>

\* Fault: an empty queue no longer ends the loop.
IdleLoopForever(r) ==
    /\ LoopFree
    /\ loop[r] = "idle" /\ r \notin cancelled
    /\ lock' = Nobody
    /\ loop' = [loop EXCEPT ![r] = "poll"]
    /\ UNCHANGED <<req, age, queue, processing, batchTask, cancelled, waiters, shutdown, joined>>

\* The sleep inside the lock is over: break if the queue is still empty.
IdleLoop(r) ==
    /\ LoopFree
    /\ loop[r] = "idle" /\ r \notin cancelled
    /\ lock' = Nobody
    /\ IF queue = <<>>
       THEN loop' = [loop EXCEPT ![r] = "ended"] /\ processing' = FALSE
       ELSE loop' = [loop EXCEPT ![r] = "poll"] /\ UNCHANGED processing
    /\ UNCHANGED <<req, age, queue, batchTask, cancelled, waiters, shutdown, joined>>

\* Fault: a cancelled loop does not reset _processing.
CancelledLoopNoFinally(r) ==
    /\ LoopFree
    /\ r \in cancelled /\ loop[r] \notin {"none", "ended"}
    /\ loop' = [loop EXCEPT ![r] = "ended"]
    /\ lock' = IF lock = r THEN Nobody ELSE lock
    /\ waiters' = Without(waiters, LoopOf(r))
    /\ UNCHANGED <<req, age, queue, processing, batchTask, cancelled, shutdown, joined>>

\* CancelledError reaches the loop wherever it is suspended.  Before its first step
\* it has no `finally` to run.
CancelledLoop(r) ==
    /\ LoopFree
    /\ r \in cancelled /\ loop[r] \notin {"none", "ended"}
    /\ loop' = [loop EXCEPT ![r] = "ended"]
    /\ processing' = (loop[r] = "new" /\ processing)
    /\ lock' = IF lock = r THEN Nobody ELSE lock
    /\ waiters' = Without(waiters, LoopOf(r))
    /\ UNCHANGED <<req, age, queue, batchTask, cancelled, shutdown, joined>>

-----------------------------------------------------------------------------
(* shutdown.                                                                 *)

BeginShutdown ==
    /\ shutdown = "no"
    /\ shutdown' = "drain"
    /\ UNCHANGED <<req, age, queue, processing, batchTask, loop, cancelled, lock, waiters,
                   joined>>

\* `while self.queue`: another batch, at once or after waiting for the lock.
DrainBatch ==
    /\ shutdown = "drain"
    /\ queue # <<>>
    /\ IF LockFree
       THEN /\ \E outcome \in {"answered", "failed"} : ProcessBatch(outcome)
            /\ UNCHANGED <<waiters, shutdown>>
       ELSE /\ waiters' = Append(waiters, ShutdownTask)
            /\ shutdown' = "lock"
            /\ UNCHANGED <<req, queue>>
    /\ UNCHANGED <<age, processing, batchTask, loop, cancelled, lock, joined>>

ShutdownEnters ==
    /\ shutdown = "lock"
    /\ Turn(ShutdownTask)
    /\ waiters' = Without(waiters, ShutdownTask)
    /\ shutdown' = "drain"
    /\ \/ queue # <<>> /\ \E outcome \in {"answered", "failed"} : ProcessBatch(outcome)
       \/ queue = <<>> /\ UNCHANGED <<req, queue>>
    /\ UNCHANGED <<age, processing, batchTask, loop, cancelled, lock, joined>>

\* Fault: the batch task is awaited but not cancelled, and the lock is kept meanwhile.
CancelBatchTaskLocked ==
    /\ shutdown = "drain"
    /\ queue = <<>>
    /\ LockFree
    /\ IF batchTask # Nobody /\ loop[batchTask] # "ended"
       THEN /\ joined' = batchTask
            /\ shutdown' = "join"
            /\ lock' = batchTask
            /\ UNCHANGED processing
       ELSE /\ processing' = FALSE
            /\ shutdown' = "done"
            /\ UNCHANGED <<joined, lock>>
    /\ UNCHANGED <<req, age, queue, batchTask, cancelled, loop, waiters>>

\* Fault: no test that there is a batch task to cancel.
CancelBatchTaskUntested ==
    /\ shutdown = "drain"
    /\ queue = <<>>
    /\ cancelled' = cancelled \cup {batchTask}
    /\ joined' = batchTask
    /\ shutdown' = "join"
    /\ UNCHANGED <<req, age, queue, processing, batchTask, loop, lock, waiters>>

\* The queue is empty: cancel the latest batch task unless it has ended.
CancelBatchTask ==
    /\ shutdown = "drain"
    /\ queue = <<>>
    /\ IF batchTask # Nobody /\ loop[batchTask] # "ended"
       THEN /\ cancelled' = cancelled \cup {batchTask}
            /\ joined' = batchTask
            /\ shutdown' = "join"
            /\ UNCHANGED processing
       ELSE /\ processing' = FALSE
            /\ shutdown' = "done"
            /\ UNCHANGED <<cancelled, joined>>
    /\ UNCHANGED <<req, age, queue, batchTask, loop, lock, waiters>>

\* The batch task has ended.
EndShutdown ==
    /\ shutdown = "join"
    /\ loop[joined] = "ended"
    /\ batchTask' = Nobody
    /\ processing' = FALSE
    /\ shutdown' = "done"
    /\ UNCHANGED <<req, age, queue, loop, cancelled, lock, waiters, joined>>

-----------------------------------------------------------------------------

\* Requests that grow older: those that wait for the lock or are in the queue.
Ageing == {r \in Requests : req[r] = "locked" \/ r \in ToSet(queue)}

\* A clock period passes for everybody who waits; how long others waited is forgotten.
Tick ==
    /\ \E r \in Ageing : age[r] < MaxWait
    /\ age' = [r \in Requests |-> IF r \notin Ageing THEN 0
                                  ELSE IF age[r] < MaxWait THEN age[r] + 1 ELSE MaxWait]
    /\ UNCHANGED <<req, queue, processing, batchTask, loop, cancelled, lock, waiters,
                   shutdown, joined>>

LoopStep(r) ==
    \/ StartLoop(r)
    \/ PollLoop(r)
    \/ FetchLoop(r)
    \/ CheckLoop(r)
    \/ IdleLoop(r)
    \/ CancelledLoop(r)

ShutdownStep == DrainBatch \/ ShutdownEnters \/ CancelBatchTask \/ EndShutdown

Next ==
    \/ \E r \in Requests : PredictAsync(r) \/ ClientEnters(r) \/ ClientGone(r)
    \/ \E r \in Requests : LoopStep(r)
    \/ BeginShutdown
    \/ ShutdownStep
    \/ Tick

Spec == Init /\ [][Next]_vars

\* Tasks that can run do, sleeps end, the clock moves on.  Clients come, go away
\* and call shutdown() as they like.
Fairness ==
    /\ \A r \in Requests : WF_vars(LoopStep(r)) /\ WF_vars(ClientEnters(r))
    /\ WF_vars(ShutdownStep)
    /\ WF_vars(Tick)

FairSpec == Spec /\ Fairness

-----------------------------------------------------------------------------
(* Properties.                                                               *)

TypeOK ==
    /\ req \in [Requests -> RequestState]
    /\ age \in [Requests -> 0..MaxWait]
    /\ queue \in Seq(Requests)
    /\ processing \in BOOLEAN
    /\ batchTask \in Requests \cup {Nobody}
    /\ loop \in [Requests -> LoopState]
    /\ cancelled \subseteq Requests
    /\ lock \in Requests \cup {Nobody}
    /\ waiters \in Seq(Task)
    /\ shutdown \in {"no", "drain", "lock", "join", "done"}
    /\ joined \in Requests \cup {Nobody}

\* Loops that will still run.
Alive == {r \in Requests : loop[r] \notin {"none", "ended"} /\ r \notin cancelled}

\* A client that waits for its future has its request in the queue, once: a batch
\* takes no request off the queue without answering it.
UnansweredQueued ==
    /\ IsInjective(queue)
    /\ ToSet(queue) \subseteq {r \in Requests : req[r] \in {"queued", "gone"}}
    /\ {r \in Requests : req[r] = "queued"} \subseteq ToSet(queue)

Served == queue # <<>> => Alive # {}

\* shutdown() has seen the queue empty.
Drained == shutdown \in {"join", "done"}

\* Until shutdown() has drained the queue, a request in it has a batch loop that will
\* serve it, although predict_async creates one only if _processing is FALSE and several
\* loops set and reset that flag.
QueueServed == Drained \/ Served

\* _processing is TRUE only while some loop is between its first step and its
\* `finally`, also when loops overlap or are cancelled.
ProcessingHonest ==
    processing => \E r \in Requests : loop[r] \in {"poll", "fetch", "check", "idle"}

\* A loop that sleeps inside the lock has seen an empty queue, and the queue stays
\* empty under its sleep: the second emptiness test cannot miss a request.
IdleMeansEmpty == lock # Nobody => loop[lock] = "idle" /\ queue = <<>>

\* Every request that predict_async took on is answered, unless its client leaves or
\* shutdown() drains the queue.
RequestsAnswered ==
    \A r \in Requests :
        req[r] \in {"locked", "queued"} ~> req[r] \notin {"locked", "queued"} \/ Drained

\* Batch loops do not pile up: once no requests come in, all of them end.
LoopsRetire == <>[](\A r \in Requests : loop[r] \in {"none", "ended"})

\* shutdown() returns, whoever holds the lock or waits for it.
ShutdownReturns == shutdown # "no" ~> shutdown = "done"

-----------------------------------------------------------------------------
(* What the documentation says and the code does not do.                     *)

\* When shutdown() has stopped the batch task, no request is left behind that
\* nobody will process.
ShutdownStrandsNone == shutdown = "done" => Served
=============================================================================
