------------------------- MODULE StreamBatchingProofs -------------------------
(***************************************************************************)
(* Proofs about StreamBatching, for any number of requests, any batch      *)
(* sizes and waiting times, with and without shutdown: no request leaves   *)
(* the queue unanswered, and the queue is served while nobody shuts down.  *)
(***************************************************************************)
EXTENDS StreamBatching, SequenceTheorems, TLAPS

-----------------------------------------------------------------------------
(* The waiters.                                                              *)

\* The elements of s from i on move one place to the front.
Shifted(r, s, i) ==
    Len(r) = Len(s) - 1 /\ \A k \in 1..Len(s) - 1 : r[k] = s[IF k < i THEN k ELSE k + 1]

LEMMA RemovedAt ==
    ASSUME NEW S, NEW s \in Seq(S), NEW i \in 1..Len(s)
    PROVE  /\ RemoveAt(s, i) \in Seq(S)
           /\ Shifted(RemoveAt(s, i), s, i)
<1> DEFINE front == SubSeq(s, 1, i - 1)
           back == SubSeq(s, i + 1, Len(s))
           m == i - 1
           l == Len(s) - i
<1>0. Len(s) \in Nat /\ i \in Nat /\ m \in Nat /\ l \in Nat /\ i = m + 1 /\ Len(s) = m + 1 + l
  OBVIOUS
<1>1. /\ front \in Seq(S) /\ Len(front) = m /\ \A k \in 1..m : front[k] = s[k]
  BY <1>0
<1>2. /\ back \in Seq(S) /\ Len(back) = l /\ \A k \in 1..l : back[k] = s[i + k]
  <2> DEFINE n == Len(s)
             h == i + 1
  <2>1. n \in Int /\ h \in Int /\ \A j \in h..n : s[j] \in S
    BY <1>0
  <2> HIDE DEF n, h
  <2>2. /\ SubSeq(s, h, n) \in Seq(S)
        /\ Len(SubSeq(s, h, n)) = IF h <= n THEN n - h + 1 ELSE 0
        /\ \A k \in 1..(n - h + 1) : SubSeq(s, h, n)[k] = s[h + k - 1]
    BY <2>1, SubSeqProperties
  <2>3. n - h + 1 = l /\ (h <= n <=> l > 0) /\ \A k \in 1..l : h + k - 1 = i + k
    BY <1>0 DEF n, h
  <2>4. Len(SubSeq(s, h, n)) = l
    BY <1>0, <2>2, <2>3
  <2>5. \A k \in 1..l : SubSeq(s, h, n)[k] = s[i + k]
    BY <2>2, <2>3
  <2> QED
    BY <2>2, <2>4, <2>5 DEF n, h
<1> HIDE DEF front, back, m, l
<1>3. /\ front \o back \in Seq(S) /\ Len(front \o back) = m + l
  BY <1>0, <1>1, <1>2
<1>4. ASSUME NEW k \in 1..(m + l) PROVE (front \o back)[k] = s[IF k < i THEN k ELSE k + 1]
  <2>1. CASE k <= m
    BY <1>0, <1>1, <1>2, <2>1
  <2>2. CASE k > m
    <3>1. k - m \in 1..l /\ i + (k - m) = k + 1 /\ ~(k < i)
      BY <1>0, <2>2
    <3>2. (front \o back)[k] = back[k - m]
      <4>1. ~(k <= Len(front)) /\ k \in 1..(Len(front) + Len(back))
        BY <1>1, <1>2, <1>0, <2>2
      <4>2. (front \o back)[k] = back[k - Len(front)]
        BY <1>1, <1>2, <4>1
      <4> QED
        BY <1>1, <4>2
    <3> QED
      BY <1>2, <3>1, <3>2
  <2>3. k <= m \/ k > m
    BY <1>0
  <2> QED
    BY <2>1, <2>2, <2>3
<1>5. Len(s) - 1 = m + l
  BY <1>0
<1> QED
  BY <1>3, <1>4, <1>5 DEF front, back, Shifted, RemoveAt

\* Waiters that gave up or got the lock are gone; the others stay and stay in order.
Left(left, w, task) ==
    \/ left = w /\ \A i \in DOMAIN w : w[i] # task
    \/ \E i \in 1..Len(w) : w[i] = task /\ Shifted(left, w, i)

LEMMA WithoutLeaves ==
    ASSUME NEW w \in Seq(Task), NEW task
    PROVE  Without(w, task) \in Seq(Task) /\ Left(Without(w, task), w, task)
<1>1. CASE \E i \in DOMAIN w : w[i] = task
  <2> DEFINE i == CHOOSE j \in DOMAIN w : w[j] = task
  <2>1. i \in 1..Len(w) /\ w[i] = task
    BY <1>1
  <2>2. Without(w, task) = RemoveAt(w, i)
    BY <1>1 DEF Without
  <2> HIDE DEF i
  <2>3. RemoveAt(w, i) \in Seq(Task) /\ Shifted(RemoveAt(w, i), w, i)
    BY <2>1, RemovedAt
  <2> QED
    BY <2>1, <2>2, <2>3 DEF Left
<1>2. CASE ~(\E i \in DOMAIN w : w[i] = task)
  BY <1>2 DEF Without, Left
<1> QED
  BY <1>1, <1>2

-----------------------------------------------------------------------------
(* The inductive invariant.                                                  *)

\* A client that waits for the lock has not got into the queue, and waits once.
ClientsWait(w, r) ==
    /\ \A i \in DOMAIN w : w[i].kind = "client" => w[i].id \in Requests /\ r[w[i].id] = "locked"
    /\ \A i, j \in DOMAIN w : w[i].kind = "client" /\ w[i] = w[j] => i = j

StreamInv ==
    /\ TypeOK /\ UnansweredQueued /\ ProcessingHonest /\ IdleMeansEmpty
    /\ ClientsWait(waiters, req)

\* Until shutdown() has drained the queue it cancels no loop.
ServedYet == Drained \/ (cancelled = {} /\ Served)

\* The fewer the waiters, the less is said of them.
LEMMA FewerWait ==
    ASSUME NEW w \in Seq(Task), NEW left \in Seq(Task), NEW task, Left(left, w, task),
           ClientsWait(w, req)
    PROVE  /\ ClientsWait(left, req)
           /\ task.kind = "client" => \A i \in DOMAIN left : left[i] # task
<1>0. Len(w) \in Nat /\ DOMAIN w = 1..Len(w) /\ Len(left) \in Nat /\ DOMAIN left = 1..Len(left)
  OBVIOUS
<1>1. CASE left = w /\ \A i \in DOMAIN w : w[i] # task
  BY <1>1
<1>2. CASE \E i \in 1..Len(w) : w[i] = task /\ Shifted(left, w, i)
  <2>1. PICK i \in 1..Len(w) : w[i] = task /\ Shifted(left, w, i)
    BY <1>2
  <2> DEFINE at(k) == IF k < i THEN k ELSE k + 1
  <2>2. \A k \in 1..Len(left) : left[k] = w[at(k)]
    BY <1>0, <2>1 DEF Shifted
  <2>3. Len(left) = Len(w) - 1
    BY <2>1 DEF Shifted
  <2>4. \A k \in 1..Len(left) : at(k) \in 1..Len(w) /\ at(k) # i
    BY <1>0, <2>3
  <2>5. \A k, l \in 1..Len(left) : at(k) = at(l) => k = l
    BY <1>0
  <2> HIDE DEF at
  <2>6. ClientsWait(left, req)
    BY <1>0, <2>2, <2>4, <2>5 DEF ClientsWait
  <2>7. ASSUME task.kind = "client", NEW k \in DOMAIN left, left[k] = task PROVE FALSE
    <3>1. w[at(k)] = w[i] /\ w[i].kind = "client" /\ at(k) \in DOMAIN w /\ i \in DOMAIN w
      BY <1>0, <2>1, <2>2, <2>4, <2>7
    <3>2. at(k) = i
      BY <3>1 DEF ClientsWait
    <3> QED
      BY <1>0, <2>4, <2>7, <3>2
  <2> QED
    BY <2>6, <2>7
<1> QED
  BY <1>1, <1>2 DEF Left

LEMMA MoreWait ==
    ASSUME NEW w \in Seq(Task), NEW task \in Task, NEW r, ClientsWait(w, r),
           task.kind = "client" => /\ task.id \in Requests /\ r[task.id] = "locked"
                                   /\ \A i \in DOMAIN w : w[i] # task
    PROVE  Append(w, task) \in Seq(Task) /\ ClientsWait(Append(w, task), r)
<1> DEFINE v == Append(w, task)
           n == Len(w)
<1>1. /\ n \in Nat /\ DOMAIN w = 1..n /\ DOMAIN v = 1..n + 1 /\ v \in Seq(Task)
      /\ v[n + 1] = task /\ \A i \in 1..n : v[i] = w[i]
  OBVIOUS
<1> HIDE DEF v, n
<1>2. \A i \in 1..n + 1 : i # n + 1 => i \in 1..n
  BY <1>1
<1>3. ClientsWait(v, r)
  BY <1>1, <1>2 DEF ClientsWait
<1> QED
  BY <1>1, <1>3 DEF v

LEMMA StreamInitInv == Init => StreamInv
<1> SUFFICES ASSUME Init PROVE StreamInv
  OBVIOUS
<1>1. TypeOK
  <2>1. waiters \in Seq(Task) /\ queue \in Seq(Requests)
    BY DEF Init
  <2>2. age \in [Requests -> 0..MaxWait]
    BY StreamAssumption DEF Init
  <2>3. processing \in BOOLEAN
    BY DEF Init
  <2> QED
    BY <2>1, <2>2, <2>3 DEF Init, TypeOK, RequestState, LoopState
<1>2. UnansweredQueued
  BY DEF Init, UnansweredQueued, IsInjective, ToSet
<1>3. ProcessingHonest /\ IdleMeansEmpty
  BY DEF Init, ProcessingHonest, IdleMeansEmpty
<1>4. ClientsWait(waiters, req)
  BY DEF Init, ClientsWait
<1> QED
  BY <1>1, <1>2, <1>3, <1>4 DEF StreamInv

-----------------------------------------------------------------------------
(* The queue.                                                                *)

\* The requests in q are those that wait for an answer, and some whose client is gone.
Queued(q, r) ==
    /\ q \in Seq(Requests) /\ r \in [Requests -> RequestState]
    /\ \A i, j \in DOMAIN q : q[i] = q[j] => i = j
    /\ \A i \in DOMAIN q : r[q[i]] \in {"queued", "gone"}
    /\ \A s \in Requests : r[s] = "queued" => \E i \in DOMAIN q : q[i] = s

LEMMA QueuedMeans ==
    TypeOK => (UnansweredQueued <=> Queued(queue, req))
<1> SUFFICES ASSUME TypeOK PROVE UnansweredQueued <=> Queued(queue, req)
  OBVIOUS
<1>1. ToSet(queue) = {queue[i] : i \in DOMAIN queue} /\ queue \in Seq(Requests)
  BY DEF ToSet, TypeOK
<1>2. \A i \in DOMAIN queue : queue[i] \in Requests
  BY <1>1
<1> QED
  BY <1>1, <1>2 DEF UnansweredQueued, Queued, IsInjective, TypeOK

LEMMA QueuedMeansNext ==
    TypeOK' => (UnansweredQueued' <=> Queued(queue', req'))
<1> SUFFICES ASSUME TypeOK' PROVE UnansweredQueued' <=> Queued(queue', req')
  OBVIOUS
<1>1. ToSet(queue') = {queue'[i] : i \in DOMAIN queue'} /\ queue' \in Seq(Requests)
  BY DEF ToSet, TypeOK
<1>2. \A i \in DOMAIN queue' : queue'[i] \in Requests
  BY <1>1
<1> QED
  BY <1>1, <1>2 DEF UnansweredQueued, Queued, IsInjective, TypeOK

\* A request that was not in the queue joins it.
LEMMA QueueGrows ==
    ASSUME NEW q, NEW r, Queued(q, r), NEW s \in Requests, r[s] \notin {"queued", "gone"}
    PROVE  Queued(Append(q, s), [r EXCEPT ![s] = "queued"])
<1> DEFINE v == Append(q, s)
           n == Len(q)
           u == [r EXCEPT ![s] = "queued"]
<1>1. /\ n \in Nat /\ DOMAIN q = 1..n /\ DOMAIN v = 1..n + 1 /\ v \in Seq(Requests)
      /\ v[n + 1] = s /\ \A i \in 1..n : v[i] = q[i] /\ q[i] \in Requests
  BY DEF Queued
<1>2. u \in [Requests -> RequestState] /\ u[s] = "queued"
      /\ \A t \in Requests : t # s => u[t] = r[t]
  BY DEF Queued, RequestState
<1>3. \A i \in 1..n : q[i] # s
  BY <1>1 DEF Queued
<1> HIDE DEF v, n, u
<1>4. \A i \in 1..n + 1 : i # n + 1 => i \in 1..n
  BY <1>1
<1>5. \A i \in 1..n : i \in 1..n + 1
  BY <1>1
<1>6. n + 1 \in 1..n + 1
  BY <1>1
<1>7. \A i, j \in DOMAIN v : v[i] = v[j] => i = j
  BY <1>1, <1>3, <1>4 DEF Queued
<1>8. \A i \in DOMAIN v : u[v[i]] \in {"queued", "gone"}
  BY <1>1, <1>2, <1>3, <1>4 DEF Queued
<1>9. \A t \in Requests : u[t] = "queued" => \E i \in DOMAIN v : v[i] = t
  BY <1>1, <1>2, <1>5, <1>6 DEF Queued
<1>10. Queued(v, u)
  BY <1>1, <1>2, <1>7, <1>8, <1>9 DEF Queued
<1> QED
  BY <1>10 DEF v, u

\* A batch leaves the queue, and every request in it that still waits is answered.
LEMMA BatchLeaves ==
    ASSUME NEW outcome \in {"answered", "failed"}, TypeOK, Queued(queue, req),
           ProcessBatch(outcome)
    PROVE  /\ Queued(queue', req')
           /\ \A s \in Requests : req[s] = "locked" => req'[s] = "locked"
<1> DEFINE b == BatchSize
           n == Len(queue)
           batch == ToSet(SubSeq(queue, 1, b))
           rest == SubSeq(queue, b + 1, n)
<1>0. n \in Nat /\ queue \in Seq(Requests) /\ DOMAIN queue = 1..n
      /\ \A i \in 1..n : queue[i] \in Requests
  BY DEF TypeOK
<1>1. b \in 0..n
  BY <1>0, StreamAssumption DEF BatchSize
<1>2. queue' = rest
      /\ req' = [s \in Requests |-> IF s \in batch /\ req[s] = "queued" THEN outcome ELSE req[s]]
  BY DEF ProcessBatch
<1> HIDE DEF b, n
<1>3. \A s : s \in batch <=> \E i \in 1..b : queue[i] = s
  <2> DEFINE h == 1
             front == SubSeq(queue, h, b)
  <2>1. \A i \in h..b : queue[i] \in Requests
    BY <1>0, <1>1
  <2> HIDE DEF h
  <2>2. h \in Int /\ b \in Int /\ h = 1
    BY <1>0, <1>1 DEF h
  <2>3. front \in Seq(Requests) /\ Len(front) = (IF h <= b THEN b - h + 1 ELSE 0)
        /\ \A i \in 1..(b - h + 1) : front[i] = queue[h + i - 1]
    BY <2>1, <2>2, SubSeqProperties
  <2>4. Len(front) = b /\ \A i \in 1..b : front[i] = queue[i]
    BY <1>0, <1>1, <2>2, <2>3
  <2> HIDE DEF front
  <2>5. DOMAIN front = 1..b
    BY <2>3, <2>4
  <2>6. ToSet(front) = {front[i] : i \in DOMAIN front}
    BY DEF ToSet
  <2>7. batch = ToSet(front)
    BY DEF front, h
  <2> QED
    BY <2>4, <2>5, <2>6, <2>7
<1>4. rest \in Seq(Requests) /\ DOMAIN rest = 1..n - b /\ \A i \in 1..n - b : rest[i] = queue[b + i]
  <2> DEFINE h == b + 1
  <2>1. h \in Int /\ n \in Int /\ \A i \in h..n : queue[i] \in Requests
    BY <1>0, <1>1
  <2> HIDE DEF h
  <2>2. SubSeq(queue, h, n) \in Seq(Requests)
        /\ Len(SubSeq(queue, h, n)) = (IF h <= n THEN n - h + 1 ELSE 0)
        /\ \A i \in 1..(n - h + 1) : SubSeq(queue, h, n)[i] = queue[h + i - 1]
    BY <2>1, SubSeqProperties
  <2>3. n - h + 1 = n - b /\ (h <= n \/ n - b = 0) /\ \A i \in 1..n - b : h + i - 1 = b + i
    BY <1>0, <1>1 DEF h
  <2>4. rest = SubSeq(queue, h, n)
    BY DEF h
  <2> HIDE DEF rest
  <2>5. Len(rest) = n - b
    <3>1. Len(rest) = (IF h <= n THEN n - b ELSE 0)
      BY <2>2, <2>3, <2>4
    <3> QED
      BY <2>3, <3>1
  <2>6. DOMAIN rest = 1..n - b
    BY <2>2, <2>4, <2>5
  <2> QED
    BY <2>2, <2>3, <2>4, <2>6
<1> HIDE DEF batch, rest
<1>5. req' \in [Requests -> RequestState]
  BY <1>2 DEF Queued, RequestState
<1>6. \A i \in 1..n - b : b + i \in 1..n /\ b + i \notin 1..b
  BY <1>0, <1>1
<1>7. \A i \in 1..n : i \in 1..b \/ \E k \in 1..n - b : b + k = i
  <2> SUFFICES ASSUME NEW i \in 1..n, i \notin 1..b PROVE \E k \in 1..n - b : b + k = i
    OBVIOUS
  <2>1. i - b \in 1..n - b /\ b + (i - b) = i
    BY <1>0, <1>1
  <2> QED
    BY <2>1
<1>8. \A i \in 1..b : i \in 1..n
  BY <1>0, <1>1
<1>9. \A i, j \in 1..n - b : rest[i] = rest[j] => i = j
  <2> SUFFICES ASSUME NEW i \in 1..n - b, NEW j \in 1..n - b, rest[i] = rest[j] PROVE i = j
    OBVIOUS
  <2>1. b + i = b + j
    BY <1>0, <1>4, <1>6 DEF Queued
  <2> QED
    BY <1>0, <1>1, <2>1
<1>10. ASSUME NEW i \in 1..n - b PROVE req'[rest[i]] \in {"queued", "gone"}
  <2>1. rest[i] \notin batch
    BY <1>0, <1>3, <1>4, <1>6, <1>8 DEF Queued
  <2>2. rest[i] \in Requests /\ req[rest[i]] \in {"queued", "gone"}
    BY <1>0, <1>4, <1>6 DEF Queued
  <2> QED
    BY <1>2, <2>1, <2>2
<1>11. ASSUME NEW s \in Requests, req'[s] = "queued" PROVE \E i \in 1..n - b : rest[i] = s
  <2>1. req[s] = "queued" /\ s \notin batch
    BY <1>2, <1>11
  <2>2. PICK i \in 1..n : queue[i] = s
    BY <1>0, <2>1 DEF Queued
  <2>3. i \notin 1..b
    BY <1>3, <2>1, <2>2
  <2> QED
    BY <1>4, <1>7, <2>2, <2>3
<1>12. Queued(queue', req')
  BY <1>2, <1>4, <1>5, <1>9, <1>10, <1>11 DEF Queued
<1> QED
  BY <1>2, <1>12

-----------------------------------------------------------------------------
(* The steps.                                                                *)

LEMMA TurnWaits ==
    ASSUME TypeOK, NEW task, Turn(task)
    PROVE  lock = Nobody /\ \E i \in DOMAIN waiters : waiters[i] = task
  BY DEF Turn, Waiting

\* The part of the type invariant that no arithmetic touches, and the rest.
StatesTyped ==
    /\ req \in [Requests -> RequestState]
    /\ queue \in Seq(Requests)
    /\ processing \in BOOLEAN
    /\ batchTask \in Requests \cup {Nobody}
    /\ loop \in [Requests -> LoopState]
    /\ cancelled \subseteq Requests
    /\ lock \in Requests \cup {Nobody}
    /\ waiters \in Seq(Task)
    /\ shutdown \in {"no", "drain", "lock", "join", "done"}
    /\ joined \in Requests \cup {Nobody}

LEMMA TypedParts == TypeOK <=> StatesTyped /\ age \in [Requests -> 0..MaxWait]
  BY DEF TypeOK, StatesTyped

LEMMA TypedPartsNext == TypeOK' <=> StatesTyped' /\ age' \in [Requests -> 0..MaxWait]
  BY DEF TypeOK, StatesTyped

\* What a step has to establish.
Step == /\ StatesTyped' /\ Queued(queue', req') /\ ProcessingHonest' /\ IdleMeansEmpty'
        /\ ClientsWait(waiters', req')

LEMMA StepSuffices ==
    ASSUME Step, age' \in [Requests -> 0..MaxWait]
    PROVE  StreamInv'
<1>1. TypeOK'
  BY TypedPartsNext DEF Step
<1>2. UnansweredQueued'
  BY <1>1, QueuedMeansNext DEF Step
<1>3. ClientsWait(waiters, req)'
  BY DEF Step, ClientsWait
<1> QED
  BY <1>1, <1>2, <1>3 DEF StreamInv, Step

\* The invariant, as the steps use it.
Now == /\ StatesTyped /\ Queued(queue, req) /\ ProcessingHonest /\ IdleMeansEmpty
       /\ ClientsWait(waiters, req)

LEMMA InvNow == StreamInv => Now /\ TypeOK
  BY QueuedMeans, TypedParts DEF StreamInv, Now

LEMMA TaskIsClient ==
    ASSUME NEW task \in Task, task.kind = "client", NEW r, task.id = r
    PROVE  task = Client(r)
  BY DEF Task, Client

LEMMA EnqueueStep ==
    ASSUME Now, NEW r \in Requests, Enqueue(r), req[r] \in {"new", "locked"}, lock = Nobody,
           UNCHANGED <<processing, lock>>
    PROVE  /\ Queued(queue', req') /\ req' = [req EXCEPT ![r] = "queued"]
           /\ req' \in [Requests -> RequestState] /\ queue' \in Seq(Requests)
           /\ loop' \in [Requests -> LoopState] /\ batchTask' \in Requests \cup {Nobody}
           /\ ProcessingHonest' /\ IdleMeansEmpty'
<1>1. queue' = Append(queue, r) /\ req' = [req EXCEPT ![r] = "queued"]
  BY DEF Enqueue
<1>2. Queued(Append(queue, r), [req EXCEPT ![r] = "queued"])
  BY QueueGrows DEF Now
<1>3. Queued(queue', req')
  BY <1>1, <1>2
<1>4. loop' \in [Requests -> LoopState] /\ batchTask' \in Requests \cup {Nobody}
  BY DEF Enqueue, Now, StatesTyped, LoopState
<1>5. ProcessingHonest' /\ IdleMeansEmpty'
  BY DEF Enqueue, Now, ProcessingHonest, IdleMeansEmpty
<1> QED
  BY <1>1, <1>3, <1>4, <1>5 DEF Queued

LEMMA PredictStep ==
    ASSUME Now, NEW r \in Requests, PredictAsync(r)
    PROVE  Step
<1>0. req[r] = "new" /\ UNCHANGED <<age, processing, cancelled, lock, shutdown, joined>>
  BY DEF PredictAsync
<1>1. CASE LockFree
  <2>1. Enqueue(r) /\ waiters' = waiters /\ lock = Nobody
    BY <1>1 DEF PredictAsync, LockFree
  <2>2. /\ Queued(queue', req') /\ req' = [req EXCEPT ![r] = "queued"]
        /\ req' \in [Requests -> RequestState] /\ queue' \in Seq(Requests)
        /\ loop' \in [Requests -> LoopState] /\ batchTask' \in Requests \cup {Nobody}
        /\ ProcessingHonest' /\ IdleMeansEmpty'
    BY <1>0, <2>1, EnqueueStep
  <2>3. ClientsWait(waiters', req')
    BY <1>0, <2>1, <2>2 DEF Now, StatesTyped, ClientsWait
  <2> QED
    BY <1>0, <2>1, <2>2, <2>3 DEF Step, Now, StatesTyped
<1>2. CASE ~LockFree
  <2>1. /\ req' = [req EXCEPT ![r] = "locked"] /\ waiters' = Append(waiters, Client(r))
        /\ UNCHANGED <<queue, loop, batchTask>>
    BY <1>2 DEF PredictAsync
  <2>2. Client(r) \in Task /\ Client(r).kind = "client" /\ Client(r).id = r
    BY DEF Client, Task
  <2>3. req' \in [Requests -> RequestState]
    BY <2>1 DEF Now, StatesTyped, RequestState
  <2>4. ClientsWait(waiters, req') /\ \A i \in DOMAIN waiters : waiters[i] # Client(r)
    BY <1>0, <2>1, <2>2 DEF Now, StatesTyped, ClientsWait
  <2>5. waiters' \in Seq(Task) /\ ClientsWait(waiters', req')
    <3>1. req'[r] = "locked" /\ waiters \in Seq(Task)
      BY <2>1 DEF Now, StatesTyped
    <3>2. Append(waiters, Client(r)) \in Seq(Task) /\ ClientsWait(Append(waiters, Client(r)), req')
      BY <2>2, <2>4, <3>1, MoreWait
    <3> QED
      BY <2>1, <3>2
  <2>6. Queued(queue', req')
    <3>1. \A s \in Requests : s # r => req'[s] = req[s]
      BY <2>1 DEF Now, StatesTyped
    <3>2. \A i \in DOMAIN queue : queue[i] # r /\ queue[i] \in Requests
      BY <1>0 DEF Now, Queued
    <3>3. req'[r] = "locked"
      BY <2>1 DEF Now, StatesTyped
    <3> QED
      BY <2>1, <2>3, <3>1, <3>2, <3>3 DEF Now, Queued
  <2>7. ProcessingHonest' /\ IdleMeansEmpty'
    BY <1>0, <2>1 DEF Now, ProcessingHonest, IdleMeansEmpty
  <2> QED
    BY <1>0, <2>1, <2>3, <2>5, <2>6, <2>7 DEF Step, Now, StatesTyped
<1> QED
  BY <1>1, <1>2

\* A client that stops waiting is not among the waiters, whatever becomes of it.
LEMMA ClientLeaves ==
    ASSUME Now, NEW r \in Requests, NEW state
    PROVE  /\ Without(waiters, Client(r)) \in Seq(Task)
           /\ ClientsWait(Without(waiters, Client(r)), [req EXCEPT ![r] = state])
<1> DEFINE left == Without(waiters, Client(r))
           u == [req EXCEPT ![r] = state]
<1>1. left \in Seq(Task) /\ Left(left, waiters, Client(r))
  BY WithoutLeaves DEF Now, StatesTyped
<1>2. waiters \in Seq(Task) /\ ClientsWait(waiters, req)
  BY DEF Now, StatesTyped
<1>3. Client(r).kind = "client"
  BY DEF Client
<1> HIDE DEF left
<1>4. ClientsWait(left, req) /\ \A i \in DOMAIN left : left[i] # Client(r)
  BY <1>1, <1>2, <1>3, FewerWait
<1>5. \A i \in DOMAIN left : left[i].kind = "client" => left[i].id # r
  BY <1>1, <1>4, TaskIsClient
<1>6. \A s \in Requests : s # r => u[s] = req[s]
  BY DEF Now, StatesTyped
<1> HIDE DEF u
<1>7. ClientsWait(left, u)
  BY <1>4, <1>5, <1>6 DEF ClientsWait
<1> QED
  BY <1>1, <1>7 DEF left, u

LEMMA EntersStep ==
    ASSUME Now, NEW r \in Requests, ClientEnters(r)
    PROVE  Step
<1>0. /\ Turn(Client(r)) /\ Enqueue(r) /\ waiters' = Without(waiters, Client(r))
      /\ UNCHANGED <<age, processing, cancelled, lock, shutdown, joined>>
  BY DEF ClientEnters
<1>1. lock = Nobody /\ req[r] = "locked"
  <2>1. lock = Nobody /\ \E i \in DOMAIN waiters : waiters[i] = Client(r)
    BY <1>0 DEF Turn, Waiting
  <2> QED
    BY <2>1 DEF Now, ClientsWait, Client
<1>2. /\ Queued(queue', req') /\ req' = [req EXCEPT ![r] = "queued"]
      /\ req' \in [Requests -> RequestState] /\ queue' \in Seq(Requests)
      /\ loop' \in [Requests -> LoopState] /\ batchTask' \in Requests \cup {Nobody}
      /\ ProcessingHonest' /\ IdleMeansEmpty'
  BY <1>0, <1>1, EnqueueStep
<1>3. waiters' \in Seq(Task) /\ ClientsWait(waiters', req')
  BY <1>0, <1>2, ClientLeaves
<1> QED
  BY <1>0, <1>2, <1>3 DEF Step, Now, StatesTyped

LEMMA GoneStep ==
    ASSUME Now, NEW r \in Requests, ClientGone(r)
    PROVE  Step
<1>0. /\ req' = [req EXCEPT ![r] = "gone"] /\ waiters' = Without(waiters, Client(r))
      /\ UNCHANGED <<age, queue, processing, batchTask, loop, cancelled, lock, shutdown, joined>>
  BY DEF ClientGone
<1>1. waiters' \in Seq(Task) /\ ClientsWait(waiters', req')
  BY <1>0, ClientLeaves
<1>2. req' \in [Requests -> RequestState]
  BY <1>0 DEF Now, StatesTyped, RequestState
<1>3. Queued(queue', req')
  <2>1. req'[r] = "gone" /\ \A s \in Requests : s # r => req'[s] = req[s]
    BY <1>0 DEF Now, StatesTyped
  <2>2. \A i \in DOMAIN queue : queue[i] \in Requests
    BY DEF Now, Queued
  <2> QED
    BY <1>0, <1>2, <2>1, <2>2 DEF Now, Queued
<1>4. ProcessingHonest' /\ IdleMeansEmpty'
  BY <1>0 DEF Now, ProcessingHonest, IdleMeansEmpty
<1> QED
  BY <1>0, <1>1, <1>2, <1>3, <1>4 DEF Step, Now, StatesTyped

\* A loop that waits for the lock.
LEMMA LoopWaits ==
    ASSUME NEW w \in Seq(Task), NEW u, ClientsWait(w, u), NEW r \in Requests
    PROVE  Append(w, LoopOf(r)) \in Seq(Task) /\ ClientsWait(Append(w, LoopOf(r)), u)
<1>1. LoopOf(r) \in Task /\ LoopOf(r).kind # "client"
  BY DEF LoopOf, Task
<1> QED
  BY <1>1, MoreWait

LEMMA LoopLeaves ==
    ASSUME Now, NEW r \in Requests
    PROVE  /\ Without(waiters, LoopOf(r)) \in Seq(Task)
           /\ ClientsWait(Without(waiters, LoopOf(r)), req)
<1>1. waiters \in Seq(Task) /\ ClientsWait(waiters, req)
  BY DEF Now, StatesTyped
<1> QED
  BY <1>1, WithoutLeaves, FewerWait

\* A batch may leave the queue; nobody who waits for the lock is in it.
LEMMA MayLeave ==
    ASSUME Now, TypeOK, NEW left \in Seq(Task), ClientsWait(left, req),
           \/ \E outcome \in {"answered", "failed"} : ProcessBatch(outcome)
           \/ UNCHANGED <<queue, req>>
    PROVE  /\ Queued(queue', req') /\ req' \in [Requests -> RequestState]
           /\ queue' \in Seq(Requests) /\ ClientsWait(left, req')
<1>1. CASE UNCHANGED <<queue, req>>
  BY <1>1 DEF Now, Queued
<1>2. CASE \E outcome \in {"answered", "failed"} : ProcessBatch(outcome)
  <2>1. Queued(queue', req') /\ \A s \in Requests : req[s] = "locked" => req'[s] = "locked"
    BY <1>2, BatchLeaves DEF Now
  <2>2. ClientsWait(left, req')
    BY <2>1 DEF ClientsWait
  <2> QED
    BY <2>1, <2>2 DEF Queued
<1> QED
  BY <1>1, <1>2

LEMMA IterationStep ==
    ASSUME Now, TypeOK, NEW r \in Requests, NEW left \in Seq(Task), ClientsWait(left, req),
           loop[r] \in {"poll", "fetch"}, lock = Nobody, Iteration(r, left),
           UNCHANGED <<age, processing, batchTask, cancelled, shutdown, joined>>
    PROVE  Step
<1>1. \/ \E outcome \in {"answered", "failed"} : ProcessBatch(outcome)
      \/ UNCHANGED <<queue, req>>
  BY DEF Iteration
<1>2. /\ Queued(queue', req') /\ req' \in [Requests -> RequestState]
      /\ queue' \in Seq(Requests) /\ ClientsWait(left, req')
  BY <1>1, MayLeave
<1>3. \/ /\ queue' = <<>> /\ loop' = [loop EXCEPT ![r] = "idle"] /\ lock' = r /\ waiters' = left
      \/ /\ loop' = [loop EXCEPT ![r] = "poll"] /\ lock' = lock /\ waiters' = left
      \/ /\ loop' = [loop EXCEPT ![r] = "check"] /\ lock' = lock
         /\ waiters' = Append(left, LoopOf(r))
  BY DEF Iteration, CheckQueue
<1>4. waiters' \in Seq(Task) /\ ClientsWait(waiters', req')
  BY <1>2, <1>3, LoopWaits
<1>5. loop \in [Requests -> LoopState]
  BY DEF Now, StatesTyped
<1>6. loop' \in [Requests -> LoopState] /\ lock' \in Requests \cup {Nobody}
  BY <1>3, <1>5 DEF LoopState
<1>7. ProcessingHonest'
  BY <1>3, <1>5 DEF ProcessingHonest
<1>8. IdleMeansEmpty'
  BY <1>3, <1>5 DEF IdleMeansEmpty
<1> QED
  BY <1>2, <1>4, <1>6, <1>7, <1>8 DEF Step, Now, StatesTyped

LEMMA LoopStepStep ==
    ASSUME Now, TypeOK, NEW r \in Requests, LoopStep(r)
    PROVE  Step
<1>0. loop \in [Requests -> LoopState] /\ waiters \in Seq(Task) /\ ClientsWait(waiters, req)
  BY DEF Now, StatesTyped
<1>1. CASE StartLoop(r)
  <2>1. /\ loop[r] = "new" /\ processing' = TRUE /\ loop' = [loop EXCEPT ![r] = "poll"]
        /\ UNCHANGED <<req, age, queue, batchTask, cancelled, lock, waiters, shutdown, joined>>
    BY <1>1 DEF StartLoop
  <2>2. ProcessingHonest' /\ IdleMeansEmpty' /\ loop' \in [Requests -> LoopState]
    BY <1>0, <2>1 DEF Now, ProcessingHonest, IdleMeansEmpty, LoopState
  <2> QED
    BY <2>1, <2>2 DEF Step, Now, StatesTyped, Queued
<1>2. CASE PollLoop(r) /\ LockFree
  <2>1. /\ loop[r] = "poll" /\ Iteration(r, waiters) /\ lock = Nobody
        /\ UNCHANGED <<age, processing, batchTask, cancelled, shutdown, joined>>
    BY <1>2 DEF PollLoop, LockFree
  <2> QED
    BY <1>0, <2>1, IterationStep
<1>3. CASE PollLoop(r) /\ ~LockFree
  <2>1. /\ loop[r] = "poll" /\ loop' = [loop EXCEPT ![r] = "fetch"]
        /\ waiters' = Append(waiters, LoopOf(r))
        /\ UNCHANGED <<req, queue, lock, age, processing, batchTask, cancelled, shutdown, joined>>
    BY <1>3 DEF PollLoop
  <2>2. ProcessingHonest' /\ IdleMeansEmpty' /\ loop' \in [Requests -> LoopState]
    BY <1>0, <2>1 DEF Now, ProcessingHonest, IdleMeansEmpty, LoopState
  <2>3. waiters' \in Seq(Task) /\ ClientsWait(waiters', req')
    BY <1>0, <2>1, LoopWaits
  <2> QED
    BY <2>1, <2>2, <2>3 DEF Step, Now, StatesTyped, Queued
<1>4. CASE FetchLoop(r)
  <2>1. /\ loop[r] = "fetch" /\ Turn(LoopOf(r)) /\ Iteration(r, Without(waiters, LoopOf(r)))
        /\ UNCHANGED <<age, processing, batchTask, cancelled, shutdown, joined>>
    BY <1>4 DEF FetchLoop
  <2>2. lock = Nobody
    BY <2>1 DEF Turn
  <2> QED
    BY <2>1, <2>2, LoopLeaves, IterationStep
<1>5. CASE CheckLoop(r)
  <2>1. /\ loop[r] = "check" /\ lock = Nobody /\ waiters' = Without(waiters, LoopOf(r))
        /\ \/ queue = <<>> /\ loop' = [loop EXCEPT ![r] = "idle"] /\ lock' = r
           \/ loop' = [loop EXCEPT ![r] = "poll"] /\ lock' = lock
        /\ UNCHANGED <<req, age, queue, processing, batchTask, cancelled, shutdown, joined>>
    BY <1>5 DEF CheckLoop, CheckQueue, Turn
  <2>2. /\ ProcessingHonest' /\ IdleMeansEmpty' /\ loop' \in [Requests -> LoopState]
        /\ lock' \in Requests \cup {Nobody}
    BY <1>0, <2>1 DEF Now, ProcessingHonest, IdleMeansEmpty, LoopState
  <2>3. waiters' \in Seq(Task) /\ ClientsWait(waiters', req')
    BY <2>1, LoopLeaves
  <2> QED
    BY <2>1, <2>2, <2>3 DEF Step, Now, StatesTyped, Queued
<1>6. CASE IdleLoop(r)
  <2>1. /\ loop[r] = "idle" /\ lock' = Nobody
        /\ \/ loop' = [loop EXCEPT ![r] = "ended"] /\ processing' = FALSE
           \/ loop' = [loop EXCEPT ![r] = "poll"] /\ processing' = processing
        /\ UNCHANGED <<req, age, queue, batchTask, cancelled, waiters, shutdown, joined>>
    BY <1>6 DEF IdleLoop
  <2>2. /\ ProcessingHonest' /\ IdleMeansEmpty' /\ loop' \in [Requests -> LoopState]
    BY <1>0, <2>1 DEF Now, ProcessingHonest, IdleMeansEmpty, LoopState
  <2>3. processing' \in BOOLEAN
    BY <2>1 DEF Now, StatesTyped
  <2> QED
    BY <2>1, <2>2, <2>3 DEF Step, Now, StatesTyped, Queued
<1>7. CASE CancelledLoop(r)
  <2>1. /\ loop' = [loop EXCEPT ![r] = "ended"]
        /\ processing' = (loop[r] = "new" /\ processing)
        /\ lock' = IF lock = r THEN Nobody ELSE lock
        /\ waiters' = Without(waiters, LoopOf(r))
        /\ UNCHANGED <<req, age, queue, batchTask, cancelled, shutdown, joined>>
    BY <1>7 DEF CancelledLoop
  <2>2. ProcessingHonest'
    BY <1>0, <2>1 DEF Now, ProcessingHonest
  <2>3. IdleMeansEmpty'
    BY <1>0, <2>1 DEF Now, IdleMeansEmpty, StatesTyped
  <2>4. loop' \in [Requests -> LoopState] /\ processing' \in BOOLEAN
        /\ lock' \in Requests \cup {Nobody}
    BY <1>0, <2>1 DEF LoopState, Now, StatesTyped
  <2>5. waiters' \in Seq(Task) /\ ClientsWait(waiters', req')
    BY <2>1, LoopLeaves
  <2> QED
    BY <2>1, <2>2, <2>3, <2>4, <2>5 DEF Step, Now, StatesTyped, Queued
<1> QED
  BY <1>1, <1>2, <1>3, <1>4, <1>5, <1>6, <1>7 DEF LoopStep

LEMMA ShutdownStepStep ==
    ASSUME Now, TypeOK, ShutdownStep \/ BeginShutdown
    PROVE  Step
<1>0. waiters \in Seq(Task) /\ ClientsWait(waiters, req)
      /\ ShutdownTask \in Task /\ ShutdownTask.kind # "client"
  BY DEF Now, StatesTyped, ShutdownTask, Task
\* A batch may leave the queue while nobody holds the lock.
<1>a. ASSUME \/ \E outcome \in {"answered", "failed"} : ProcessBatch(outcome)
             \/ UNCHANGED <<queue, req>>,
             lock = Nobody, shutdown' \in {"drain", "lock"},
             waiters' \in Seq(Task), ClientsWait(waiters', req),
             UNCHANGED <<age, processing, batchTask, loop, cancelled, lock, joined>>
      PROVE  Step
  <2>1. /\ Queued(queue', req') /\ req' \in [Requests -> RequestState]
        /\ queue' \in Seq(Requests) /\ ClientsWait(waiters', req')
    BY <1>a, MayLeave
  <2>2. ProcessingHonest' /\ IdleMeansEmpty'
    BY <1>a DEF Now, ProcessingHonest, IdleMeansEmpty
  <2> QED
    BY <1>a, <2>1, <2>2 DEF Step, Now, StatesTyped
<1>1. CASE DrainBatch /\ LockFree
  <2>1. /\ \E outcome \in {"answered", "failed"} : ProcessBatch(outcome)
        /\ UNCHANGED <<waiters, shutdown, age, processing, batchTask, loop, cancelled, lock, joined>>
        /\ lock = Nobody /\ shutdown = "drain"
    BY <1>1 DEF DrainBatch, LockFree
  <2> QED
    BY <1>0, <1>a, <2>1
<1>2. CASE DrainBatch /\ ~LockFree
  <2>1. /\ waiters' = Append(waiters, ShutdownTask) /\ shutdown' = "lock"
        /\ UNCHANGED <<req, queue, age, processing, batchTask, loop, cancelled, lock, joined>>
    BY <1>2 DEF DrainBatch
  <2>2. waiters' \in Seq(Task) /\ ClientsWait(waiters', req')
    <3>1. Append(waiters, ShutdownTask) \in Seq(Task)
          /\ ClientsWait(Append(waiters, ShutdownTask), req)
      BY <1>0, MoreWait
    <3> QED
      BY <2>1, <3>1
  <2>3. ProcessingHonest' /\ IdleMeansEmpty'
    BY <2>1 DEF Now, ProcessingHonest, IdleMeansEmpty
  <2> QED
    BY <2>1, <2>2, <2>3 DEF Step, Now, StatesTyped, Queued
<1>3. CASE ShutdownEnters
  <2>1. /\ lock = Nobody /\ waiters' = Without(waiters, ShutdownTask) /\ shutdown' = "drain"
        /\ \/ \E outcome \in {"answered", "failed"} : ProcessBatch(outcome)
           \/ UNCHANGED <<req, queue>>
        /\ UNCHANGED <<age, processing, batchTask, loop, cancelled, lock, joined>>
    BY <1>3 DEF ShutdownEnters, Turn
  <2>2. waiters' \in Seq(Task) /\ ClientsWait(waiters', req)
    BY <1>0, <2>1, WithoutLeaves, FewerWait
  <2> QED
    BY <1>a, <2>1, <2>2
<1>4. CASE CancelBatchTask \/ EndShutdown \/ BeginShutdown
  <2>1. /\ UNCHANGED <<req, age, queue, loop, lock, waiters>>
        /\ processing' = processing \/ processing' = FALSE
    BY <1>4 DEF CancelBatchTask, EndShutdown, BeginShutdown
  <2>2. ProcessingHonest' /\ IdleMeansEmpty'
    BY <2>1 DEF Now, ProcessingHonest, IdleMeansEmpty
  <2>3. /\ processing' \in BOOLEAN
        /\ batchTask' \in Requests \cup {Nobody} /\ cancelled' \subseteq Requests
        /\ shutdown' \in {"no", "drain", "lock", "join", "done"}
        /\ joined' \in Requests \cup {Nobody}
    BY <1>4 DEF CancelBatchTask, EndShutdown, BeginShutdown, Now, StatesTyped
  <2> QED
    BY <2>1, <2>2, <2>3 DEF Step, Now, StatesTyped, Queued
<1> QED
  BY <1>1, <1>2, <1>3, <1>4 DEF ShutdownStep

LEMMA TickStep ==
    ASSUME Now, age \in [Requests -> 0..MaxWait], Tick
    PROVE  Step /\ age' \in [Requests -> 0..MaxWait]
<1>1. UNCHANGED <<req, queue, processing, batchTask, loop, cancelled, lock, waiters, shutdown,
                  joined>>
  BY DEF Tick
<1>2. Step
  BY <1>1 DEF Step, Now, StatesTyped, Queued, ProcessingHonest, IdleMeansEmpty
<1>3. MaxWait \in Nat
  BY StreamAssumption
<1>4. age' = [r \in Requests |-> IF r \notin Ageing THEN 0
                                ELSE IF age[r] < MaxWait THEN age[r] + 1 ELSE MaxWait]
  BY DEF Tick
<1>5. ASSUME NEW r \in Requests PROVE age'[r] \in 0..MaxWait
  <2>1. age[r] \in 0..MaxWait
    OBVIOUS
  <2>2. age'[r] = 0 \/ age'[r] = MaxWait \/ (age[r] < MaxWait /\ age'[r] = age[r] + 1)
    BY <1>4
  <2> QED
    BY <1>3, <2>1, <2>2
<1> QED
  BY <1>2, <1>4, <1>5

LEMMA StreamStepInv == StreamInv /\ [Next]_vars => StreamInv'
<1> SUFFICES ASSUME StreamInv, [Next]_vars PROVE StreamInv'
  OBVIOUS
<1>0. Now /\ TypeOK /\ age \in [Requests -> 0..MaxWait]
  BY InvNow, TypedParts
<1>1. ASSUME NEW r \in Requests, PredictAsync(r) \/ ClientEnters(r) \/ ClientGone(r)
      PROVE  StreamInv'
  <2>1. age' = age
    BY <1>1 DEF PredictAsync, ClientEnters, ClientGone
  <2>2. Step
    BY <1>0, <1>1, PredictStep, EntersStep, GoneStep
  <2> QED
    BY <1>0, <2>1, <2>2, StepSuffices
<1>2. ASSUME NEW r \in Requests, LoopStep(r) PROVE StreamInv'
  <2>1. age' = age
    BY <1>2 DEF LoopStep, StartLoop, PollLoop, FetchLoop, CheckLoop, IdleLoop, CancelledLoop
  <2>2. Step
    BY <1>0, <1>2, LoopStepStep
  <2> QED
    BY <1>0, <2>1, <2>2, StepSuffices
<1>3. CASE ShutdownStep \/ BeginShutdown
  <2>1. age' = age
    BY <1>3 DEF ShutdownStep, BeginShutdown, DrainBatch, ShutdownEnters, CancelBatchTask, EndShutdown
  <2>2. Step
    BY <1>0, <1>3, ShutdownStepStep
  <2> QED
    BY <1>0, <2>1, <2>2, StepSuffices
<1>4. CASE Tick
  BY <1>0, <1>4, TickStep, StepSuffices
<1>5. CASE UNCHANGED vars
  BY <1>5 DEF vars, StreamInv, TypeOK, UnansweredQueued, ProcessingHonest, IdleMeansEmpty, ClientsWait
<1> QED
  BY <1>1, <1>2, <1>3, <1>4, <1>5 DEF Next

-----------------------------------------------------------------------------
(* The theorems.                                                             *)

\* The inductive invariant of the stream processor.
THEOREM StreamInvariant == Spec => []StreamInv
  BY StreamInitInv, StreamStepInv, PTL DEF Spec

\* StreamProcessor keeps the types of its state, whatever is cancelled.
THEOREM StreamTypeCorrect == Spec => []TypeOK
<1>1. StreamInv => TypeOK
  BY DEF StreamInv
<1> QED
  BY <1>1, StreamInvariant, PTL

\* _process_single_batch answers what it pops: a client that waits for its future has its
\* request in the queue, once, also while shutdown() and several loops drain it.
THEOREM WaitingIsQueued == Spec => []UnansweredQueued
<1>1. StreamInv => UnansweredQueued
  BY DEF StreamInv
<1> QED
  BY <1>1, StreamInvariant, PTL

\* The `finally` of _process_batches and shutdown() reset _processing no later than the
\* last loop ends.
THEOREM ProcessingIsHonest == Spec => []ProcessingHonest
<1>1. StreamInv => ProcessingHonest
  BY DEF StreamInv
<1> QED
  BY <1>1, StreamInvariant, PTL

\* _process_batches sleeps inside the lock on an empty queue, which stays empty.
THEOREM SleepsOnEmpty == Spec => []IdleMeansEmpty
<1>1. StreamInv => IdleMeansEmpty
  BY DEF StreamInv
<1> QED
  BY <1>1, StreamInvariant, PTL

\* Until shutdown() has drained the queue, predict_async always leaves a loop that will
\* serve it.
THEOREM QueueIsServed == Spec => []QueueServed
<1>1. Init => ServedYet
  BY DEF Init, ServedYet, Served
<1>2. StreamInv /\ ServedYet /\ [Next]_vars => ServedYet'
  <2> SUFFICES ASSUME StreamInv, ServedYet, [Next]_vars PROVE ServedYet'
    OBVIOUS
  <2>a. ASSUME Drained PROVE Drained'
    <3>1. shutdown # "no" /\ shutdown # "drain" /\ shutdown # "lock"
      BY <2>a DEF Drained
    <3>2. ASSUME NEW r \in Requests, \/ PredictAsync(r) \/ ClientEnters(r) \/ ClientGone(r)
                                     \/ LoopStep(r)
          PROVE  shutdown' = shutdown
      BY <3>2 DEF LoopStep, StartLoop, PollLoop, FetchLoop, CheckLoop, IdleLoop, CancelledLoop,
         PredictAsync, ClientEnters, ClientGone
    <3>3. ASSUME Tick \/ UNCHANGED vars PROVE shutdown' = shutdown
      BY <3>3 DEF Tick, vars
    <3>4. ~BeginShutdown /\ ~DrainBatch /\ ~ShutdownEnters /\ ~CancelBatchTask
      BY <3>1 DEF BeginShutdown, DrainBatch, ShutdownEnters, CancelBatchTask
    <3>5. ASSUME EndShutdown PROVE shutdown' = "done"
      BY <3>5 DEF EndShutdown
    <3> QED
      BY <2>a, <3>2, <3>3, <3>4, <3>5 DEF Next, ShutdownStep, Drained
  <2> SUFFICES ASSUME ~Drained, ~Drained' PROVE cancelled' = {} /\ Served'
    BY <2>a DEF ServedYet
  <2>0. Now /\ loop \in [Requests -> LoopState] /\ queue \in Seq(Requests)
        /\ cancelled = {} /\ Served
    BY InvNow DEF TypeOK, ServedYet
  <2>1. ~CancelBatchTask /\ ~EndShutdown
    BY DEF CancelBatchTask, EndShutdown, Drained
  <2>2. cancelled' = {}
    BY <2>0, <2>1 DEF Next, vars, LoopStep, StartLoop, PollLoop, FetchLoop, CheckLoop, IdleLoop,
       CancelledLoop, PredictAsync, ClientEnters, ClientGone, BeginShutdown, Tick,
       ShutdownStep, DrainBatch, ShutdownEnters
  <2> DEFINE Lives(r) == loop[r] \notin {"none", "ended"}
             LivesNext(r) == loop'[r] \notin {"none", "ended"}
  <2>3. (queue # <<>> => \E r \in Requests : Lives(r))
        /\ (Served' <=> (queue' # <<>> => \E r \in Requests : LivesNext(r)))
    BY <2>0, <2>2 DEF Served, Alive
  <2>4. ASSUME NEW r \in Requests, Enqueue(r) PROVE \E s \in Requests : LivesNext(s)
    <3>1. CASE processing
      BY <2>0, <2>4, <3>1 DEF Enqueue, StreamInv, ProcessingHonest
    <3>2. CASE ~processing
      BY <2>0, <2>4, <3>2 DEF Enqueue
    <3> QED
      BY <3>1, <3>2
  <2>5. ASSUME NEW r \in Requests, PredictAsync(r) \/ ClientEnters(r) PROVE Served'
    <3>1. Enqueue(r) \/ UNCHANGED <<queue, loop>>
      BY <2>5 DEF PredictAsync, ClientEnters
    <3> QED
      BY <2>3, <2>4, <3>1
  <2>6. ASSUME NEW r \in Requests, LoopStep(r) PROVE Served'
    <3>1. \/ loop'[r] \in {"poll", "fetch", "check", "idle"}
          \/ loop'[r] = "ended" /\ queue' = <<>>
      <4>1. CASE IdleLoop(r)
        BY <2>0, <4>1 DEF IdleLoop
      <4>2. CASE StartLoop(r) \/ PollLoop(r) \/ FetchLoop(r) \/ CheckLoop(r)
        BY <2>0, <4>2 DEF StartLoop, PollLoop, FetchLoop, CheckLoop, Iteration, CheckQueue
      <4> QED
        BY <2>0, <2>6, <4>1, <4>2 DEF LoopStep, CancelledLoop
    <3> QED
      BY <2>3, <3>1
  <2>7. ASSUME loop' = loop, queue # <<>> \/ queue' = queue PROVE Served'
    BY <2>3, <2>7
  <2>8. ASSUME ShutdownStep \/ BeginShutdown
        PROVE  loop' = loop /\ (queue # <<>> \/ queue' = queue)
    BY <2>1, <2>8 DEF ShutdownStep, BeginShutdown, DrainBatch, ShutdownEnters
  <2>9. ASSUME NEW r \in Requests, ClientGone(r) PROVE loop' = loop /\ queue' = queue
    BY <2>9 DEF ClientGone
  <2>10. ASSUME Tick \/ UNCHANGED vars PROVE loop' = loop /\ queue' = queue
    BY <2>10 DEF Tick, vars
  <2>11. Served'
    BY <2>5, <2>6, <2>7, <2>8, <2>9, <2>10 DEF Next
  <2> QED
    BY <2>2, <2>11
<1>3. Spec => []ServedYet
  BY <1>1, <1>2, StreamInvariant, PTL DEF Spec
<1>4. ServedYet => QueueServed
  BY DEF ServedYet, QueueServed
<1> QED
  BY <1>3, <1>4, PTL
=============================================================================
