---------------------------- MODULE CircuitBreaker ----------------------------
(***************************************************************************)
(* CircuitBreaker (src/app/services/load_balancer.py): call() admits a     *)
(* call, runs it and counts its outcome.  call() is synchronous, so calls  *)
(* overlap when threads make them, and the class takes no lock: a thread   *)
(* can be preempted between any two of its reads and writes of the shared  *)
(* attributes.  Each step below is one of them; call[c] says which is next *)
(* and saw[c] holds the value a thread carries from a read to a write.     *)
(***************************************************************************)
EXTENDS Integers

CONSTANTS Callers,           \* threads, each with one call at a time
          FailureThreshold,  \* failure_threshold
          RecoveryTimeout,   \* recovery_timeout
          MaxBreakerTime     \* bound: the clock

ASSUME BreakerAssumption ==
    /\ FailureThreshold \in Nat \ {0}
    /\ RecoveryTimeout \in Nat
    /\ MaxBreakerTime \in Nat

VARIABLES circuit,       \* state
          failureCount,  \* failure_count
          successCount,  \* success_count
          lastFailure,   \* last_failure_time, 0 for None
          call,          \* where each thread is in call()
          saw,           \* the count or the time each thread has read, 0 for none
          breakerClock,  \* time.time()
          openedAt,      \* last_failure_time when the circuit was last set OPEN; 0 if it
                         \* never was, or a thread's belated write has undone it
          caught         \* threads that were midway when it was, and still are

shared == <<circuit, failureCount, successCount, lastFailure>>
breakerVars == <<shared, call, saw, breakerClock, openedAt, caught>>

\* A thread here has decided, on a state it read earlier, to start a call or to write one.
Midway == {"probing", "halfOpen", "counting", "counted", "testing", "closing"}

Points == Midway \cup
    {"idle", "open", "dated", "running", "normal", "clearing", "closed", "emptying",
     "failing", "failed", "stamping", "judging", "tripping", "measuring", "opening",
     "reopening", "reopened"}

BreakerTypeOK ==
    /\ circuit \in {"CLOSED", "OPEN", "HALF_OPEN"}
    /\ failureCount \in Nat
    /\ successCount \in Nat
    /\ lastFailure \in 0..breakerClock
    /\ call \in [Callers -> Points]
    /\ saw \in [Callers -> Nat]
    /\ \A c \in Callers : call[c] \in {"dated", "stamping"} => saw[c] \in 1..breakerClock
    /\ breakerClock \in Nat \ {0}
    /\ openedAt \in 0..breakerClock
    /\ caught \subseteq {c \in Callers : call[c] \in Midway}

BreakerInit ==
    /\ circuit = "CLOSED"
    /\ failureCount = 0 /\ successCount = 0
    /\ lastFailure = 0
    /\ call = [c \in Callers |-> "idle"]
    /\ saw = [c \in Callers |-> 0]
    /\ breakerClock = 1
    /\ openedAt = 0 /\ caught = {}

-----------------------------------------------------------------------------

BreakerTick ==
    /\ breakerClock < MaxBreakerTime
    /\ breakerClock' = breakerClock + 1
    /\ UNCHANGED <<shared, call, saw, openedAt, caught>>

\* Thread c takes its next step and goes on at place "to".
Go(c, from, to) ==
    /\ call[c] = from
    /\ call' = [call EXCEPT ![c] = to]
    /\ caught' = IF to \in Midway THEN caught ELSE caught \ {c}
    /\ UNCHANGED breakerClock

\* Thread c writes the state, on what it read earlier.
Overwrite(c) == openedAt' = IF c \in caught THEN 0 ELSE openedAt

Load(c, v) == saw' = [saw EXCEPT ![c] = v]

\* call() reads the state; if that is OPEN, the time, and how long ago the last failure was.
\* A call that is not due raises.
Check(c) ==
    /\ \/ /\ Go(c, "idle", IF circuit = "OPEN" THEN "open" ELSE "running")
          /\ UNCHANGED saw
       \/ Go(c, "open", "dated") /\ Load(c, breakerClock)
       \/ /\ Go(c, "dated", IF lastFailure # 0 /\ saw[c] - lastFailure >= RecoveryTimeout
                            THEN "probing" ELSE "idle")
          /\ Load(c, 0)
    /\ UNCHANGED <<shared, openedAt>>

\* A call that is due sets the state to HALF_OPEN and success_count to 0, and runs.
HalfOpen(c) ==
    /\ \/ /\ Go(c, "probing", "halfOpen")
          /\ circuit' = "HALF_OPEN" /\ Overwrite(c)
          /\ UNCHANGED successCount
       \/ /\ Go(c, "halfOpen", "running")
          /\ successCount' = 0
          /\ UNCHANGED <<circuit, openedAt>>
    /\ UNCHANGED <<failureCount, lastFailure, saw>>

\* Fault: a success in any state but HALF_OPEN is taken for one in CLOSED, which it sets.
OnSuccessCloses(c) ==
    /\ \/ /\ Go(c, "running", IF circuit = "HALF_OPEN" THEN "counting" ELSE "normal")
          /\ UNCHANGED <<circuit, failureCount>>
       \/ Go(c, "normal", "clearing") /\ circuit' = "CLOSED" /\ UNCHANGED failureCount
       \/ Go(c, "clearing", "idle") /\ failureCount' = 0 /\ UNCHANGED circuit
    /\ UNCHANGED <<successCount, lastFailure, saw, openedAt>>

\* _on_success reads the state, once for each of its two tests, and resets the failures if
\* the second finds it CLOSED.
OnSuccess(c) ==
    /\ \/ /\ Go(c, "running", IF circuit = "HALF_OPEN" THEN "counting" ELSE "normal")
          /\ UNCHANGED failureCount
       \/ /\ Go(c, "normal", IF circuit = "CLOSED" THEN "clearing" ELSE "idle")
          /\ UNCHANGED failureCount
       \/ Go(c, "clearing", "idle") /\ failureCount' = 0
    /\ UNCHANGED <<circuit, successCount, lastFailure, saw, openedAt>>

\* If the first finds it HALF_OPEN: success_count += 1, and the test of the count.
CountSuccess(c) ==
    /\ \/ Go(c, "counting", "counted") /\ Load(c, successCount) /\ UNCHANGED successCount
       \/ Go(c, "counted", "testing") /\ successCount' = saw[c] + 1 /\ Load(c, 0)
       \/ /\ Go(c, "testing", IF successCount >= 2 THEN "closing" ELSE "idle")
          /\ UNCHANGED <<successCount, saw>>
    /\ UNCHANGED <<circuit, failureCount, lastFailure, openedAt>>

\* Enough successes: the state becomes CLOSED and both counts 0.
Close(c) ==
    /\ \/ /\ Go(c, "closing", "closed")
          /\ circuit' = "CLOSED" /\ Overwrite(c)
          /\ UNCHANGED <<failureCount, successCount>>
       \/ /\ Go(c, "closed", "emptying")
          /\ failureCount' = 0
          /\ UNCHANGED <<circuit, successCount, openedAt>>
       \/ /\ Go(c, "emptying", "idle")
          /\ successCount' = 0
          /\ UNCHANGED <<circuit, failureCount, openedAt>>
    /\ UNCHANGED <<lastFailure, saw>>

\* _on_failure: failure_count += 1.
OnFailure(c) ==
    /\ \/ Go(c, "running", "failing") /\ Load(c, failureCount) /\ UNCHANGED failureCount
       \/ Go(c, "failing", "failed") /\ failureCount' = saw[c] + 1 /\ Load(c, 0)
    /\ UNCHANGED <<circuit, successCount, lastFailure, openedAt>>

\* last_failure_time = time.time().
Stamp(c) ==
    /\ \/ /\ Go(c, "failed", "stamping")
          /\ Load(c, breakerClock)
          /\ UNCHANGED <<lastFailure, openedAt>>
       \/ /\ Go(c, "stamping", "judging")
          /\ lastFailure' = saw[c]
          /\ openedAt' = IF saw[c] < openedAt THEN 0 ELSE openedAt
          /\ Load(c, 0)
    /\ UNCHANGED <<circuit, failureCount, successCount>>

\* Whether the failure opens the circuit: the state is read for each of the two tests.
Judge(c) ==
    /\ \/ Go(c, "judging", IF circuit = "HALF_OPEN" THEN "reopening" ELSE "tripping")
       \/ Go(c, "tripping", IF circuit = "CLOSED" THEN "measuring" ELSE "idle")
       \/ Go(c, "measuring", IF failureCount >= FailureThreshold THEN "opening" ELSE "idle")
    /\ UNCHANGED <<shared, saw, openedAt>>

\* The state becomes OPEN.
Open(c) ==
    /\ \/ call[c] = "opening" /\ call' = [call EXCEPT ![c] = "idle"]
       \/ call[c] = "reopening" /\ call' = [call EXCEPT ![c] = "reopened"]
    /\ circuit' = "OPEN"
    /\ openedAt' = lastFailure
    /\ caught' = {d \in Callers : call[d] \in Midway}
    /\ UNCHANGED <<failureCount, successCount, lastFailure, saw, breakerClock>>

\* After a failure in HALF_OPEN success_count becomes 0.
Reopened(c) ==
    /\ Go(c, "reopened", "idle")
    /\ successCount' = 0
    /\ UNCHANGED <<circuit, failureCount, lastFailure, saw, openedAt>>

BreakerNext ==
    \/ BreakerTick
    \/ \E c \in Callers : \/ Check(c) \/ HalfOpen(c) \/ OnSuccess(c) \/ CountSuccess(c)
                          \/ Close(c) \/ OnFailure(c) \/ Stamp(c) \/ Judge(c) \/ Open(c)
                          \/ Reopened(c)

BreakerSpec == BreakerInit /\ [][BreakerNext]_breakerVars

-----------------------------------------------------------------------------
(* Properties.                                                               *)

\* Thread c starts a call.
Starts(c) == call[c] \in {"idle", "halfOpen"} /\ call'[c] = "running"

\* Once the circuit is set OPEN no call starts until RecoveryTimeout after the failure that
\* opened it, whatever the threads are doing, except by a thread that was then midway
\* between reading the state and writing it (load_balancer.py:155-164, 184-188), or after
\* such a thread has written the state, or an older failure last_failure_time (:199).
OpenSheds ==
    [][\A c \in Callers : Starts(c) =>
          \/ openedAt = 0 \/ breakerClock - openedAt >= RecoveryTimeout
          \/ c \in caught]_breakerVars
=============================================================================
