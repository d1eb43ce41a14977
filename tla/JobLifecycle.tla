---------------------------- MODULE JobLifecycle ----------------------------
(***************************************************************************)
(* What a batch job promises its client, whatever queues, workers, caches  *)
(* and counters do behind it:                                              *)
(*   - it is accepted with a deadline in the future, or refused;           *)
(*   - it is processed at most once and can be cancelled only before its   *)
(*     processing has ended;                                               *)
(*   - its results are published once, at the moment it completes, and     *)
(*     never change;                                                       *)
(*   - it expires only when its deadline has come;                         *)
(*   - a cancelled, failed or expired job is never brought back.           *)
(* AsyncBatch implements this specification when predict_async_batch does  *)
(* not suspend.                                                            *)
(***************************************************************************)
EXTENDS Naturals

CONSTANTS Jobs, Answer, NoAnswer

VARIABLES status, answer, deadline, now

vars == <<status, answer, deadline, now>>

Init ==
    /\ status = [j \in Jobs |-> "absent"]
    /\ answer = [j \in Jobs |-> NoAnswer]
    /\ deadline = [j \in Jobs |-> 0]
    /\ now = 0

\* Some instant in the future.
SetDeadline(j) ==
    /\ deadline' = [deadline EXCEPT ![j] = deadline'[j]]
    /\ deadline'[j] > now

\* Some answer, for the first time.
Publish(j) ==
    /\ answer' = [answer EXCEPT ![j] = answer'[j]]
    /\ answer'[j] \in Answer \ {NoAnswer}

Accept(j) ==
    /\ status[j] = "absent"
    /\ status' = [status EXCEPT ![j] = "pending"]
    /\ SetDeadline(j)
    /\ UNCHANGED <<answer, now>>

Refuse(j) ==
    /\ status[j] = "absent"
    /\ status' = [status EXCEPT ![j] = "failed"]
    /\ SetDeadline(j)
    /\ UNCHANGED <<answer, now>>

Begin(j) ==
    /\ status[j] = "pending"
    /\ status' = [status EXCEPT ![j] = "processing"]
    /\ UNCHANGED <<answer, deadline, now>>

\* Completion publishes the answer; past the deadline the job expires with it.
Finish(j) ==
    /\ status[j] = "processing"
    /\ answer[j] = NoAnswer
    /\ Publish(j)
    /\ \/ status' = [status EXCEPT ![j] = "completed"]
       \/ deadline[j] < now /\ status' = [status EXCEPT ![j] = "expired"]
    /\ UNCHANGED <<deadline, now>>

Cancel(j) ==
    /\ status[j] \in {"pending", "processing"}
    /\ status' = [status EXCEPT ![j] = "cancelled"]
    /\ UNCHANGED <<answer, deadline, now>>

\* Any number of jobs whose deadline has come.
Expire ==
    /\ \E late \in SUBSET {j \in Jobs : status[j] # "absent" /\ deadline[j] <= now} :
          status' = [j \in Jobs |-> IF j \in late THEN "expired" ELSE status[j]]
    /\ UNCHANGED <<answer, deadline, now>>

Tick ==
    /\ now' = now + 1
    /\ UNCHANGED <<status, answer, deadline>>

Next ==
    \/ \E j \in Jobs : Accept(j) \/ Refuse(j) \/ Begin(j) \/ Finish(j) \/ Cancel(j)
    \/ Expire
    \/ Tick

Spec == Init /\ [][Next]_vars
=============================================================================
