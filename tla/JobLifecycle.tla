---------------------------- MODULE JobLifecycle ----------------------------
(***************************************************************************)
(* What the queue promises of a job, whoever runs it: the state diagram of *)
(* the worker documentation, arrow by arrow, with the attempt count behind *)
(* it, and with deletion, which the diagram leaves out.  "retryable" is a  *)
(* place in the diagram and not a value the engine writes.                 *)
(***************************************************************************)
EXTENDS Integers

CONSTANT Jobs

VARIABLES
  state,    \* where each job is
  attempt,  \* how often it has been attempted since it was last enqueued
  limit     \* its max_attempts

vars == <<state, attempt, limit>>

Init ==
  /\ state = [j \in Jobs |-> "none"]
  /\ attempt = [j \in Jobs |-> 0]
  /\ limit \in [Jobs -> Int]

Enqueue(j) ==
  /\ state[j] = "none"
  /\ state' = [state EXCEPT ![j] = "available"]
  /\ limit' \in [Jobs -> Int]
  /\ \A k \in Jobs \ {j} : limit'[k] = limit[k]
  /\ UNCHANGED attempt

\* The first attempt is always granted, the others up to the limit.
Begin(j) ==
  /\ state[j] = "available"
  /\ attempt[j] = 0 \/ attempt[j] < limit[j]
  /\ state' = [state EXCEPT ![j] = "executing"]
  /\ attempt' = [attempt EXCEPT ![j] = @ + 1]
  /\ UNCHANGED limit

Succeed(j) ==
  /\ state[j] = "executing"
  /\ state' = [state EXCEPT ![j] = "completed"]
  /\ UNCHANGED <<attempt, limit>>

Fail(j) ==
  /\ state[j] = "executing"
  /\ state' = [state EXCEPT ![j] = IF attempt[j] < limit[j] THEN "retryable"
                                   ELSE "discarded"]
  /\ UNCHANGED <<attempt, limit>>

\* The delay of the backoff has elapsed, for several jobs at once.
Elapse(S) ==
  /\ \A j \in S : state[j] = "retryable"
  /\ state' = [j \in Jobs |-> IF j \in S THEN "available" ELSE state[j]]
  /\ UNCHANGED <<attempt, limit>>

\* A manual retry takes discarded jobs back, with their attempts forgotten.
Retry(S) ==
  /\ \A j \in S : state[j] = "discarded"
  /\ state' = [j \in Jobs |-> IF j \in S THEN "available" ELSE state[j]]
  /\ attempt' = [j \in Jobs |-> IF j \in S THEN 0 ELSE attempt[j]]
  /\ UNCHANGED limit

\* Retention and deletion.
Remove(S) ==
  /\ \A j \in S : state[j] # "none"
  /\ state' = [j \in Jobs |-> IF j \in S THEN "deleted" ELSE state[j]]
  /\ UNCHANGED <<attempt, limit>>

Next ==
  \/ \E j \in Jobs : Enqueue(j) \/ Begin(j) \/ Succeed(j) \/ Fail(j)
  \/ \E S \in SUBSET Jobs : Elapse(S) \/ Retry(S) \/ Remove(S)

Spec == Init /\ [][Next]_vars

\* Every job that was enqueued is done with in the end.
EveryJobFinishes ==
  \A j \in Jobs : state[j] \in {"available", "retryable"} ~>
                    state[j] \in {"completed", "discarded", "deleted"}

=============================================================================
