--------------------------- MODULE WorkerQueueProofs ---------------------------
(***************************************************************************)
(* Type correctness, exclusive runs, bounded attempts, the count of the    *)
(* slots and the life of a job of the worker queue, for any number of      *)
(* jobs, engines, slots, crashes and failed statements.                    *)
(***************************************************************************)
EXTENDS WorkerQueue, FiniteSetTheorems, TLAPS

-----------------------------------------------------------------------------
(* Rows *)

\* One column of a row written.
LEMMA StateWritten ==
  ASSUME NEW r \in Row, NEW s \in RowStates
  PROVE  [r EXCEPT !.state = s] \in Row
  BY DEF Row

LEMMA ScheduledWritten ==
  ASSUME NEW r \in Row, NEW t \in Int
  PROVE  [r EXCEPT !.scheduled = t] \in Row
  BY DEF Row

LEMMA AttemptWritten ==
  ASSUME NEW r \in Row, NEW a \in Nat
  PROVE  [r EXCEPT !.attempt = a] \in Row
  BY DEF Row

LEMMA ErrorsWritten ==
  ASSUME NEW r \in Row, NEW e \in Nat
  PROVE  [r EXCEPT !.errors = e] \in Row
  BY DEF Row

LEMMA MaxWritten ==
  ASSUME NEW r \in Row, NEW m \in Int
  PROVE  [r EXCEPT !.max = m] \in Row
  BY DEF Row

LEMMA PriorityWritten ==
  ASSUME NEW r \in Row, NEW p \in Int
  PROVE  [r EXCEPT !.priority = p] \in Row
  BY DEF Row

\* What a retry makes of a row.
LEMMA ResetTyped ==
  ASSUME NEW r \in Row
  PROVE  /\ Reset(r) \in Row
         /\ Reset(r).state = "available" /\ Reset(r).attempt = 0
         /\ Reset(r).max = r.max /\ Reset(r).errors = r.errors
<1> DEFINE r1 == [r EXCEPT !.state = "available"]
           r2 == [r1 EXCEPT !.scheduled = 0]
<1>1. r1 \in Row
  BY StateWritten DEF RowStates, Present
<1>2. r2 \in Row
  <2> HIDE DEF r1
  <2> QED BY <1>1, ScheduledWritten
<1>3. Reset(r) = [r2 EXCEPT !.attempt = 0]
  BY DEF Reset
<1>4. Reset(r) \in Row
  <2> HIDE DEF r2
  <2> QED BY <1>2, <1>3, AttemptWritten
<1>5. /\ Reset(r).state = "available" /\ Reset(r).attempt = 0
      /\ Reset(r).max = r.max /\ Reset(r).errors = r.errors
  BY DEF Reset, Row
<1> QED
  BY <1>4, <1>5

\* What a failure makes of a row.
LEMMA DiscardedTyped ==
  ASSUME NEW r \in Row, NEW e \in Execution
  PROVE  /\ Discarded(r, e) \in Row
         /\ Discarded(r, e).state = "discarded"
         /\ Discarded(r, e).attempt = r.attempt /\ Discarded(r, e).max = r.max
<1> DEFINE r1 == [r EXCEPT !.state = "discarded"]
<1>1. r1 \in Row
  BY StateWritten DEF RowStates, Present
<1>2. Discarded(r, e) = [r1 EXCEPT !.errors = e.errors + 1]
  BY DEF Discarded
<1>3. e.errors + 1 \in Nat
  BY DEF Execution
<1>4. Discarded(r, e) \in Row
  <2> HIDE DEF r1
  <2> QED BY <1>1, <1>2, <1>3, ErrorsWritten
<1>5. /\ Discarded(r, e).state = "discarded"
      /\ Discarded(r, e).attempt = r.attempt /\ Discarded(r, e).max = r.max
  BY DEF Discarded, Row
<1> QED
  BY <1>4, <1>5

LEMMA RescheduledTyped ==
  ASSUME NEW r \in Row, NEW e \in Execution, NEW delay \in Backoff(e.attempt)
  PROVE  /\ Rescheduled(r, e, delay) \in Row
         /\ Rescheduled(r, e, delay).state = "available"
         /\ Rescheduled(r, e, delay).attempt = r.attempt
         /\ Rescheduled(r, e, delay).max = r.max
<1> DEFINE r1 == [r EXCEPT !.state = "available"]
           r2 == [r1 EXCEPT !.errors = e.errors + 1]
<1>1. r1 \in Row
  BY StateWritten DEF RowStates, Present
<1>2. e.errors + 1 \in Nat /\ e.attempt \in Nat
  BY DEF Execution
<1>3. r2 \in Row
  <2> HIDE DEF r1
  <2> QED BY <1>1, <1>2, ErrorsWritten
<1>4. delay \in Int
  BY <1>2, WorkerQueueAssumption DEF Backoff
<1>5. Rescheduled(r, e, delay) = [r2 EXCEPT !.scheduled = delay]
  BY DEF Rescheduled
<1>6. Rescheduled(r, e, delay) \in Row
  <2> HIDE DEF r2
  <2> QED BY <1>3, <1>4, <1>5, ScheduledWritten
<1>7. /\ Rescheduled(r, e, delay).state = "available"
      /\ Rescheduled(r, e, delay).attempt = r.attempt
      /\ Rescheduled(r, e, delay).max = r.max
  BY DEF Rescheduled, Row
<1> QED
  BY <1>6, <1>7

\* One row, or what one goroutine does, replaced.
LEMMA RowReplaced ==
  ASSUME TypeOK, NEW j \in Jobs, NEW r \in Row
  PROVE  [row EXCEPT ![j] = r] \in [Jobs -> Row]
  BY DEF TypeOK

LEMMA ExecWritten ==
  ASSUME TypeOK, NEW n \in Nodes, NEW g \in Goroutines, NEW x \in Execution \cup {Idle}
  PROVE  [exec EXCEPT ![n][g] = x] \in [Nodes -> [Goroutines -> Execution \cup {Idle}]]
  BY DEF TypeOK

\* Trigger keeps the buffers within their capacity.
LEMMA TriggerTyped ==
  ASSUME TypeOK, NEW p, Trigger(p)
  PROVE  wakeup' \in [Nodes -> 0..WakeupCap]
  BY WorkerQueueAssumption DEF TypeOK, Trigger

-----------------------------------------------------------------------------
(* Type correctness *)

LEMMA InitTyped == Init => TypeOK
  BY WorkerQueueAssumption
     DEF Init, TypeOK, NoRow, Row, RowStates, Locations

\* The loop, start and end of an engine keep the types.
LEMMA LoopTyped ==
  ASSUME TypeOK, NEW n \in Nodes,
         Start(n) \/ LoopStep(n) \/ LoopReturns(n) \/ Stop(n) \/ Stopped(n) \/ Crash(n)
  PROVE  TypeOK'
<1> USE WorkerQueueAssumption
<1>1. CASE Start(n)
  BY <1>1 DEF TypeOK, Start, Locations
<1>2. ASSUME BeginPoll(n), wakeup' \in [Nodes -> 0..WakeupCap] PROVE TypeOK'
  <2>1. lastTable' \in [Nodes -> 1..Tables] /\ faults' \in 0..MaxFaults
    BY <1>2 DEF TypeOK, BeginPoll, CountFault
  <2>2. pc' \in [Nodes -> Locations] /\ table' \in [Nodes -> 1..Tables]
    BY <1>2 DEF TypeOK, BeginPoll, Locations
  <2> QED BY <1>2, <2>1, <2>2 DEF TypeOK, BeginPoll
<1>3. CASE TickerFires(n) \/ ReceiveWakeup(n)
  <2>1. wakeup' \in [Nodes -> 0..WakeupCap]
    BY <1>3 DEF TypeOK, TickerFires, ReceiveWakeup
  <2> QED BY <1>2, <1>3, <2>1 DEF TickerFires, ReceiveWakeup
<1>4. CASE GiveUpPoll(n)
  BY <1>4 DEF TypeOK, GiveUpPoll, Locations
<1>5. CASE AcquireSlot(n)
  BY <1>5 DEF TypeOK, AcquireSlot, Locations
<1>6. CASE ClaimNextJob(n)
  <2>1. PICK j \in FirstDue(table[n]), g \in IdleGoroutines(n) :
          /\ row' = [row EXCEPT ![j].state = "executing", ![j].attempt = @ + 1]
          /\ exec' = [exec EXCEPT ![n][g] =
                        [phase |-> "running", job |-> j,
                         attempt |-> row[j].attempt + 1,
                         max |-> row[j].max, errors |-> row[j].errors]]
    BY <1>6 DEF ClaimNextJob
  <2>2. j \in Jobs /\ g \in Goroutines
    BY <2>1 DEF FirstDue, Due, InTable, IdleGoroutines
  <2>3. row' \in [Jobs -> Row]
    BY <2>1, <2>2 DEF TypeOK, Row, RowStates, Present
  <2>4. [phase |-> "running", job |-> j, attempt |-> row[j].attempt + 1,
         max |-> row[j].max, errors |-> row[j].errors] \in Execution
    BY <2>2 DEF TypeOK, Row, Execution
  <2>5. exec' \in [Nodes -> [Goroutines -> Execution \cup {Idle}]]
    BY <2>1, <2>2, <2>4, ExecWritten
  <2> QED
    BY <1>6, <2>3, <2>5 DEF TypeOK, ClaimNextJob, Locations
<1>7. CASE ClaimsNothing(n)
  <2>1. table' \in [Nodes -> 1..Tables] /\ pc' \in [Nodes -> Locations]
    <3>1. CASE /\ table[n] < lastTable[n]
               /\ table' = [table EXCEPT ![n] = @ + 1]
               /\ pc' = [pc EXCEPT ![n] = "poll"]
      <4>1. table[n] + 1 \in 1..Tables
        BY <3>1 DEF TypeOK
      <4> QED BY <3>1, <4>1 DEF TypeOK, Locations
    <3>2. CASE pc' = [pc EXCEPT ![n] = "select"] /\ UNCHANGED table
      BY <3>2 DEF TypeOK, Locations
    <3> QED BY <1>7, <3>1, <3>2 DEF ClaimsNothing, NextTable
  <2>2. faults' \in 0..MaxFaults /\ held' \in [Nodes -> Int]
    BY <1>7 DEF TypeOK, ClaimsNothing, CountFault
  <2> QED BY <1>7, <2>1, <2>2 DEF TypeOK, ClaimsNothing
<1>8. CASE LoopReturns(n)
  BY <1>8 DEF TypeOK, LoopReturns, Locations
<1>9. CASE Stop(n)
  BY <1>9 DEF TypeOK, Stop, CountOp
<1>10. CASE Stopped(n)
  BY <1>10 DEF TypeOK, Stopped, ForgetLoop, Locations
<1>11. CASE Crash(n)
  BY <1>11 DEF TypeOK, Crash, ForgetLoop, CountFault, Locations
<1> QED
  BY <1>1, <1>3, <1>4, <1>5, <1>6, <1>7, <1>8, <1>9, <1>10, <1>11 DEF LoopStep

\* A retry of the rows in a set keeps the types.
LEMMA RetryTyped ==
  ASSUME TypeOK, NEW S, NEW p, RetryRows(S, p)
  PROVE  row' \in [Jobs -> Row] /\ wakeup' \in [Nodes -> 0..WakeupCap]
<1>1. row' \in [Jobs -> Row]
  BY ResetTyped DEF TypeOK, RetryRows
<1>2. wakeup' \in [Nodes -> 0..WakeupCap]
  BY TriggerTyped DEF TypeOK, RetryRows
<1> QED
  BY <1>1, <1>2

\* The goroutines keep the types.
LEMMA ExecuteTyped ==
  ASSUME TypeOK, NEW n \in Nodes, NEW g \in Goroutines, Execute(n, g)
  PROVE  TypeOK'
<1> USE WorkerQueueAssumption
<1> DEFINE e == exec[n][g]
           j == e.job
<1>1. CASE HandlerReturns(n, g)
  <2>1. e \in Execution
    BY <1>1 DEF TypeOK, HandlerReturns, Idle
  <2>2. \A outcome \in {"succeeded", "failed"} :
          [e EXCEPT !.phase = outcome] \in Execution
    BY <2>1 DEF Execution
  <2>3. PICK outcome \in {"succeeded", "failed"} :
          exec' = [exec EXCEPT ![n][g].phase = outcome]
    BY <1>1 DEF HandlerReturns
  <2>4. exec' = [exec EXCEPT ![n][g] = [e EXCEPT !.phase = outcome]]
    BY <2>3 DEF TypeOK
  <2> HIDE DEF e
  <2>5. exec' \in [Nodes -> [Goroutines -> Execution \cup {Idle}]]
    BY <2>2, <2>4, ExecWritten
  <2> QED
    BY <1>1, <2>5 DEF TypeOK, HandlerReturns
<1>2. ASSUME EndExecution(n, g), row' \in [Jobs -> Row], faults' \in 0..MaxFaults
      PROVE  TypeOK'
  BY <1>2 DEF TypeOK, EndExecution
<1>3. ASSUME NEW k \in Jobs, NEW new \in Row, UpdateRow(k, new)
      PROVE  row' \in [Jobs -> Row]
  BY <1>3 DEF TypeOK, UpdateRow
<1>4. CASE HandleSuccess(n, g)
  <2>1. j \in Jobs
    <3>1. e \in Execution
      BY <1>4 DEF TypeOK, HandleSuccess, Idle
    <3> QED BY <3>1 DEF Execution
  <2>2. [row[j] EXCEPT !.state = "completed"] \in Row
    BY <2>1, StateWritten DEF TypeOK, RowStates, Present
  <2>3. row' \in [Jobs -> Row] /\ faults' \in 0..MaxFaults
    BY <1>3, <1>4, <2>1, <2>2 DEF TypeOK, HandleSuccess, CountFault
  <2> QED
    BY <1>2, <1>4, <2>3 DEF HandleSuccess
<1>5. CASE HandleFailure(n, g)
  <2>1. e \in Execution /\ j \in Jobs
    <3>1. e \in Execution
      BY <1>5 DEF TypeOK, HandleFailure, Idle
    <3> QED BY <3>1 DEF Execution
  <2>2. Discarded(row[j], e) \in Row
    BY <2>1, DiscardedTyped DEF TypeOK
  <2>3. \A delay \in Backoff(e.attempt) : Rescheduled(row[j], e, delay) \in Row
    BY <2>1, RescheduledTyped DEF TypeOK
  <2>4. row' \in [Jobs -> Row] /\ faults' \in 0..MaxFaults
    BY <1>3, <1>5, <2>1, <2>2, <2>3 DEF TypeOK, HandleFailure, CountFault
  <2> QED
    BY <1>2, <1>5, <2>4 DEF HandleFailure
<1> QED
  BY <1>1, <1>4, <1>5 DEF Execute

\* The writers of the rows keep the types.
LEMMA WriterTyped ==
  ASSUME TypeOK, NEW p \in Processes, WriterStep(p)
  PROVE  TypeOK'
<1> USE WorkerQueueAssumption
<1>1. ASSUME NEW j \in Jobs, Enqueue(j, p) PROVE TypeOK'
  <2>1. row' \in [Jobs -> Row]
    <3>1. PICK max \in MaxAttemptsChoices, prio \in Priorities, delay \in InitialDelays :
            row' = [row EXCEPT ![j] =
                      [state |-> "available", attempt |-> 0, max |-> max,
                       priority |-> prio, scheduled |-> delay, errors |-> 0]]
      BY <1>1 DEF Enqueue
    <3>2. [state |-> "available", attempt |-> 0, max |-> max, priority |-> prio,
           scheduled |-> delay, errors |-> 0] \in Row
      BY DEF Row, RowStates, Present
    <3> QED BY <3>1, <3>2 DEF TypeOK
  <2>2. wakeup' \in [Nodes -> 0..WakeupCap] /\ faults' \in 0..MaxFaults
    BY <1>1, TriggerTyped DEF TypeOK, Enqueue, CountFault
  <2> QED BY <1>1, <2>1, <2>2 DEF TypeOK, Enqueue, rowWriterUnchanged
<1>2. ASSUME NEW j \in Jobs, UpdateJob(j, p) PROVE TypeOK'
  <2>1. PICK max \in MaxAttemptsChoices \cup {row[j].max},
             prio \in Priorities \cup {row[j].priority} :
          LET patched == [row[j] EXCEPT !.max = max, !.priority = prio]
          IN \/ /\ \E state \in (PatchStates \ {"available"}) \cup {row[j].state},
                      delay \in InitialDelays \cup {row[j].scheduled} :
                     row' = [row EXCEPT ![j] = [patched EXCEPT !.state = state,
                                                               !.scheduled = delay]]
                /\ UNCHANGED wakeup
             \/ /\ \E delay \in InitialDelays \cup {0} :
                     row' = [row EXCEPT ![j] = [Reset(patched) EXCEPT !.scheduled = delay]]
                /\ Trigger(p)
    BY <1>2 DEF UpdateJob
  <2> DEFINE r1 == [row[j] EXCEPT !.max = max]
             patched == [row[j] EXCEPT !.max = max, !.priority = prio]
  <2>2. row[j] \in Row /\ max \in Int /\ prio \in Int
    BY DEF TypeOK, Row
  <2>3. patched \in Row
    <3>1. r1 \in Row
      BY <2>2, MaxWritten
    <3>2. patched = [r1 EXCEPT !.priority = prio]
      OBVIOUS
    <3> HIDE DEF r1, patched
    <3> QED BY <2>2, <3>1, <3>2, PriorityWritten
  <2>4. \A delay \in InitialDelays \cup {row[j].scheduled, 0} : delay \in Int
    BY <2>2 DEF Row
  <2>5. row' \in [Jobs -> Row] /\ wakeup' \in [Nodes -> 0..WakeupCap]
    <3> HIDE DEF patched
    <3>1. CASE /\ \E state \in (PatchStates \ {"available"}) \cup {row[j].state},
                     delay \in InitialDelays \cup {row[j].scheduled} :
                    row' = [row EXCEPT ![j] = [patched EXCEPT !.state = state,
                                                              !.scheduled = delay]]
               /\ UNCHANGED wakeup
      <4>1. PICK state \in (PatchStates \ {"available"}) \cup {row[j].state},
                 delay \in InitialDelays \cup {row[j].scheduled} :
              row' = [row EXCEPT ![j] = [patched EXCEPT !.state = state,
                                                        !.scheduled = delay]]
        BY <3>1
      <4> DEFINE r2 == [patched EXCEPT !.state = state]
      <4>2. state \in RowStates /\ delay \in Int
        BY <2>2, <2>4 DEF Row, RowStates
      <4>3. r2 \in Row
        BY <2>3, <4>2, StateWritten
      <4>4. [patched EXCEPT !.state = state, !.scheduled = delay]
              = [r2 EXCEPT !.scheduled = delay]
        OBVIOUS
      <4> HIDE DEF r2
      <4>5. [r2 EXCEPT !.scheduled = delay] \in Row
        BY <4>2, <4>3, ScheduledWritten
      <4> QED BY <3>1, <4>1, <4>4, <4>5 DEF TypeOK
    <3>2. CASE /\ \E delay \in InitialDelays \cup {0} :
                    row' = [row EXCEPT ![j] = [Reset(patched) EXCEPT !.scheduled = delay]]
               /\ Trigger(p)
      <4>1. \A delay \in InitialDelays \cup {0} :
              [Reset(patched) EXCEPT !.scheduled = delay] \in Row
        BY <2>3, <2>4, ResetTyped, ScheduledWritten
      <4> QED BY <3>2, <4>1, TriggerTyped DEF TypeOK
    <3> QED BY <2>1, <3>1, <3>2 DEF patched
  <2>6. ops' \in 0..MaxOps /\ UNCHANGED <<rowWriterUnchanged, faults>>
    <3>1. CountOp("patch") /\ UNCHANGED <<rowWriterUnchanged, faults>>
      BY <1>2, Zenon DEF UpdateJob
    <3> QED BY <3>1 DEF TypeOK, CountOp
  <2> QED BY <2>5, <2>6 DEF TypeOK, rowWriterUnchanged
<1>3. ASSUME NEW t \in 1..Tables, RetryIds(t, p) PROVE TypeOK'
  <2>1. PICK S : RetryRows(S, p) /\ CountOp("retryIds")
    BY <1>3 DEF RetryIds
  <2> QED BY <2>1, RetryTyped DEF TypeOK, RetryRows, CountOp, rowWriterUnchanged
<1>4. ASSUME NEW t \in 1..Tables, RetryFailed(t, p) PROVE TypeOK'
  <2>1. PICK S : RetryRows(S, p) /\ CountOp("retryFailed")
    BY <1>4 DEF RetryFailed
  <2> QED BY <2>1, RetryTyped DEF TypeOK, RetryRows, CountOp, rowWriterUnchanged
<1> QED
  BY <1>1, <1>2, <1>3, <1>4 DEF WriterStep

LEMMA DeleteTyped ==
  ASSUME TypeOK, NEW S, DeleteRows(S)
  PROVE  row' \in [Jobs -> Row]
<1>1. \A j \in Jobs : [row[j] EXCEPT !.state = "deleted"] \in Row
  BY StateWritten DEF TypeOK, RowStates
<1> QED
  BY <1>1 DEF TypeOK, DeleteRows

\* The operations on single rows, the cleanup and time keep the types.
LEMMA RowStepTyped ==
  ASSUME TypeOK, NEW j \in Jobs, RowStep(j)
  PROVE  TypeOK'
<1> USE WorkerQueueAssumption
<1>1. CASE UpdateRecord(j)
  <2>1. PICK state \in PatchStates \cup {row[j].state}, attempt \in {0, row[j].attempt},
             max \in MaxAttemptsChoices \cup {row[j].max},
             prio \in Priorities \cup {row[j].priority},
             delay \in InitialDelays \cup {row[j].scheduled} :
          row' = [row EXCEPT ![j] =
                    [@ EXCEPT !.state = state, !.attempt = attempt, !.max = max,
                              !.priority = prio, !.scheduled = delay]]
    BY <1>1 DEF UpdateRecord
  <2> DEFINE r1 == [row[j] EXCEPT !.state = state]
             r2 == [r1 EXCEPT !.attempt = attempt]
             r3 == [r2 EXCEPT !.max = max]
             r4 == [r3 EXCEPT !.priority = prio]
             r5 == [r4 EXCEPT !.scheduled = delay]
  <2>2. row[j] \in Row
    BY DEF TypeOK
  <2>3. /\ state \in RowStates /\ attempt \in Nat /\ max \in Int
        /\ prio \in Int /\ delay \in Int
    BY <2>2 DEF Row, RowStates
  <2>4. row' = [row EXCEPT ![j] = r5]
    BY <2>1 DEF TypeOK
  <2>5. r1 \in Row
    BY <2>2, <2>3, StateWritten
  <2> HIDE DEF r1
  <2>6. r2 \in Row
    BY <2>3, <2>5, AttemptWritten
  <2> HIDE DEF r2
  <2>7. r3 \in Row
    BY <2>3, <2>6, MaxWritten
  <2> HIDE DEF r3
  <2>8. r4 \in Row
    BY <2>3, <2>7, PriorityWritten
  <2> HIDE DEF r4
  <2>9. r5 \in Row
    BY <2>3, <2>8, ScheduledWritten
  <2> HIDE DEF r5
  <2> QED BY <1>1, <2>4, <2>9, RowReplaced
          DEF TypeOK, UpdateRecord, CountOp, rowWriterUnchanged
<1>2. CASE CancelJob(j)
  <2>1. [row[j] EXCEPT !.state = "cancelled"] \in Row
    BY StateWritten DEF TypeOK, RowStates, Present
  <2>2. row' = [row EXCEPT ![j] = [row[j] EXCEPT !.state = "cancelled"]]
    BY <1>2 DEF CancelJob, TypeOK
  <2> QED BY <1>2, <2>1, <2>2, RowReplaced
          DEF TypeOK, CancelJob, CountOp, rowWriterUnchanged
<1>3. CASE DeleteJob(j)
  BY <1>3, DeleteTyped DEF TypeOK, DeleteJob, CountOp, rowWriterUnchanged
<1> QED
  BY <1>1, <1>2, <1>3 DEF RowStep

LEMMA CleanupTyped ==
  ASSUME TypeOK, NEW n \in Nodes, CleanupCompletedJobs(n)
  PROVE  TypeOK'
<1>1. PICK S : DeleteRows(S)
  BY DEF CleanupCompletedJobs
<1>2. row' \in [Jobs -> Row]
  BY <1>1, DeleteTyped
<1>3. ops' \in 0..MaxOps /\ faults' \in 0..MaxFaults
  BY WorkerQueueAssumption DEF TypeOK, CleanupCompletedJobs, CountOp, CountFault
<1> QED
  BY <1>2, <1>3 DEF TypeOK, CleanupCompletedJobs, rowWriterUnchanged

LEMMA TickTyped ==
  ASSUME TypeOK, Tick
  PROVE  TypeOK'
<1>1. \A j \in Jobs : [row[j] EXCEPT !.scheduled = Older(@)] \in Row
  <2> TAKE j \in Jobs
  <2>1. row[j] \in Row
    BY DEF TypeOK
  <2>2. Older(row[j].scheduled) \in Int
    BY <2>1, WorkerQueueAssumption DEF Older, Row
  <2> QED BY <2>1, <2>2, ScheduledWritten
<1> QED
  BY <1>1 DEF TypeOK, Tick, engineVars

\* Every state has the declared types (rows, loops, slots and snapshots).
THEOREM TypeCorrect == Spec => []TypeOK
<1>1. Init => TypeOK
  BY InitTyped
<1>2. TypeOK /\ [Next]_vars => TypeOK'
  <2> SUFFICES ASSUME TypeOK, [Next]_vars PROVE TypeOK'
    OBVIOUS
  <2>1. ASSUME NEW n \in Nodes, NodeStep(n) PROVE TypeOK'
    BY <2>1, LoopTyped, ExecuteTyped, CleanupTyped DEF NodeStep
  <2>2. CASE UNCHANGED vars
    BY <2>2 DEF TypeOK, vars
  <2> QED
    BY <2>1, <2>2, WriterTyped, RowStepTyped, TickTyped DEF Next
<1> QED
  BY <1>1, <1>2, PTL DEF Spec

-----------------------------------------------------------------------------
(***************************************************************************)
(* One run per job and bounded attempts, for any number of jobs, engines,  *)
(* slots, crashes and failed statements, as long as rows are only written  *)
(* the way the documentation describes: enqueue, retry of the failed jobs, *)
(* deletion and cleanup.  Writes by id (a retry of given ids, an update, a *)
(* cancellation, a reused id) break both.                                  *)
(***************************************************************************)

DocumentedOps == Allowed \cap {"retryIds", "patch", "cancel", "reuseId"} = {}

RunInv == TypeOK /\ OneRunPerJob /\ SnapshotIsRow /\ AttemptsBounded

\* AttemptsBounded of one row.
WithinLimit(r) ==
  r.state \in Present =>
    /\ r.attempt <= Larger(1, r.max)
    /\ r.state = "available" => r.attempt < Larger(1, r.max)

\* Two rows that a snapshot cannot tell apart.
SameJob(r, s) ==
  r.state = s.state /\ r.attempt = s.attempt /\ r.max = s.max /\ r.errors = s.errors

LEMMA LiveTyped ==
  ASSUME TypeOK, NEW n \in Nodes, NEW g \in Running(n)
  PROVE  /\ g \in Goroutines /\ exec[n][g] \in Execution
         /\ exec[n][g].job \in Jobs /\ row[exec[n][g].job] \in Row
<1>1. g \in Goroutines /\ exec[n][g] \in Execution
  BY DEF TypeOK, Running, Idle
<1>2. exec[n][g].job \in Jobs
  BY <1>1 DEF Execution
<1> QED
  BY <1>1, <1>2 DEF TypeOK

\* A writer that leaves the goroutines alone keeps the snapshots right when it
\* touches no executing row except to delete it and brings no deleted row back.
LEMMA WritersKeepRuns ==
  ASSUME TypeOK, OneRunPerJob, SnapshotIsRow, exec' = exec,
         \A j \in Jobs : \/ SameJob(row[j], row'[j])
                         \/ row'[j].state = "deleted"
                         \/ row[j].state \notin {"executing", "deleted"}
  PROVE  OneRunPerJob' /\ SnapshotIsRow'
<1>1. OneRunPerJob'
  BY DEF OneRunPerJob, Running
<1>2. SnapshotIsRow'
  <2> SUFFICES ASSUME NEW n \in Nodes, NEW g \in Running(n),
                      row'[exec[n][g].job].state # "deleted"
               PROVE  /\ row'[exec[n][g].job].state = "executing"
                      /\ row'[exec[n][g].job].attempt = exec[n][g].attempt
                      /\ row'[exec[n][g].job].max = exec[n][g].max
                      /\ row'[exec[n][g].job].errors = exec[n][g].errors
    BY DEF SnapshotIsRow, Running
  <2>1. exec[n][g].job \in Jobs
    BY LiveTyped
  <2>2. row[exec[n][g].job].state \in {"executing", "deleted"}
    BY DEF SnapshotIsRow
  <2>3. SameJob(row[exec[n][g].job], row'[exec[n][g].job])
    BY <2>1, <2>2
  <2> QED BY <2>3 DEF SnapshotIsRow, SameJob
<1> QED
  BY <1>1, <1>2

\* AttemptsBounded holds when every row a step changes is within its limit.
LEMMA BoundedRowByRow ==
  ASSUME AttemptsBounded, \A j \in Jobs : row'[j] = row[j] \/ WithinLimit(row'[j])
  PROVE  AttemptsBounded'
  BY DEF AttemptsBounded, WithinLimit

\* An execution ends: its goroutine is idle and its row may have been written.
LEMMA EndKeepsRuns ==
  ASSUME RunInv, NEW n \in Nodes, NEW g \in Running(n), EndExecution(n, g),
         \A j \in Jobs : j # exec[n][g].job => row'[j] = row[j]
  PROVE  OneRunPerJob' /\ SnapshotIsRow'
<1> DEFINE k == exec[n][g].job
<1>1. g \in Goroutines /\ k \in Jobs
  BY LiveTyped DEF RunInv
<1>2. \A m \in Nodes : \A h \in Goroutines :
        exec'[m][h] = IF m = n /\ h = g THEN Idle ELSE exec[m][h]
  BY <1>1 DEF RunInv, TypeOK, EndExecution
<1>3. \A m \in Nodes : \A h \in Running(m)' :
        /\ h \in Running(m) /\ exec'[m][h] = exec[m][h]
        /\ exec[m][h].job \in Jobs /\ exec[m][h].job # k
  <2> TAKE m \in Nodes
  <2> TAKE h \in Running(m)'
  <2>1. h \in Goroutines /\ exec'[m][h].phase # "idle"
    BY DEF Running
  <2>2. ~(m = n /\ h = g)
    BY <1>2, <2>1 DEF Idle
  <2>3. exec'[m][h] = exec[m][h] /\ h \in Running(m)
    BY <1>2, <2>1, <2>2 DEF Running
  <2>4. exec[m][h].job # k
    BY <2>2, <2>3 DEF RunInv, OneRunPerJob
  <2> QED BY <2>3, <2>4, LiveTyped DEF RunInv
<1>4. OneRunPerJob'
  BY <1>3 DEF RunInv, OneRunPerJob
<1>5. SnapshotIsRow'
  BY <1>3 DEF RunInv, SnapshotIsRow
<1> QED
  BY <1>4, <1>5

\* A claim takes a job that nobody runs, and counts an attempt it has left.
LEMMA ClaimKeepsRuns ==
  ASSUME RunInv, NEW n \in Nodes, ClaimNextJob(n)
  PROVE  OneRunPerJob' /\ SnapshotIsRow' /\ AttemptsBounded'
<1>1. PICK j \in FirstDue(table[n]), g \in IdleGoroutines(n) :
        /\ row' = [row EXCEPT ![j].state = "executing", ![j].attempt = @ + 1]
        /\ exec' = [exec EXCEPT ![n][g] =
                      [phase |-> "running", job |-> j,
                       attempt |-> row[j].attempt + 1,
                       max |-> row[j].max, errors |-> row[j].errors]]
  BY DEF ClaimNextJob
<1> DEFINE new == [phase |-> "running", job |-> j, attempt |-> row[j].attempt + 1,
                   max |-> row[j].max, errors |-> row[j].errors]
<1>2. j \in Jobs /\ g \in Goroutines /\ row[j].state = "available"
  BY <1>1 DEF FirstDue, Due, InTable, IdleGoroutines
<1>3. row \in [Jobs -> Row] /\ row[j] \in Row
  BY <1>2 DEF RunInv, TypeOK
<1>4. /\ row'[j].state = "executing" /\ row'[j].attempt = row[j].attempt + 1
      /\ row'[j].max = row[j].max /\ row'[j].errors = row[j].errors
      /\ \A k \in Jobs : k # j => row'[k] = row[k]
  BY <1>1, <1>2, <1>3 DEF Row
<1>5. \A m \in Nodes : \A h \in Goroutines :
        exec'[m][h] = IF m = n /\ h = g THEN new ELSE exec[m][h]
  BY <1>1, <1>2 DEF RunInv, TypeOK
<1>6. \A m \in Nodes : \A h \in Running(m) : exec[m][h].job # j
  BY <1>2 DEF RunInv, SnapshotIsRow
<1>7. \A m \in Nodes : \A h \in Running(m)' :
        \/ m = n /\ h = g /\ exec'[m][h] = new
        \/ h \in Running(m) /\ exec'[m][h] = exec[m][h]
  BY <1>5 DEF Running
<1>8. new.job = j
  OBVIOUS
<1> HIDE DEF new
<1>9. OneRunPerJob'
  <2> SUFFICES ASSUME NEW n1 \in Nodes, NEW n2 \in Nodes,
                      NEW g1 \in Running(n1)', NEW g2 \in Running(n2)',
                      exec'[n1][g1].job = exec'[n2][g2].job
               PROVE  n1 = n2 /\ g1 = g2
    BY DEF OneRunPerJob
  <2>1. CASE g1 \in Running(n1) /\ exec'[n1][g1] = exec[n1][g1]
             /\ g2 \in Running(n2) /\ exec'[n2][g2] = exec[n2][g2]
    BY <2>1 DEF RunInv, OneRunPerJob
  <2> QED BY <1>6, <1>7, <1>8, <2>1
<1>10. SnapshotIsRow'
  <2> SUFFICES ASSUME NEW m \in Nodes, NEW h \in Running(m)',
                      row'[exec'[m][h].job].state # "deleted"
               PROVE  LET e == exec'[m][h]
                          r == row'[e.job]
                      IN /\ r.state = "executing" /\ r.attempt = e.attempt
                         /\ r.max = e.max /\ r.errors = e.errors
    BY DEF SnapshotIsRow
  <2>1. CASE exec'[m][h] = new
    BY <1>4, <2>1 DEF new
  <2>2. CASE h \in Running(m) /\ exec'[m][h] = exec[m][h]
    <3>1. exec[m][h].job \in Jobs /\ exec[m][h].job # j
      BY <1>6, <2>2, LiveTyped DEF RunInv
    <3> QED BY <1>4, <2>2, <3>1 DEF RunInv, SnapshotIsRow
  <2> QED BY <1>7, <2>1, <2>2
<1>11. AttemptsBounded'
  <2>1. row[j].attempt < Larger(1, row[j].max)
    BY <1>2 DEF RunInv, AttemptsBounded, Present
  <2>2. row[j].attempt + 1 <= Larger(1, row[j].max)
    BY <1>3, <2>1 DEF Row, Larger
  <2>3. WithinLimit(row'[j])
    BY <1>4, <2>2 DEF WithinLimit
  <2> QED BY <1>4, <2>3, BoundedRowByRow DEF RunInv
<1> QED
  BY <1>9, <1>10, <1>11

\* The final UPDATE of an execution.
LEMMA ExecuteKeepsRuns ==
  ASSUME RunInv, NEW n \in Nodes, NEW g \in Goroutines, Execute(n, g)
  PROVE  OneRunPerJob' /\ SnapshotIsRow' /\ AttemptsBounded'
<1> DEFINE e == exec[n][g]
           j == e.job
<1>1. g \in Running(n)
  BY DEF Execute, HandlerReturns, HandleSuccess, HandleFailure, Running
<1>2. e \in Execution /\ j \in Jobs /\ row[j] \in Row
  BY <1>1, LiveTyped DEF RunInv
<1>3. ASSUME NEW k \in Jobs, NEW new, UpdateRow(k, new)
      PROVE  /\ \A i \in Jobs : i # k => row'[i] = row[i]
             /\ row[k].state \in Present => row'[k] = new
             /\ row[k].state \notin Present => row' = row
  BY <1>3 DEF RunInv, TypeOK, UpdateRow
<1>4. row[j].state \in Present =>
        /\ row[j].state = "executing" /\ row[j].attempt = e.attempt
        /\ row[j].max = e.max
  BY <1>1 DEF RunInv, SnapshotIsRow, Present
<1>5. row[j].state \in Present => row[j].attempt <= Larger(1, row[j].max)
  BY <1>2 DEF RunInv, AttemptsBounded
<1>6. CASE HandlerReturns(n, g)
  <2>1. PICK outcome \in {"succeeded", "failed"} :
          exec' = [exec EXCEPT ![n][g].phase = outcome]
    BY <1>6 DEF HandlerReturns
  <2>2. \A m \in Nodes : \A h \in Goroutines :
          exec'[m][h] = IF m = n /\ h = g THEN [exec[m][h] EXCEPT !.phase = outcome]
                        ELSE exec[m][h]
    BY <2>1 DEF RunInv, TypeOK
  <2>3. \A m \in Nodes : \A h \in Running(m)' :
          /\ h \in Running(m)
          /\ exec'[m][h].job = exec[m][h].job
          /\ exec'[m][h].attempt = exec[m][h].attempt
          /\ exec'[m][h].max = exec[m][h].max
          /\ exec'[m][h].errors = exec[m][h].errors
    <3> TAKE m \in Nodes
    <3> TAKE h \in Running(m)'
    <3>1. h \in Goroutines /\ h \in Running(m)
      BY <1>1, <2>2 DEF Running
    <3>2. exec[m][h] \in Execution
      BY <3>1, LiveTyped DEF RunInv
    <3> DEFINE x == exec[m][h]
               y == [x EXCEPT !.phase = outcome]
    <3>3. y.job = x.job /\ y.attempt = x.attempt /\ y.max = x.max /\ y.errors = x.errors
      BY <3>2 DEF Execution
    <3>4. exec'[m][h] = x \/ exec'[m][h] = y
      BY <2>2, <3>1
    <3> QED BY <3>1, <3>3, <3>4
  <2>4. row' = row
    BY <1>6 DEF HandlerReturns
  <2>5. OneRunPerJob'
    BY <2>3 DEF RunInv, OneRunPerJob
  <2>6. SnapshotIsRow'
    BY <2>3, <2>4 DEF RunInv, SnapshotIsRow
  <2>7. AttemptsBounded'
    BY <2>4, BoundedRowByRow DEF RunInv
  <2> QED BY <2>5, <2>6, <2>7
<1>7. CASE HandleSuccess(n, g)
  <2>1. EndExecution(n, g)
    BY <1>7 DEF HandleSuccess
  <2>2. row' = row \/ UpdateRow(j, [row[j] EXCEPT !.state = "completed"])
    BY <1>7 DEF HandleSuccess
  <2>3. row[j].state \in Present => WithinLimit([row[j] EXCEPT !.state = "completed"])
    BY <1>2, <1>5 DEF WithinLimit, Row
  <2>4. \A i \in Jobs : i # j => row'[i] = row[i]
    BY <1>2, <1>3, <2>2
  <2>5. row'[j] = row[j] \/ WithinLimit(row'[j])
    BY <1>2, <1>3, <2>2, <2>3
  <2>6. OneRunPerJob' /\ SnapshotIsRow'
    BY <1>1, <2>1, <2>4, EndKeepsRuns
  <2>7. AttemptsBounded'
    BY <2>4, <2>5, BoundedRowByRow DEF RunInv
  <2> QED BY <2>6, <2>7
<1>8. CASE HandleFailure(n, g)
  <2>1. EndExecution(n, g)
    BY <1>8 DEF HandleFailure
  <2>2. \/ row' = row
        \/ UpdateRow(j, Discarded(row[j], e))
        \/ /\ ~NoAttemptLeft(e)
           /\ \E delay \in Backoff(e.attempt) : UpdateRow(j, Rescheduled(row[j], e, delay))
    BY <1>8 DEF HandleFailure
  <2>3. row[j].state \in Present => WithinLimit(Discarded(row[j], e))
    BY <1>2, <1>5, DiscardedTyped DEF WithinLimit
  <2>4. ASSUME row[j].state \in Present, ~NoAttemptLeft(e),
               NEW delay \in Backoff(e.attempt)
        PROVE  WithinLimit(Rescheduled(row[j], e, delay))
    <3>1. row[j].attempt < Larger(1, row[j].max)
      BY <1>2, <1>4, <2>4 DEF Larger, Row, NoAttemptLeft, Execution
    <3> QED BY <1>2, <1>5, <2>4, <3>1, RescheduledTyped DEF WithinLimit
  <2> HIDE DEF e, j
  <2>5. \A i \in Jobs : i # j => row'[i] = row[i]
    BY <1>2, <1>3, <2>2
  <2>6. row'[j] = row[j] \/ WithinLimit(row'[j])
    BY <1>2, <1>3, <2>2, <2>3, <2>4
  <2>7. OneRunPerJob' /\ SnapshotIsRow'
    BY <1>1, <2>1, <2>5, EndKeepsRuns DEF e, j
  <2>8. AttemptsBounded'
    BY <2>5, <2>6, BoundedRowByRow DEF RunInv
  <2> QED BY <2>7, <2>8
<1> QED
  BY <1>6, <1>7, <1>8 DEF Execute

\* The other steps of an engine touch neither rows nor goroutines; a crash
\* forgets the goroutines of its node.
LEMMA LoopKeepsRuns ==
  ASSUME RunInv, NEW n \in Nodes,
         Start(n) \/ LoopStep(n) \/ LoopReturns(n) \/ Stop(n) \/ Stopped(n) \/ Crash(n)
  PROVE  OneRunPerJob' /\ SnapshotIsRow' /\ AttemptsBounded'
<1>1. CASE ClaimNextJob(n)
  BY <1>1, ClaimKeepsRuns
<1>2. CASE row' = row /\ exec' = exec
  BY <1>2 DEF RunInv, OneRunPerJob, SnapshotIsRow, AttemptsBounded, Running
<1>3. CASE Crash(n)
  <2>1. row' = row /\ exec' = [exec EXCEPT ![n] = [g \in Goroutines |-> Idle]]
    BY <1>3 DEF Crash
  <2>2. \A m \in Nodes : \A h \in Running(m)' :
          h \in Running(m) /\ exec'[m][h] = exec[m][h]
    BY <2>1 DEF RunInv, TypeOK, Running, Idle
  <2>3. OneRunPerJob'
    BY <2>2 DEF RunInv, OneRunPerJob
  <2>4. SnapshotIsRow'
    BY <2>1, <2>2 DEF RunInv, SnapshotIsRow
  <2>5. AttemptsBounded'
    BY <2>1, BoundedRowByRow DEF RunInv
  <2> QED BY <2>3, <2>4, <2>5
<1>4. ASSUME TickerFires(n) \/ ReceiveWakeup(n) PROVE row' = row /\ exec' = exec
  BY <1>4 DEF TickerFires, ReceiveWakeup, BeginPoll
<1>5. ASSUME GiveUpPoll(n) \/ AcquireSlot(n) \/ ClaimsNothing(n) \/ Start(n)
      PROVE  row' = row /\ exec' = exec
  BY <1>5 DEF GiveUpPoll, AcquireSlot, ClaimsNothing, Start
<1>6. ASSUME LoopReturns(n) \/ Stop(n) \/ Stopped(n)
      PROVE  row' = row /\ exec' = exec
  BY <1>6 DEF LoopReturns, Stop, Stopped
<1> QED
  BY <1>1, <1>2, <1>3, <1>4, <1>5, <1>6 DEF LoopStep

\* Rows that a step resets, deletes or ages.
LEMMA ResetWithinLimit ==
  ASSUME NEW r \in Row
  PROVE  WithinLimit(Reset(r))
  BY ResetTyped DEF WithinLimit, Row, Larger

LEMMA DeletedWithinLimit ==
  ASSUME NEW r \in Row
  PROVE  LET d == [r EXCEPT !.state = "deleted"]
         IN d.state = "deleted" /\ WithinLimit(d)
  BY DEF WithinLimit, Row, Present

LEMMA AgedSameJob ==
  ASSUME NEW r \in Row, NEW t \in Int
  PROVE  SameJob(r, [r EXCEPT !.scheduled = t])
  BY DEF SameJob, Row

LEMMA DeleteKeepsRuns ==
  ASSUME RunInv, NEW S, DeleteRows(S), exec' = exec
  PROVE  OneRunPerJob' /\ SnapshotIsRow' /\ AttemptsBounded'
<1>1. \A j \in Jobs : \/ row'[j] = row[j]
                      \/ row'[j].state = "deleted" /\ WithinLimit(row'[j])
  BY DeletedWithinLimit DEF RunInv, TypeOK, DeleteRows
<1>2. \A j \in Jobs : SameJob(row[j], row'[j]) \/ row'[j].state = "deleted"
  BY <1>1 DEF SameJob
<1> QED
  BY <1>1, <1>2, WritersKeepRuns, BoundedRowByRow DEF RunInv

\* Enqueue and the retry of failed jobs; the other writers are not enabled.
LEMMA WriterKeepsRuns ==
  ASSUME DocumentedOps, RunInv, NEW p \in Processes, WriterStep(p)
  PROVE  OneRunPerJob' /\ SnapshotIsRow' /\ AttemptsBounded'
<1>1. ASSUME NEW j \in Jobs, Enqueue(j, p)
      PROVE  OneRunPerJob' /\ SnapshotIsRow' /\ AttemptsBounded'
  <2>1. row[j].state = "none" /\ exec' = exec
    BY <1>1 DEF Enqueue, DocumentedOps, May, rowWriterUnchanged
  <2>2. PICK max \in MaxAttemptsChoices, prio \in Priorities, delay \in InitialDelays :
          row' = [row EXCEPT ![j] =
                    [state |-> "available", attempt |-> 0, max |-> max,
                     priority |-> prio, scheduled |-> delay, errors |-> 0]]
    BY <1>1 DEF Enqueue
  <2>3. \A k \in Jobs : IF k = j THEN WithinLimit(row'[k]) ELSE row'[k] = row[k]
    <3> DEFINE new == [state |-> "available", attempt |-> 0, max |-> max,
                       priority |-> prio, scheduled |-> delay, errors |-> 0]
    <3>1. WithinLimit(new)
      BY WorkerQueueAssumption DEF WithinLimit, Larger
    <3>2. \A k \in Jobs : row'[k] = IF k = j THEN new ELSE row[k]
      BY <2>2 DEF RunInv, TypeOK
    <3> HIDE DEF new
    <3> QED BY <3>1, <3>2
  <2>4. \A k \in Jobs : SameJob(row[k], row'[k])
                        \/ row[k].state \notin {"executing", "deleted"}
    BY <2>1, <2>3 DEF SameJob
  <2> QED BY <2>1, <2>3, <2>4, WritersKeepRuns, BoundedRowByRow DEF RunInv
<1>2. ASSUME NEW t \in 1..Tables, RetryFailed(t, p)
      PROVE  OneRunPerJob' /\ SnapshotIsRow' /\ AttemptsBounded'
  <2>1. PICK states \in {{"discarded", "cancelled"},
                         {"discarded", "cancelled", "retryable"}} :
          RetryRows({j \in InTable(t) : row[j].state \in states}, p)
    BY <1>2 DEF RetryFailed
  <2>2. exec' = exec
    BY <2>1 DEF RetryRows, rowWriterUnchanged
  <2>3. \A j \in Jobs : \/ row'[j] = row[j]
                        \/ /\ row'[j] = Reset(row[j])
                           /\ row[j].state \notin {"executing", "deleted"}
    BY <2>1 DEF RetryRows
  <2>4. \A j \in Jobs : row'[j] = row[j] \/ WithinLimit(row'[j])
    BY <2>3, ResetWithinLimit DEF RunInv, TypeOK
  <2>5. \A j \in Jobs : SameJob(row[j], row'[j])
                        \/ row[j].state \notin {"executing", "deleted"}
    BY <2>3 DEF SameJob
  <2> QED BY <2>2, <2>4, <2>5, WritersKeepRuns, BoundedRowByRow DEF RunInv
<1>3. \A j \in Jobs : ~UpdateJob(j, p)
  BY DEF DocumentedOps, UpdateJob, CountOp, May
<1>4. \A t \in 1..Tables : ~RetryIds(t, p)
  BY DEF DocumentedOps, RetryIds, CountOp, May
<1> QED
  BY <1>1, <1>2, <1>3, <1>4 DEF WriterStep

LEMMA RowStepKeepsRuns ==
  ASSUME DocumentedOps, RunInv, NEW j \in Jobs, RowStep(j)
  PROVE  OneRunPerJob' /\ SnapshotIsRow' /\ AttemptsBounded'
<1>1. DeleteJob(j)
  BY DEF RowStep, DocumentedOps, UpdateRecord, CancelJob, CountOp, May
<1> QED
  BY <1>1, DeleteKeepsRuns DEF DeleteJob, rowWriterUnchanged

LEMMA CleanupKeepsRuns ==
  ASSUME RunInv, NEW n \in Nodes, CleanupCompletedJobs(n)
  PROVE  OneRunPerJob' /\ SnapshotIsRow' /\ AttemptsBounded'
<1>1. (\E S : DeleteRows(S)) /\ exec' = exec
  BY DEF CleanupCompletedJobs, rowWriterUnchanged
<1> QED
  BY <1>1, DeleteKeepsRuns

LEMMA TickKeepsRuns ==
  ASSUME RunInv, Tick
  PROVE  OneRunPerJob' /\ SnapshotIsRow' /\ AttemptsBounded'
<1>1. \A j \in Jobs : SameJob(row[j], row'[j])
  <2> TAKE j \in Jobs
  <2>1. row[j] \in Row /\ row'[j] = [row[j] EXCEPT !.scheduled = Older(@)]
    BY DEF RunInv, TypeOK, Tick
  <2>2. Older(row[j].scheduled) \in Int
    BY <2>1, WorkerQueueAssumption DEF Older, Row
  <2> QED BY <2>1, <2>2, AgedSameJob
<1>2. exec' = exec
  BY DEF Tick, engineVars
<1>3. AttemptsBounded'
  BY <1>1 DEF RunInv, AttemptsBounded, SameJob
<1> QED
  BY <1>1, <1>2, <1>3, WritersKeepRuns DEF RunInv

LEMMA RunInvariant ==
  ASSUME DocumentedOps
  PROVE  Spec => []RunInv
<1>1. Init => RunInv
  <2> SUFFICES ASSUME Init PROVE RunInv
    OBVIOUS
  <2>1. TypeOK
    BY InitTyped
  <2>2. \A n \in Nodes : Running(n) = {}
    BY DEF Init, Running, Idle
  <2>3. AttemptsBounded
    BY DEF Init, AttemptsBounded, NoRow, Present
  <2> QED BY <2>1, <2>2, <2>3 DEF RunInv, OneRunPerJob, SnapshotIsRow
<1>2. RunInv /\ TypeOK' /\ [Next]_vars => RunInv'
  <2> SUFFICES ASSUME RunInv, TypeOK', [Next]_vars
               PROVE  OneRunPerJob' /\ SnapshotIsRow' /\ AttemptsBounded'
    BY DEF RunInv
  <2>1. ASSUME NEW n \in Nodes, NodeStep(n)
        PROVE  OneRunPerJob' /\ SnapshotIsRow' /\ AttemptsBounded'
    BY <2>1, LoopKeepsRuns, ExecuteKeepsRuns, CleanupKeepsRuns DEF NodeStep
  <2>2. CASE UNCHANGED vars
    BY <2>2 DEF RunInv, OneRunPerJob, SnapshotIsRow, AttemptsBounded, Running, vars
  <2> QED
    BY <2>1, <2>2, WriterKeepsRuns, RowStepKeepsRuns, TickKeepsRuns DEF Next
<1> QED
  BY <1>1, <1>2, TypeCorrect, PTL DEF Spec

\* Under the documented operations no job is ever executed twice at the same
\* time, however many engines share the table, crash or fail to write back.
THEOREM NeverTwoRuns ==
  ASSUME DocumentedOps
  PROVE  Spec => []OneRunPerJob
<1>1. RunInv => OneRunPerJob
  BY DEF RunInv
<1> QED
  BY <1>1, RunInvariant, PTL

\* Under the documented operations what an execution writes back is computed
\* from the row as it is: nobody changed it since the claim.
THEOREM SnapshotsAreCurrent ==
  ASSUME DocumentedOps
  PROVE  Spec => []SnapshotIsRow
<1>1. RunInv => SnapshotIsRow
  BY DEF RunInv
<1> QED
  BY <1>1, RunInvariant, PTL

\* Under the documented operations no job is attempted more often than its
\* max_attempts allows.
THEOREM AttemptsStayBounded ==
  ASSUME DocumentedOps
  PROVE  Spec => []AttemptsBounded
<1>1. RunInv => AttemptsBounded
  BY DEF RunInv
<1> QED
  BY <1>1, RunInvariant, PTL

-----------------------------------------------------------------------------
(***************************************************************************)
(* The execution slots and the shutdown of an engine, whatever is written  *)
(* to the job rows meanwhile.                                              *)
(***************************************************************************)

Claiming(n) == IF pc[n] = "claim" THEN 1 ELSE 0

\* The slots of one engine.
SlotsOf(n) ==
  /\ held[n] = Cardinality(Running(n)) + Claiming(n)
  /\ held[n] <= MaxConcurrency

\* The claims of one engine since its context was cancelled.  A cancelled loop
\* takes no new slot, so the claim it may still make is its last.
HaltOf(n) ==
  /\ lateClaims[n] <= 1
  /\ ~cancelled[n] \/ pc[n] = "claim" => lateClaims[n] = 0

EngineInv == \A n \in Nodes : SlotsOf(n) /\ HaltOf(n)

\* Nothing about engine n changed that its slots and its shutdown depend on.
SameEngine(n) ==
  /\ held'[n] = held[n] /\ exec'[n] = exec[n] /\ pc'[n] = pc[n]
  /\ lateClaims'[n] = lateClaims[n] /\ cancelled'[n] = cancelled[n]

LEMMA RunningFinite ==
  ASSUME NEW n \in Nodes
  PROVE  IsFiniteSet(Running(n)) /\ Cardinality(Running(n)) \in Nat
<1>1. Running(n) \subseteq Goroutines
  BY DEF Running
<1> QED
  BY <1>1, FS_Subset, FS_CardinalityType, WorkerQueueAssumption

LEMMA SameEngineKeeps ==
  ASSUME EngineInv, NEW n \in Nodes, SameEngine(n)
  PROVE  SlotsOf(n)' /\ HaltOf(n)'
<1>1. Running(n)' = Running(n)
  BY DEF SameEngine, Running
<1>2. SlotsOf(n)'
  BY <1>1 DEF EngineInv, SlotsOf, SameEngine, Claiming
<1>3. HaltOf(n)'
  BY DEF EngineInv, HaltOf, SameEngine
<1> QED
  BY <1>2, <1>3

\* A step of engine n leaves the other engines alone.
LEMMA OneEngineAtATime ==
  ASSUME EngineInv, NEW n \in Nodes, SlotsOf(n)' /\ HaltOf(n)',
         \A m \in Nodes : m # n => SameEngine(m)
  PROVE  EngineInv'
<1> SUFFICES ASSUME NEW m \in Nodes PROVE SlotsOf(m)' /\ HaltOf(m)'
  BY DEF EngineInv
<1>1. CASE m = n
  BY <1>1
<1>2. CASE m # n
  BY <1>2, SameEngineKeeps
<1> QED
  BY <1>1, <1>2

\* Steps of the loop that change no goroutine.
LEMMA LoopKeepsSlots ==
  ASSUME TypeOK, EngineInv, NEW n \in Nodes,
         \/ Start(n) \/ TickerFires(n) \/ ReceiveWakeup(n) \/ GiveUpPoll(n)
         \/ AcquireSlot(n) \/ ClaimsNothing(n) \/ LoopReturns(n) \/ Stop(n)
         \/ Stopped(n)
  PROVE  EngineInv'
<1> USE WorkerQueueAssumption
<1>1. SlotsOf(n) /\ HaltOf(n) /\ held[n] \in Int
  BY DEF EngineInv, TypeOK
<1>2. Cardinality(Running(n)) \in Nat
  BY RunningFinite
<1>3. /\ exec' = exec
      /\ \A m \in Nodes : m # n => SameEngine(m)
  BY DEF TypeOK, SameEngine, Start, TickerFires, ReceiveWakeup, BeginPoll, GiveUpPoll,
         AcquireSlot, ClaimsNothing, NextTable, LoopReturns, Stop, Stopped, ForgetLoop
<1>4. Cardinality(Running(n)') = Cardinality(Running(n))
  BY <1>3 DEF Running
<1>5. SlotsOf(n)' /\ HaltOf(n)'
  <2>1. CASE Start(n)
    BY <1>1, <1>4, <2>1 DEF TypeOK, SlotsOf, HaltOf, Claiming, Start
  <2>2. CASE TickerFires(n) \/ ReceiveWakeup(n)
    BY <1>1, <1>4, <2>2
       DEF TypeOK, SlotsOf, HaltOf, Claiming, TickerFires, ReceiveWakeup, BeginPoll
  <2>3. CASE GiveUpPoll(n)
    BY <1>1, <1>4, <2>3 DEF TypeOK, SlotsOf, HaltOf, Claiming, GiveUpPoll
  <2>4. CASE AcquireSlot(n)
    BY <1>1, <1>2, <1>4, <2>4 DEF TypeOK, SlotsOf, HaltOf, Claiming, AcquireSlot
  <2>5. CASE ClaimsNothing(n)
    <3>1. /\ pc[n] = "claim" /\ pc'[n] \in {"poll", "select"}
          /\ held'[n] = held[n] - 1
          /\ lateClaims'[n] = lateClaims[n] /\ cancelled'[n] = cancelled[n]
      BY <2>5 DEF TypeOK, ClaimsNothing, NextTable
    <3> QED BY <1>1, <1>2, <1>4, <3>1 DEF SlotsOf, HaltOf, Claiming
  <2>6. CASE LoopReturns(n)
    BY <1>1, <1>4, <2>6 DEF TypeOK, SlotsOf, HaltOf, Claiming, LoopReturns
  <2>7. CASE Stop(n)
    BY <1>1, <1>4, <2>7 DEF TypeOK, SlotsOf, HaltOf, Claiming, Stop
  <2>8. CASE Stopped(n)
    BY <1>1, <1>4, <2>8 DEF TypeOK, SlotsOf, HaltOf, Claiming, Stopped, ForgetLoop
  <2> QED BY <2>1, <2>2, <2>3, <2>4, <2>5, <2>6, <2>7, <2>8
<1> QED
  BY <1>3, <1>5, OneEngineAtATime

\* The slot taken for a claim passes to the goroutine.
LEMMA ClaimKeepsSlots ==
  ASSUME TypeOK, EngineInv, NEW n \in Nodes, ClaimNextJob(n)
  PROVE  EngineInv'
<1>1. PICK j \in FirstDue(table[n]), g \in IdleGoroutines(n) :
        exec' = [exec EXCEPT ![n][g] =
                   [phase |-> "running", job |-> j, attempt |-> row[j].attempt + 1,
                    max |-> row[j].max, errors |-> row[j].errors]]
  BY DEF ClaimNextJob
<1>2. g \in Goroutines /\ g \notin Running(n)
  BY DEF IdleGoroutines, Running
<1>3. Running(n)' = Running(n) \cup {g}
  BY <1>1, <1>2 DEF TypeOK, Running
<1>4. Cardinality(Running(n)') = Cardinality(Running(n)) + 1
  BY <1>2, <1>3, RunningFinite, FS_AddElement
<1>5. /\ pc[n] = "claim" /\ pc'[n] = "poll" /\ held'[n] = held[n]
      /\ lateClaims'[n] = (IF cancelled[n] THEN lateClaims[n] + 1 ELSE lateClaims[n])
      /\ cancelled'[n] = cancelled[n]
  BY DEF TypeOK, ClaimNextJob
<1>6. SlotsOf(n)'
  BY <1>4, <1>5, RunningFinite DEF EngineInv, SlotsOf, Claiming
<1>7. HaltOf(n)'
  <2>1. lateClaims[n] = 0
    BY <1>5 DEF EngineInv, HaltOf
  <2>2. lateClaims'[n] \in {0, 1} /\ (~cancelled'[n] => lateClaims'[n] = 0)
    BY <1>5, <2>1
  <2> QED BY <1>5, <2>2 DEF HaltOf
<1>8. \A m \in Nodes : m # n => SameEngine(m)
  BY <1>1 DEF TypeOK, SameEngine, ClaimNextJob
<1> QED
  BY <1>6, <1>7, <1>8, OneEngineAtATime

LEMMA CrashKeepsSlots ==
  ASSUME TypeOK, EngineInv, NEW n \in Nodes, Crash(n)
  PROVE  EngineInv'
<1>1. /\ pc'[n] = "down" /\ held'[n] = 0 /\ lateClaims'[n] = 0
      /\ exec'[n] = [g \in Goroutines |-> Idle]
  BY DEF TypeOK, Crash, ForgetLoop
<1>2. Running(n)' = {}
  BY <1>1 DEF Running, Idle
<1>3. SlotsOf(n)' /\ HaltOf(n)'
  BY <1>1, <1>2, FS_EmptySet, WorkerQueueAssumption DEF SlotsOf, HaltOf, Claiming
<1>4. \A m \in Nodes : m # n => SameEngine(m)
  BY DEF TypeOK, SameEngine, Crash, ForgetLoop
<1> QED
  BY <1>3, <1>4, OneEngineAtATime

\* A goroutine gives its slot back when it ends, and only then.
LEMMA ExecuteKeepsSlots ==
  ASSUME TypeOK, EngineInv, NEW n \in Nodes, NEW g \in Goroutines, Execute(n, g)
  PROVE  EngineInv'
<1>1. g \in Running(n)
  BY DEF Execute, HandlerReturns, HandleSuccess, HandleFailure, Running
<1>2. CASE HandlerReturns(n, g)
  <2>1. PICK outcome \in {"succeeded", "failed"} :
          exec' = [exec EXCEPT ![n][g].phase = outcome]
    BY <1>2 DEF HandlerReturns
  <2>2. exec[n][g] \in Execution
    BY <1>1 DEF TypeOK, Running, Idle
  <2>3. [exec[n][g] EXCEPT !.phase = outcome].phase = outcome
    BY <2>2 DEF Execution
  <2>4. \A h \in Goroutines :
          exec'[n][h] = IF h = g THEN [exec[n][g] EXCEPT !.phase = outcome]
                        ELSE exec[n][h]
    BY <2>1 DEF TypeOK
  <2>5. Running(n)' = Running(n)
    BY <1>1, <2>3, <2>4 DEF Running
  <2>6. /\ held' = held /\ pc' = pc /\ lateClaims' = lateClaims /\ cancelled' = cancelled
        /\ \A m \in Nodes : m # n => exec'[m] = exec[m]
    BY <1>2, <2>1 DEF TypeOK, HandlerReturns
  <2>7. SlotsOf(n)' /\ HaltOf(n)'
    BY <2>5, <2>6 DEF EngineInv, SlotsOf, HaltOf, Claiming
  <2> QED BY <2>6, <2>7, OneEngineAtATime DEF SameEngine
<1>3. CASE EndExecution(n, g)
  <2>1. Running(n)' = Running(n) \ {g}
    BY <1>3 DEF TypeOK, EndExecution, Running, Idle
  <2>2. Cardinality(Running(n)') = Cardinality(Running(n)) - 1
    BY <1>1, <2>1, RunningFinite, FS_RemoveElement
  <2>3. /\ held'[n] = held[n] - 1 /\ held[n] \in Int
        /\ pc' = pc /\ lateClaims' = lateClaims /\ cancelled' = cancelled
        /\ \A m \in Nodes : m # n => exec'[m] = exec[m] /\ held'[m] = held[m]
    BY <1>3 DEF TypeOK, EndExecution
  <2>4. SlotsOf(n)'
    BY <2>2, <2>3, RunningFinite, WorkerQueueAssumption
       DEF EngineInv, SlotsOf, Claiming
  <2>5. HaltOf(n)'
    BY <2>3 DEF EngineInv, HaltOf
  <2> QED BY <2>3, <2>4, <2>5, OneEngineAtATime DEF SameEngine
<1> QED
  BY <1>2, <1>3 DEF Execute, HandleSuccess, HandleFailure

\* The writers of rows leave every engine as it is, but for its wakeups.
LEMMA OthersKeepSlots ==
  ASSUME EngineInv, UNCHANGED <<pc, held, exec, cancelled, lateClaims>>
  PROVE  EngineInv'
  BY SameEngineKeeps DEF EngineInv, SameEngine

LEMMA EngineInvariant == Spec => []EngineInv
<1>1. Init => EngineInv
  <2> SUFFICES ASSUME Init, NEW n \in Nodes PROVE SlotsOf(n) /\ HaltOf(n)
    BY DEF EngineInv
  <2>1. Running(n) = {}
    BY DEF Init, Running, Idle
  <2> QED BY <2>1, FS_EmptySet, WorkerQueueAssumption
          DEF Init, SlotsOf, HaltOf, Claiming
<1>2. TypeOK /\ EngineInv /\ [Next]_vars => EngineInv'
  <2> SUFFICES ASSUME TypeOK, EngineInv, [Next]_vars PROVE EngineInv'
    OBVIOUS
  <2>1. ASSUME NEW n \in Nodes, NodeStep(n) PROVE EngineInv'
    <3>1. CASE CleanupCompletedJobs(n)
      BY <3>1, OthersKeepSlots DEF CleanupCompletedJobs, rowWriterUnchanged
    <3> QED BY <2>1, <3>1, LoopKeepsSlots, ClaimKeepsSlots, CrashKeepsSlots,
              ExecuteKeepsSlots DEF NodeStep, LoopStep
  <2>2. ASSUME NEW p \in Processes, WriterStep(p) PROVE EngineInv'
    <3>1. UNCHANGED rowWriterUnchanged
      BY <2>2, Zenon DEF WriterStep, Enqueue, UpdateJob, RetryIds, RetryFailed, RetryRows
    <3> QED BY <3>1, OthersKeepSlots DEF rowWriterUnchanged
  <2>3. ASSUME NEW j \in Jobs, RowStep(j) PROVE EngineInv'
    <3>1. UNCHANGED rowWriterUnchanged
      BY <2>3, Zenon DEF RowStep, UpdateRecord, CancelJob, DeleteJob
    <3> QED BY <3>1, OthersKeepSlots DEF rowWriterUnchanged
  <2>4. CASE Tick
    BY <2>4, OthersKeepSlots DEF Tick, engineVars
  <2>5. CASE UNCHANGED vars
    BY <2>5, OthersKeepSlots DEF vars
  <2> QED BY <2>1, <2>2, <2>3, <2>4, <2>5 DEF Next
<1> QED
  BY <1>1, <1>2, TypeCorrect, PTL DEF Spec

\* The semaphore of every engine counts its goroutines and the claim it makes,
\* and never exceeds its capacity, whatever happens to the rows.
THEOREM SlotsAreCounted == Spec => []SlotsMatchGoroutines
<1>1. EngineInv => SlotsMatchGoroutines
  BY DEF EngineInv, SlotsOf, Claiming, SlotsMatchGoroutines
<1> QED
  BY <1>1, EngineInvariant, PTL

\* A cancelled engine claims at most one more job.
THEOREM FetchingHaltsAtOnce == Spec => []FetchingHalts
<1>1. EngineInv => FetchingHalts
  BY DEF EngineInv, HaltOf, FetchingHalts
<1> QED
  BY <1>1, EngineInvariant, PTL

-----------------------------------------------------------------------------
(***************************************************************************)
(* Proof that the rows go through the documented life of a job, and lose   *)
(* no failure from their error log, under the documented operations.       *)
(*                                                                         *)
(* Both follow from what one step may do to the rows (RowsStep), which     *)
(* rests on RunInv: a result is written from a snapshot, so that the row   *)
(* is still the one that was claimed decides what the writing means.       *)
(***************************************************************************)

\* States no documented operation writes; a row that was never inserted has not
\* been attempted, one that is executing has.
StatesWritten ==
  \A j \in Jobs : /\ row[j].state \notin {"cancelled", "retryable"}
                  /\ row[j].state = "none" => row[j].attempt = 0
                  /\ row[j].state = "executing" => row[j].attempt > 0

LifeInv == StatesWritten /\ ErrorLogComplete

-----------------------------------------------------------------------------
(* What a step may do to the rows *)

Others(j) == \A k \in Jobs \ {j} : row'[k] = row[k]

\* Time only brings a due time nearer.
Aged(r, s) == SameJob(r, s) /\ s.scheduled <= r.scheduled

Inserted(j) ==
  /\ row[j].state = "none" /\ row'[j].state = "available"
  /\ row'[j].attempt = 0 /\ row'[j].errors = 0
  /\ Others(j)

Begun(j) ==
  /\ row[j].state = "available" /\ row[j].scheduled <= 0 /\ row'[j].state = "executing"
  /\ row'[j].attempt = row[j].attempt + 1
  /\ row'[j].max = row[j].max /\ row'[j].errors = row[j].errors
  /\ Others(j)

Done(j) ==
  /\ row[j].state = "executing" /\ row'[j].state = "completed"
  /\ row'[j].attempt = row[j].attempt
  /\ row'[j].max = row[j].max /\ row'[j].errors = row[j].errors
  /\ Others(j)

FailedOnce(j) ==
  /\ row[j].state = "executing"
  /\ row'[j].state = IF row[j].attempt < row[j].max THEN "available" ELSE "discarded"
  /\ row'[j].state = "available" => row'[j].scheduled > 0
  /\ row'[j].attempt = row[j].attempt
  /\ row'[j].max = row[j].max /\ row'[j].errors = row[j].errors + 1
  /\ Others(j)

TakenBack(S) ==
  \A j \in Jobs :
    IF j \in S
    THEN /\ row[j].state \in {"discarded", "cancelled", "retryable"}
         /\ row'[j].state = "available" /\ row'[j].attempt = 0
         /\ row'[j].max = row[j].max /\ row'[j].errors = row[j].errors
    ELSE row'[j] = row[j]

Removed(S) ==
  \A j \in Jobs :
    IF j \in S
    THEN /\ row[j].state # "none" /\ row'[j].state = "deleted"
         /\ row'[j].attempt = row[j].attempt
         /\ row'[j].max = row[j].max /\ row'[j].errors = row[j].errors
    ELSE row'[j] = row[j]

RowsStep ==
  \/ \A j \in Jobs : Aged(row[j], row'[j])
  \/ \E j \in Jobs : Inserted(j) \/ Begun(j) \/ Done(j) \/ FailedOnce(j)
  \/ \E S \in SUBSET Jobs : TakenBack(S) \/ Removed(S)

LEMMA SameRows == ASSUME TypeOK, row' = row PROVE RowsStep
<1>1. \A j \in Jobs : Aged(row[j], row[j])
  BY DEF TypeOK, Row, Aged, SameJob
<1> QED BY <1>1 DEF RowsStep

\* What is written of a row by a result, a retry or a deletion.
LEMMA CompletedFields ==
  ASSUME NEW r \in Row
  PROVE  LET c == [r EXCEPT !.state = "completed"]
         IN c.state = "completed" /\ c.attempt = r.attempt /\ c.max = r.max
            /\ c.errors = r.errors
  BY DEF Row

LEMMA DeletedFields ==
  ASSUME NEW r \in Row
  PROVE  LET d == [r EXCEPT !.state = "deleted"]
         IN d.state = "deleted" /\ d.attempt = r.attempt /\ d.max = r.max
            /\ d.errors = r.errors
  BY DEF Row

LEMMA DiscardedFields ==
  ASSUME NEW r \in Row, NEW e
  PROVE  /\ Discarded(r, e).state = "discarded"
         /\ Discarded(r, e).attempt = r.attempt /\ Discarded(r, e).max = r.max
         /\ Discarded(r, e).errors = e.errors + 1
  BY DEF Discarded, Row

LEMMA RescheduledFields ==
  ASSUME NEW r \in Row, NEW e, NEW delay
  PROVE  /\ Rescheduled(r, e, delay).state = "available"
         /\ Rescheduled(r, e, delay).attempt = r.attempt
         /\ Rescheduled(r, e, delay).max = r.max
         /\ Rescheduled(r, e, delay).errors = e.errors + 1
         /\ Rescheduled(r, e, delay).scheduled = delay
  BY DEF Rescheduled, Row

\* No backoff is over at once.
LEMMA BackoffAhead ==
  ASSUME NEW a \in Nat, NEW delay \in Backoff(a)
  PROVE  delay > 0
<1>1. PICK x \in Jitters : delay = a * a + 1 + x
  BY DEF Backoff
<1>2. x \in Nat /\ a * a \in Nat
  BY WorkerQueueAssumption
<1> QED BY <1>1, <1>2

LEMMA ClaimStepsRows ==
  ASSUME TypeOK, NEW n \in Nodes, ClaimNextJob(n) PROVE RowsStep
<1>1. PICK j \in FirstDue(table[n]) :
        row' = [row EXCEPT ![j].state = "executing", ![j].attempt = @ + 1]
  BY DEF ClaimNextJob
<1>2. j \in Jobs /\ row[j].state = "available" /\ row[j].scheduled <= 0
  BY DEF FirstDue, Due, InTable
<1>3. row \in [Jobs -> Row] /\ row[j] \in Row
  BY <1>2 DEF TypeOK
<1>4. /\ row'[j].state = "executing" /\ row'[j].attempt = row[j].attempt + 1
      /\ row'[j].max = row[j].max /\ row'[j].errors = row[j].errors
      /\ \A k \in Jobs : k # j => row'[k] = row[k]
  BY <1>1, <1>2, <1>3 DEF Row
<1>5. Begun(j)
  BY <1>2, <1>4 DEF Begun, Others
<1> QED BY <1>2, <1>5 DEF RowsStep

\* The row of a running job is executing with what the snapshot says, or deleted.
LEMMA ExecuteStepsRows ==
  ASSUME RunInv, NEW n \in Nodes, NEW g \in Goroutines, Execute(n, g) PROVE RowsStep
<1> DEFINE e == exec[n][g]
           j == e.job
<1>1. g \in Running(n)
  BY DEF Execute, HandlerReturns, HandleSuccess, HandleFailure, Running
<1>2. e \in Execution /\ j \in Jobs /\ row[j] \in Row
  BY <1>1, LiveTyped DEF RunInv
<1>3. row[j].state \in Present =>
        /\ row[j].state = "executing" /\ row[j].attempt = e.attempt
        /\ row[j].max = e.max /\ row[j].errors = e.errors
  BY <1>1 DEF RunInv, SnapshotIsRow, Present
<1>4. CASE HandlerReturns(n, g)
  BY <1>4, SameRows DEF HandlerReturns, RunInv
<1>5. CASE HandleSuccess(n, g)
  <2>1. row' = row \/ UpdateRow(j, [row[j] EXCEPT !.state = "completed"])
    BY <1>5 DEF HandleSuccess
  <2>2. ASSUME row[j].state \in Present,
               row' = [row EXCEPT ![j] = [row[j] EXCEPT !.state = "completed"]]
        PROVE  RowsStep
    <3> DEFINE c == [row[j] EXCEPT !.state = "completed"]
    <3>1. c.state = "completed" /\ c.attempt = row[j].attempt /\ c.max = row[j].max
          /\ c.errors = row[j].errors
      BY <1>2, CompletedFields
    <3>2. row'[j] = c /\ \A k \in Jobs \ {j} : row'[k] = row[k]
      BY <1>2, <2>2 DEF RunInv, TypeOK
    <3> HIDE DEF c
    <3>3. Done(j)
      BY <1>3, <2>2, <3>1, <3>2 DEF Done, Others
    <3> QED BY <1>2, <3>3 DEF RowsStep
  <2> QED BY <2>1, <2>2, SameRows DEF UpdateRow, RunInv
<1>6. CASE HandleFailure(n, g)
  <2>1. \/ row' = row
        \/ /\ NoAttemptLeft(e)
           /\ UpdateRow(j, Discarded(row[j], e))
        \/ /\ ~NoAttemptLeft(e)
           /\ \E delay \in Backoff(e.attempt) : UpdateRow(j, Rescheduled(row[j], e, delay))
    BY <1>6 DEF HandleFailure
  <2>2. ASSUME row[j].state \in Present, NEW new, row' = [row EXCEPT ![j] = new],
               new.state = IF e.attempt < e.max THEN "available" ELSE "discarded",
               new.attempt = row[j].attempt, new.max = row[j].max,
               new.errors = e.errors + 1, new.state = "available" => new.scheduled > 0
        PROVE  RowsStep
    <3>1. row'[j] = new /\ \A k \in Jobs \ {j} : row'[k] = row[k]
      BY <1>2, <2>2 DEF RunInv, TypeOK
    <3>2. FailedOnce(j)
      BY <1>3, <2>2, <3>1 DEF FailedOnce, Others
    <3> QED BY <1>2, <3>2 DEF RowsStep
  <2>3. NoAttemptLeft(e) <=> ~(e.attempt < e.max)
    BY <1>2 DEF NoAttemptLeft, Execution
  <2>4. e.attempt \in Nat
    BY <1>2 DEF Execution
  <2> HIDE DEF e, j
  <2>5. CASE NoAttemptLeft(e) /\ UpdateRow(j, Discarded(row[j], e))
    <3> DEFINE new == Discarded(row[j], e)
    <3>1. /\ new.state = "discarded"
          /\ new.attempt = row[j].attempt /\ new.max = row[j].max
          /\ new.errors = e.errors + 1
      BY <1>2, DiscardedFields
    <3>2. row' = row \/ (row[j].state \in Present /\ row' = [row EXCEPT ![j] = new])
      BY <2>5 DEF UpdateRow
    <3> HIDE DEF new
    <3> QED BY <2>2, <2>3, <2>5, <3>1, <3>2, SameRows DEF RunInv
  <2>6. ASSUME NEW delay \in Backoff(e.attempt), ~NoAttemptLeft(e),
               UpdateRow(j, Rescheduled(row[j], e, delay))
        PROVE  RowsStep
    <3> DEFINE new == Rescheduled(row[j], e, delay)
    <3>1. /\ new.state = "available"
          /\ new.attempt = row[j].attempt /\ new.max = row[j].max
          /\ new.errors = e.errors + 1 /\ new.scheduled = delay
      BY <1>2, RescheduledFields
    <3>2. row' = row \/ (row[j].state \in Present /\ row' = [row EXCEPT ![j] = new])
      BY <2>6 DEF UpdateRow
    <3>3. delay > 0
      BY <2>6, <2>4, BackoffAhead
    <3> HIDE DEF new
    <3> QED BY <2>2, <2>3, <2>6, <3>1, <3>2, <3>3, SameRows DEF RunInv
  <2> QED BY <2>1, <2>5, <2>6, SameRows DEF RunInv
<1> QED BY <1>4, <1>5, <1>6 DEF Execute

LEMMA LoopStepsRows ==
  ASSUME TypeOK, NEW n \in Nodes,
         Start(n) \/ LoopStep(n) \/ LoopReturns(n) \/ Stop(n) \/ Stopped(n) \/ Crash(n)
  PROVE  RowsStep
<1>1. CASE ClaimNextJob(n)
  BY <1>1, ClaimStepsRows
<1>2. ASSUME TickerFires(n) \/ ReceiveWakeup(n) PROVE row' = row
  BY <1>2 DEF TickerFires, ReceiveWakeup, BeginPoll
<1>3. ASSUME GiveUpPoll(n) \/ AcquireSlot(n) \/ ClaimsNothing(n) \/ Start(n)
      PROVE  row' = row
  BY <1>3 DEF GiveUpPoll, AcquireSlot, ClaimsNothing, Start
<1>4. ASSUME LoopReturns(n) \/ Stop(n) \/ Stopped(n) \/ Crash(n)
      PROVE  row' = row
  BY <1>4 DEF LoopReturns, Stop, Stopped, Crash
<1> QED
  BY <1>1, <1>2, <1>3, <1>4, SameRows DEF LoopStep

LEMMA DeleteStepsRows ==
  ASSUME TypeOK, NEW S \in SUBSET Jobs, \A j \in S : row[j].state \in Present, DeleteRows(S)
  PROVE  RowsStep
<1>1. \A j \in Jobs : row'[j] = IF j \in S THEN [row[j] EXCEPT !.state = "deleted"] ELSE row[j]
  BY DEF DeleteRows
<1>2. ASSUME NEW j \in S
      PROVE  /\ row[j].state # "none" /\ row'[j].state = "deleted"
             /\ row'[j].attempt = row[j].attempt
             /\ row'[j].max = row[j].max /\ row'[j].errors = row[j].errors
  <2>1. row[j] \in Row
    BY DEF TypeOK
  <2> QED BY <1>1, <2>1, DeletedFields DEF Present
<1>3. Removed(S)
  BY <1>1, <1>2 DEF Removed
<1> QED BY <1>3 DEF RowsStep

LEMMA CleanupStepsRows ==
  ASSUME TypeOK, NEW n \in Nodes, CleanupCompletedJobs(n) PROVE RowsStep
<1>1. PICK t \in 1..Tables :
        LET visited == UNION {InTable(u) : u \in 1..t}
        IN \E old \in SUBSET {j \in visited : row[j].state = "completed"} :
             DeleteRows(old \cup {j \in visited : row[j].state = "discarded"})
  BY DEF CleanupCompletedJobs
<1> DEFINE visited == UNION {InTable(u) : u \in 1..t}
<1>2. PICK old \in SUBSET {j \in visited : row[j].state = "completed"} :
        DeleteRows(old \cup {j \in visited : row[j].state = "discarded"})
  BY <1>1
<1>3. \A j \in visited : j \in Jobs /\ row[j].state \in Present
  BY DEF InTable
<1> HIDE DEF visited
<1> QED BY <1>2, <1>3, DeleteStepsRows

LEMMA EnqueueStepsRows ==
  ASSUME DocumentedOps, TypeOK, NEW j \in Jobs, NEW p, Enqueue(j, p) PROVE RowsStep
<1>1. row[j].state = "none"
  BY DEF Enqueue, DocumentedOps, May
<1>2. PICK max \in MaxAttemptsChoices, prio \in Priorities, delay \in InitialDelays :
        row' = [row EXCEPT ![j] =
                  [state |-> "available", attempt |-> 0, max |-> max,
                   priority |-> prio, scheduled |-> delay, errors |-> 0]]
  BY DEF Enqueue
<1> DEFINE new == [state |-> "available", attempt |-> 0, max |-> max,
                   priority |-> prio, scheduled |-> delay, errors |-> 0]
<1>3. new.state = "available" /\ new.attempt = 0 /\ new.errors = 0
  OBVIOUS
<1>4. row'[j] = new /\ \A k \in Jobs \ {j} : row'[k] = row[k]
  BY <1>2 DEF TypeOK
<1> HIDE DEF new
<1>5. Inserted(j)
  BY <1>1, <1>3, <1>4 DEF Inserted, Others
<1> QED BY <1>5 DEF RowsStep

LEMMA RetryStepsRows ==
  ASSUME TypeOK, NEW t, NEW p, RetryFailed(t, p) PROVE RowsStep
<1>1. PICK states \in {{"discarded", "cancelled"}, {"discarded", "cancelled", "retryable"}} :
        RetryRows({j \in InTable(t) : row[j].state \in states}, p)
  BY DEF RetryFailed
<1> DEFINE S == {j \in InTable(t) : row[j].state \in states}
<1>2. S \in SUBSET Jobs /\ \A j \in S : row[j].state \in {"discarded", "cancelled", "retryable"}
  BY DEF InTable
<1> HIDE DEF S
<1>3. \A j \in Jobs : row'[j] = IF j \in S THEN Reset(row[j]) ELSE row[j]
  BY <1>1 DEF RetryRows, S
<1>4. \A j \in S : /\ row'[j].state = "available" /\ row'[j].attempt = 0
                   /\ row'[j].max = row[j].max /\ row'[j].errors = row[j].errors
  BY <1>2, <1>3, ResetTyped DEF TypeOK
<1>5. TakenBack(S)
  BY <1>2, <1>3, <1>4 DEF TakenBack
<1> QED BY <1>2, <1>5 DEF RowsStep

LEMMA TickStepsRows == ASSUME TypeOK, Tick PROVE RowsStep
<1>1. ASSUME NEW j \in Jobs PROVE Aged(row[j], row'[j])
  <2>1. row[j] \in Row /\ row'[j] = [row[j] EXCEPT !.scheduled = Older(@)]
    BY DEF TypeOK, Tick
  <2>2. Older(row[j].scheduled) \in Int /\ Older(row[j].scheduled) <= row[j].scheduled
    BY <2>1, WorkerQueueAssumption DEF Older, Row
  <2>3. row'[j].scheduled = Older(row[j].scheduled)
    BY <2>1 DEF Row
  <2> QED BY <2>1, <2>2, <2>3, AgedSameJob DEF Aged
<1> QED BY <1>1 DEF RowsStep

LEMMA EveryStepsRows ==
  ASSUME DocumentedOps, RunInv, [Next]_vars PROVE RowsStep
<1>1. TypeOK
  BY DEF RunInv
<1>2. ASSUME NEW n \in Nodes, NodeStep(n) PROVE RowsStep
  BY <1>1, <1>2, LoopStepsRows, ExecuteStepsRows, CleanupStepsRows DEF NodeStep
<1>3. ASSUME NEW p \in Processes, WriterStep(p) PROVE RowsStep
  <2>1. \A j \in Jobs : ~UpdateJob(j, p)
    BY DEF DocumentedOps, UpdateJob, CountOp, May
  <2>2. \A t \in 1..Tables : ~RetryIds(t, p)
    BY DEF DocumentedOps, RetryIds, CountOp, May
  <2> QED BY <1>1, <1>3, <2>1, <2>2, EnqueueStepsRows, RetryStepsRows DEF WriterStep
<1>4. ASSUME NEW j \in Jobs, RowStep(j) PROVE RowsStep
  <2>1. DeleteJob(j)
    BY <1>4 DEF RowStep, DocumentedOps, UpdateRecord, CancelJob, CountOp, May
  <2>2. row[j].state \in Present /\ DeleteRows({j})
    BY <2>1 DEF DeleteJob
  <2> QED BY <1>1, <2>2, DeleteStepsRows
<1>5. CASE UNCHANGED vars
  BY <1>1, <1>5, SameRows DEF vars
<1> QED BY <1>1, <1>2, <1>3, <1>4, <1>5, TickStepsRows DEF Next

-----------------------------------------------------------------------------
(* The error log *)

LEMMA LifeStep ==
  ASSUME TypeOK, TypeOK', LifeInv, RowsStep PROVE LifeInv'
<1>1. \A j \in Jobs : /\ row[j].attempt \in Nat /\ row[j].errors \in Nat
                      /\ row'[j].attempt \in Nat /\ row'[j].errors \in Nat
  BY DEF TypeOK, Row
<1> DEFINE Good(r) ==
             /\ r.state \notin {"cancelled", "retryable"}
             /\ r.state = "none" => r.attempt = 0
             /\ r.state = "executing" => r.attempt > 0
             /\ r.state \in {"available", "discarded"} => r.errors >= r.attempt
             /\ r.state \in {"executing", "completed"} => r.errors >= r.attempt - 1
<1>2. \A j \in Jobs : Good(row[j])
  BY DEF LifeInv, StatesWritten, ErrorLogComplete
<1>3. \A j \in Jobs : SameJob(row[j], row'[j]) => Good(row'[j])
  BY <1>2 DEF SameJob
<1>4. \A j \in Jobs : Good(row'[j])
  <2>1. CASE \A j \in Jobs : Aged(row[j], row'[j])
    <3>1. \A j \in Jobs : SameJob(row[j], row'[j])
      BY <2>1 DEF Aged
    <3> HIDE DEF Good
    <3> QED BY <1>3, <3>1
  <2>2. ASSUME NEW k \in Jobs, Inserted(k) \/ Begun(k) \/ Done(k) \/ FailedOnce(k)
        PROVE  \A j \in Jobs : Good(row'[j])
    <3>1. Good(row'[k])
      BY <1>1, <1>2, <2>2 DEF Inserted, Begun, Done, FailedOnce
    <3>2. \A j \in Jobs \ {k} : SameJob(row[j], row'[j])
      BY <2>2 DEF Inserted, Begun, Done, FailedOnce, Others, SameJob
    <3> HIDE DEF Good
    <3> QED BY <1>3, <3>1, <3>2
  <2>3. ASSUME NEW S \in SUBSET Jobs, TakenBack(S) \/ Removed(S)
        PROVE  \A j \in Jobs : Good(row'[j])
    BY <1>1, <1>2, <2>3 DEF TakenBack, Removed
  <2> HIDE DEF Good
  <2> QED BY <2>1, <2>2, <2>3 DEF RowsStep
<1> QED BY <1>4 DEF LifeInv, StatesWritten, ErrorLogComplete

LEMMA LifeInvariant ==
  ASSUME DocumentedOps
  PROVE  Spec => [](RunInv /\ LifeInv)
<1>1. Init => LifeInv
  BY DEF Init, LifeInv, StatesWritten, ErrorLogComplete, NoRow
<1>2. RunInv /\ RunInv' /\ LifeInv /\ [Next]_vars => LifeInv'
  BY EveryStepsRows, LifeStep DEF RunInv
<1> QED
  BY <1>1, <1>2, RunInvariant, PTL DEF Spec

\* Under the documented operations no failure is lost from the error log, though
\* each execution rewrites it from its snapshot (handleFailure), whatever crashes
\* and fails.
THEOREM ErrorLogStaysComplete ==
  ASSUME DocumentedOps
  PROVE  Spec => []ErrorLogComplete
<1>1. LifeInv => ErrorLogComplete
  BY DEF LifeInv
<1> QED
  BY <1>1, LifeInvariant, PTL

-----------------------------------------------------------------------------
(* The life of a job *)

\* What each step on the rows is in the life of the jobs.
LEMMA StepsOfLife ==
  ASSUME RunInv, TypeOK', LifeInv, RowsStep
  PROVE  [Lifecycle!Next]_(Lifecycle!vars)
<1>1. \A j \in Jobs : /\ row[j].attempt \in Nat /\ row[j].max \in Int
                      /\ row[j].scheduled \in Int
                      /\ row'[j].attempt \in Nat /\ row'[j].max \in Int
                      /\ row'[j].scheduled \in Int
  BY DEF RunInv, TypeOK, Row
<1>2. ASSUME \A j \in Jobs : Aged(row[j], row'[j])
      PROVE  \E S \in SUBSET Jobs : Lifecycle!Elapse(S)
  <2> DEFINE S == {j \in Jobs : Stage(row[j]) = "retryable" /\ Stage(row'[j]) # "retryable"}
  <2>1. ASSUME NEW j \in Jobs
        PROVE  /\ j \in S => Stage(row'[j]) = "available"
               /\ j \notin S => Stage(row'[j]) = Stage(row[j])
               /\ row'[j].attempt = row[j].attempt /\ row'[j].max = row[j].max
    BY <1>1, <1>2 DEF Aged, SameJob, Stage, LifeInv, StatesWritten
  <2>2. \A j \in S : Stage(row[j]) = "retryable"
    OBVIOUS
  <2> HIDE DEF S
  <2>3. Lifecycle!Elapse(S)
    BY <2>1, <2>2 DEF S, Lifecycle!Elapse
  <2> QED BY <2>3 DEF S
<1>3. ASSUME NEW j \in Jobs, Inserted(j) PROVE Lifecycle!Enqueue(j)
  <2>1. row[j].attempt = 0
    BY <1>3 DEF Inserted, LifeInv, StatesWritten
  <2>2. Stage(row[j]) = "none" /\ Stage(row'[j]) = "available"
    BY <1>3 DEF Inserted, Stage
  <2> QED BY <1>1, <1>3, <2>1, <2>2 DEF Inserted, Others, Lifecycle!Enqueue
<1>4. ASSUME NEW j \in Jobs, Begun(j) PROVE Lifecycle!Begin(j)
  <2>1. row[j].attempt = 0 \/ row[j].attempt < row[j].max
    BY <1>1, <1>4 DEF Begun, RunInv, AttemptsBounded, Larger, Present
  <2>2. Stage(row[j]) = "available" /\ Stage(row'[j]) = "executing"
    BY <1>1, <1>4 DEF Begun, Stage
  <2> QED BY <1>4, <2>1, <2>2 DEF Begun, Others, Lifecycle!Begin
<1>5. ASSUME NEW j \in Jobs, Done(j) PROVE Lifecycle!Succeed(j)
  <2>1. Stage(row[j]) = "executing" /\ Stage(row'[j]) = "completed"
    BY <1>5 DEF Done, Stage
  <2> QED BY <1>5, <2>1 DEF Done, Others, Lifecycle!Succeed
<1>6. ASSUME NEW j \in Jobs, FailedOnce(j) PROVE Lifecycle!Fail(j)
  <2>1. row[j].attempt > 0
    BY <1>1, <1>6 DEF FailedOnce, LifeInv, StatesWritten
  <2>2. /\ Stage(row[j]) = "executing"
        /\ Stage(row'[j]) = IF row[j].attempt < row[j].max THEN "retryable" ELSE "discarded"
    BY <1>6, <2>1 DEF FailedOnce, Stage
  <2> QED BY <1>6, <2>2 DEF FailedOnce, Others, Lifecycle!Fail
<1>7. ASSUME NEW S \in SUBSET Jobs, TakenBack(S) PROVE Lifecycle!Retry(S)
  <2>1. \A j \in S : Stage(row[j]) = "discarded" /\ Stage(row'[j]) = "available"
    BY <1>7 DEF TakenBack, LifeInv, StatesWritten, Stage
  <2> QED BY <1>7, <2>1 DEF TakenBack, Lifecycle!Retry
<1>8. ASSUME NEW S \in SUBSET Jobs, Removed(S) PROVE Lifecycle!Remove(S)
  <2>1. \A j \in S : Stage(row[j]) # "none" /\ Stage(row'[j]) = "deleted"
    BY <1>8 DEF Removed, Stage
  <2> QED BY <1>8, <2>1 DEF Removed, Lifecycle!Remove
<1> QED
  BY <1>2, <1>3, <1>4, <1>5, <1>6, <1>7, <1>8 DEF RowsStep, Lifecycle!Next

\* Under the documented operations the rows implement the documented life of a job, a
\* job that waits for its backoff being the diagram's "Retryable", whatever engines,
\* crashes and failed statements do.
THEOREM ImplementsLifecycle ==
  ASSUME DocumentedOps
  PROVE  Spec => RefinesLifecycle
<1>1. Init => Lifecycle!Init
  BY DEF Init, NoRow, Stage, Lifecycle!Init
<1>2. RunInv /\ RunInv' /\ LifeInv /\ [Next]_vars => [Lifecycle!Next]_(Lifecycle!vars)
  BY EveryStepsRows, StepsOfLife DEF RunInv
<1> QED
  BY <1>1, <1>2, LifeInvariant, PTL DEF Spec, RefinesLifecycle, Lifecycle!Spec

-----------------------------------------------------------------------------
(* Executing rows *)

NoneStarts == \A j \in Jobs : row'[j].state = "executing" => row[j].state = "executing"

\* Faults are counted and never forgotten.
LEMMA FaultsGrow ==
  ASSUME [Next]_vars PROVE faults' = faults \/ faults' = faults + 1
<1>1. ASSUME NEW n \in Nodes, NEW g \in Goroutines, Execute(n, g)
      PROVE  faults' = faults \/ faults' = faults + 1
  BY <1>1 DEF Execute, HandlerReturns, HandleSuccess, HandleFailure, CountFault
<1>2. ASSUME NEW n \in Nodes, LoopStep(n)
      PROVE  faults' = faults \/ faults' = faults + 1
  BY <1>2 DEF LoopStep, TickerFires, ReceiveWakeup, BeginPoll, GiveUpPoll, AcquireSlot,
              ClaimNextJob, ClaimsNothing, CountFault
<1>3. ASSUME NEW n \in Nodes,
             Start(n) \/ LoopReturns(n) \/ Stop(n) \/ Stopped(n) \/ Crash(n)
             \/ CleanupCompletedJobs(n)
      PROVE  faults' = faults \/ faults' = faults + 1
  BY <1>3 DEF Start, LoopReturns, Stop, Stopped, Crash, CleanupCompletedJobs, CountFault
<1>4. ASSUME NEW p \in Processes, WriterStep(p)
      PROVE  faults' = faults \/ faults' = faults + 1
  BY <1>4 DEF WriterStep, Enqueue, UpdateJob, RetryIds, RetryFailed, RetryRows, CountFault
<1>5. ASSUME NEW j \in Jobs, RowStep(j) PROVE faults' = faults
  BY <1>5 DEF RowStep, UpdateRecord, CancelJob, DeleteJob
<1>6. ASSUME Tick \/ UNCHANGED vars PROVE faults' = faults
  BY <1>6 DEF Tick, vars
<1> QED BY <1>1, <1>2, <1>3, <1>4, <1>5, <1>6 DEF Next, NodeStep

\* A step that leaves the goroutines alone and starts no job leaves none behind.
LEMMA WritersLeaveNone ==
  ASSUME OrphansNeedAFault, exec' = exec, NoneStarts, faults' = 0 => faults = 0
  PROVE  OrphansNeedAFault'
<1> SUFFICES ASSUME faults' = 0, NEW j \in Jobs, row'[j].state = "executing"
             PROVE  \E n \in Nodes : \E g \in Running(n)' : exec'[n][g].job = j
  BY DEF OrphansNeedAFault
<1>1. PICK n \in Nodes : \E g \in Running(n) : exec[n][g].job = j
  BY DEF OrphansNeedAFault, NoneStarts
<1>2. Running(n)' = Running(n)
  BY DEF Running
<1> QED BY <1>1, <1>2

\* An execution that fails no statement takes its row out of executing.
LEMMA ExecuteLeavesNone ==
  ASSUME RunInv, OrphansNeedAFault, NEW n \in Nodes, NEW g \in Goroutines, Execute(n, g),
         faults' = 0 => faults = 0
  PROVE  OrphansNeedAFault'
<1> DEFINE e == exec[n][g]
           k == e.job
<1>1. g \in Running(n)
  BY DEF Execute, HandlerReturns, HandleSuccess, HandleFailure, Running
<1>2. e \in Execution /\ k \in Jobs /\ row[k] \in Row
  BY <1>1, LiveTyped DEF RunInv
<1> SUFFICES ASSUME faults' = 0, NEW j \in Jobs, row'[j].state = "executing"
             PROVE  \E m \in Nodes : \E h \in Running(m)' : exec'[m][h].job = j
  BY DEF OrphansNeedAFault
<1>3. CASE HandlerReturns(n, g)
  <2>1. PICK outcome \in {"succeeded", "failed"} :
          exec' = [exec EXCEPT ![n][g].phase = outcome]
    BY <1>3 DEF HandlerReturns
  <2>2. \A m \in Nodes : \A h \in Goroutines :
          exec'[m][h] = IF m = n /\ h = g THEN [exec[m][h] EXCEPT !.phase = outcome]
                        ELSE exec[m][h]
    BY <2>1 DEF RunInv, TypeOK
  <2>3. [e EXCEPT !.phase = outcome].job = k
        /\ [e EXCEPT !.phase = outcome].phase = outcome
    BY <1>2 DEF Execution
  <2>4a. PICK m \in Nodes : \E h \in Running(m) : exec[m][h].job = j
    BY <1>3 DEF HandlerReturns, OrphansNeedAFault
  <2>4. PICK h \in Running(m) : exec[m][h].job = j
    BY <2>4a
  <2>5. h \in Running(m)' /\ exec'[m][h].job = j
    <3>1. h \in Goroutines
      BY <2>4 DEF Running
    <3>2. CASE m = n /\ h = g
      <4>1. exec'[m][h] = [e EXCEPT !.phase = outcome] /\ j = k
        BY <2>2, <2>4, <3>1, <3>2
      <4> QED BY <2>1, <2>3, <3>1, <4>1 DEF Running
    <3>3. CASE ~(m = n /\ h = g)
      <4>1. exec'[m][h] = exec[m][h]
        BY <2>2, <3>1, <3>3
      <4> QED BY <2>4, <4>1 DEF Running
    <3> QED BY <3>2, <3>3
  <2> QED BY <2>5
<1>4. CASE HandleSuccess(n, g) \/ HandleFailure(n, g)
  <2>1. EndExecution(n, g)
    BY <1>4 DEF HandleSuccess, HandleFailure
  <2>2. \E new : new.state # "executing" /\ UpdateRow(k, new)
    <3>1. CASE HandleSuccess(n, g)
      <4>1. UpdateRow(k, [row[k] EXCEPT !.state = "completed"]) \/ CountFault("dbError")
        BY <3>1 DEF HandleSuccess
      <4>2. [row[k] EXCEPT !.state = "completed"].state # "executing"
        BY <1>2, CompletedFields
      <4>3. ~CountFault("dbError")
        BY DEF CountFault, RunInv, TypeOK
      <4> QED BY <4>1, <4>2, <4>3
    <3>2. CASE HandleFailure(n, g)
      <4>1. ~CountFault("dbError")
        BY DEF CountFault, RunInv, TypeOK
      <4>2. \/ UpdateRow(k, Discarded(row[k], e))
            \/ \E delay \in Backoff(e.attempt) : UpdateRow(k, Rescheduled(row[k], e, delay))
        BY <3>2, <4>1 DEF HandleFailure
      <4>3. Discarded(row[k], e).state # "executing"
        BY <1>2, DiscardedFields
      <4>4. \A delay : Rescheduled(row[k], e, delay).state # "executing"
        BY <1>2, RescheduledFields
      <4> HIDE DEF e, k
      <4> QED BY <4>2, <4>3, <4>4
    <3> QED BY <1>4, <3>1, <3>2
  <2>3. row'[k].state # "executing" /\ \A i \in Jobs \ {k} : row'[i] = row[i]
    BY <1>2, <2>2 DEF UpdateRow, RunInv, TypeOK, Present
  <2>4. j # k /\ row[j].state = "executing"
    BY <2>3
  <2>5a. PICK m \in Nodes : \E h \in Running(m) : exec[m][h].job = j
    BY <2>4 DEF OrphansNeedAFault
  <2>5. PICK h \in Running(m) : exec[m][h].job = j
    BY <2>5a
  <2>6. \A a \in Nodes : \A b \in Goroutines :
          exec'[a][b] = IF a = n /\ b = g THEN Idle ELSE exec[a][b]
    BY <2>1 DEF RunInv, TypeOK, EndExecution
  <2>7. h \in Running(m)' /\ exec'[m][h].job = j
    BY <2>4, <2>5, <2>6 DEF Running
  <2> QED BY <2>7
<1> QED BY <1>3, <1>4 DEF Execute

LEMMA ClaimLeavesNone ==
  ASSUME RunInv, OrphansNeedAFault, NEW n \in Nodes, ClaimNextJob(n)
  PROVE  OrphansNeedAFault'
<1>1. PICK k \in FirstDue(table[n]), g \in IdleGoroutines(n) :
        /\ row' = [row EXCEPT ![k].state = "executing", ![k].attempt = @ + 1]
        /\ exec' = [exec EXCEPT ![n][g] =
                      [phase |-> "running", job |-> k,
                       attempt |-> row[k].attempt + 1,
                       max |-> row[k].max, errors |-> row[k].errors]]
  BY DEF ClaimNextJob
<1> DEFINE new == [phase |-> "running", job |-> k, attempt |-> row[k].attempt + 1,
                   max |-> row[k].max, errors |-> row[k].errors]
<1>2. k \in Jobs /\ g \in Goroutines /\ exec[n][g].phase = "idle"
  BY <1>1 DEF FirstDue, Due, InTable, IdleGoroutines
<1>3. \A m \in Nodes : \A h \in Goroutines :
        exec'[m][h] = IF m = n /\ h = g THEN new ELSE exec[m][h]
  BY <1>1, <1>2 DEF RunInv, TypeOK
<1>4. new.job = k /\ new.phase = "running"
  OBVIOUS
<1>5. faults' = faults /\ \A i \in Jobs : i # k => row'[i] = row[i]
  BY <1>1 DEF ClaimNextJob, RunInv, TypeOK
<1> HIDE DEF new
<1> SUFFICES ASSUME faults' = 0, NEW j \in Jobs, row'[j].state = "executing"
             PROVE  \E m \in Nodes : \E h \in Running(m)' : exec'[m][h].job = j
  BY DEF OrphansNeedAFault
<1>6. CASE j = k
  <2>1. g \in Running(n)' /\ exec'[n][g].job = j
    BY <1>2, <1>3, <1>4, <1>6 DEF Running
  <2> QED BY <2>1
<1>7. CASE j # k
  <2>1a. PICK m \in Nodes : \E h \in Running(m) : exec[m][h].job = j
    BY <1>5, <1>7 DEF OrphansNeedAFault
  <2>1. PICK h \in Running(m) : exec[m][h].job = j
    BY <2>1a
  <2>2. h \in Running(m)' /\ exec'[m][h].job = j
    BY <1>2, <1>3, <2>1 DEF Running
  <2> QED BY <2>2
<1> QED BY <1>6, <1>7

LEMMA LoopLeavesNone ==
  ASSUME RunInv, OrphansNeedAFault, NEW n \in Nodes, faults' = 0 => faults = 0,
         Start(n) \/ LoopStep(n) \/ LoopReturns(n) \/ Stop(n) \/ Stopped(n) \/ Crash(n)
  PROVE  OrphansNeedAFault'
<1>1. CASE ClaimNextJob(n)
  BY <1>1, ClaimLeavesNone
<1>2. CASE row' = row /\ exec' = exec
  BY <1>2, WritersLeaveNone DEF NoneStarts
<1>3. CASE Crash(n)
  BY <1>3 DEF Crash, CountFault, OrphansNeedAFault, RunInv, TypeOK
<1>4. ASSUME TickerFires(n) \/ ReceiveWakeup(n) PROVE row' = row /\ exec' = exec
  BY <1>4 DEF TickerFires, ReceiveWakeup, BeginPoll
<1>5. ASSUME GiveUpPoll(n) \/ AcquireSlot(n) \/ ClaimsNothing(n) \/ Start(n)
      PROVE  row' = row /\ exec' = exec
  BY <1>5 DEF GiveUpPoll, AcquireSlot, ClaimsNothing, Start
<1>6. ASSUME LoopReturns(n) \/ Stop(n) \/ Stopped(n)
      PROVE  row' = row /\ exec' = exec
  BY <1>6 DEF LoopReturns, Stop, Stopped
<1> QED
  BY <1>1, <1>2, <1>3, <1>4, <1>5, <1>6 DEF LoopStep

LEMMA DeleteStartsNone ==
  ASSUME TypeOK, NEW S, DeleteRows(S) PROVE NoneStarts
<1>1. \A j \in Jobs : row'[j] = row[j] \/ row'[j].state = "deleted"
  BY DeletedFields DEF TypeOK, DeleteRows
<1> QED BY <1>1 DEF NoneStarts

LEMMA WriterStartsNone ==
  ASSUME DocumentedOps, TypeOK, NEW p, WriterStep(p) PROVE NoneStarts /\ exec' = exec
<1>1. ASSUME NEW j \in Jobs, Enqueue(j, p) PROVE NoneStarts /\ exec' = exec
  <2>1. \E new : new.state = "available" /\ row' = [row EXCEPT ![j] = new]
    BY <1>1 DEF Enqueue
  <2>2. \A k \in Jobs : row'[k] = row[k] \/ row'[k].state = "available"
    BY <2>1 DEF TypeOK
  <2> QED BY <1>1, <2>2 DEF NoneStarts, Enqueue, rowWriterUnchanged
<1>2. ASSUME NEW t \in 1..Tables, RetryFailed(t, p) PROVE NoneStarts /\ exec' = exec
  <2>1. PICK S : RetryRows(S, p)
    BY <1>2 DEF RetryFailed
  <2>2. \A k \in Jobs : row'[k] = row[k] \/ row'[k].state = "available"
    BY <2>1, ResetTyped DEF RetryRows, TypeOK
  <2> QED BY <2>1, <2>2 DEF NoneStarts, RetryRows, rowWriterUnchanged
<1>3. \A j \in Jobs : ~UpdateJob(j, p)
  BY DEF DocumentedOps, UpdateJob, CountOp, May
<1>4. \A t \in 1..Tables : ~RetryIds(t, p)
  BY DEF DocumentedOps, RetryIds, CountOp, May
<1> QED BY <1>1, <1>2, <1>3, <1>4 DEF WriterStep

LEMMA TickStartsNone == ASSUME TypeOK, Tick PROVE NoneStarts /\ exec' = exec
<1>1. ASSUME NEW j \in Jobs PROVE row'[j].state = row[j].state
  <2>1. row[j] \in Row /\ row'[j] = [row[j] EXCEPT !.scheduled = Older(@)]
    BY DEF TypeOK, Tick
  <2> QED BY <2>1 DEF Row
<1> QED BY <1>1 DEF NoneStarts, Tick, engineVars

\* Under the documented operations only a crash or a failed statement leaves a
\* job executing that no goroutine executes ("executing: Currently being
\* processed by a worker goroutine"): every other end of executeJob writes the row.
THEOREM OrphansOnlyByFaults ==
  ASSUME DocumentedOps
  PROVE  Spec => []OrphansNeedAFault
<1>1. Init => OrphansNeedAFault
  BY DEF Init, OrphansNeedAFault, NoRow
<1>2. RunInv /\ TypeOK' /\ OrphansNeedAFault /\ [Next]_vars => OrphansNeedAFault'
  <2> SUFFICES ASSUME RunInv, TypeOK', OrphansNeedAFault, [Next]_vars
               PROVE  OrphansNeedAFault'
    OBVIOUS
  <2>1. faults' = 0 => faults = 0
    <3>1. faults \in Nat
      BY WorkerQueueAssumption DEF RunInv, TypeOK
    <3>2. faults' = faults \/ faults' = faults + 1
      BY FaultsGrow
    <3> QED BY <3>1, <3>2
  <2>2. TypeOK
    BY DEF RunInv
  <2>3. ASSUME NEW n \in Nodes, NodeStep(n) PROVE OrphansNeedAFault'
    <3>1. CASE CleanupCompletedJobs(n)
      <4>1. exec' = exec /\ \E S : DeleteRows(S)
        BY <3>1 DEF CleanupCompletedJobs, rowWriterUnchanged
      <4> QED BY <2>1, <2>2, <4>1, DeleteStartsNone, WritersLeaveNone
    <3> QED BY <2>1, <2>3, <3>1, LoopLeavesNone, ExecuteLeavesNone DEF NodeStep
  <2>4. ASSUME NEW p \in Processes, WriterStep(p) PROVE OrphansNeedAFault'
    BY <2>1, <2>2, <2>4, WriterStartsNone, WritersLeaveNone
  <2>5. ASSUME NEW j \in Jobs, RowStep(j) PROVE OrphansNeedAFault'
    <3>1. DeleteRows({j}) /\ exec' = exec
      BY <2>5 DEF RowStep, DeleteJob, DocumentedOps, UpdateRecord, CancelJob, CountOp, May,
                  rowWriterUnchanged
    <3> QED BY <2>1, <2>2, <3>1, DeleteStartsNone, WritersLeaveNone
  <2>6. CASE Tick
    BY <2>1, <2>2, <2>6, TickStartsNone, WritersLeaveNone
  <2>7. CASE UNCHANGED vars
    BY <2>1, <2>7, WritersLeaveNone DEF vars, NoneStarts
  <2> QED BY <2>3, <2>4, <2>5, <2>6, <2>7 DEF Next
<1> QED
  BY <1>1, <1>2, RunInvariant, TypeCorrect, PTL DEF Spec

=============================================================================
