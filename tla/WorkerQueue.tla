---------------------------- MODULE WorkerQueue ----------------------------
(***************************************************************************)
(* The background job queue of pkg/worker/engine.go: worker tables in the  *)
(* shared SQLite database, one engine per server process (its poll loop,   *)
(* its semaphore of execution slots, its goroutines) and the HTTP, CLI and *)
(* MCP operations that write the same rows.                                *)
(*                                                                         *)
(* Every SQL statement is one step: SQLite runs it atomically.  Time is    *)
(* relative: row[j].scheduled is scheduled_at minus the present time, in   *)
(* units of ten seconds, so a job is due once it is at most 0.             *)
(***************************************************************************)
EXTENDS Integers, FiniteSets

CONSTANTS
  Jobs,                \* job ids
  Nodes,               \* server processes, each with one engine
  Goroutines,          \* names for the goroutines a node may run executeJob in
  NoJob,               \* the job of an idle goroutine
  Outside,             \* a process that writes rows but runs no loop (CLI, MCP)
  Tables,              \* number of worker tables; table 1 is _workers
  TableOf,             \* the table each job lives in
  MaxConcurrency,      \* capacity of Engine.activeJobs (10 in the code)
  WakeupCap,           \* capacity of Engine.wakeupChan (100 in the code)
  MaxAttemptsChoices,  \* max_attempts values callers pass
  Priorities,          \* priority values callers pass
  InitialDelays,       \* scheduled_at minus now, as callers pass it
  Jitters,             \* rand.Intn(30) in units of ten seconds
  PatchStates,         \* states callers write through an update
  Allowed,             \* which external events may happen in this instance
  MaxAge,              \* bound: how far in the past a due time is told apart
  MaxOps,              \* bound on administrative operations
  MaxFaults            \* bound on crashes and failed SQL statements

Events == {"retryIds", "retryFailed", "patch", "cancel", "delete", "cleanup",
           "reuseId", "stop", "crash", "dbError"}

\* The states a row can be in while it is in its table.
Present == {"available", "executing", "completed", "discarded", "cancelled",
            "retryable"}

ASSUME WorkerQueueAssumption ==
  /\ Tables \in Nat \ {0}
  /\ TableOf \in [Jobs -> 1..Tables]
  /\ MaxConcurrency \in Nat \ {0}
  /\ WakeupCap \in Nat \ {0}
  /\ MaxAttemptsChoices \subseteq Int
  /\ Priorities \subseteq Int
  /\ InitialDelays \subseteq Int
  /\ Jitters \subseteq Nat
  /\ MaxAge \in Nat
  /\ MaxOps \in Nat
  /\ MaxFaults \in Nat
  /\ PatchStates \subseteq Present
  /\ IsFiniteSet(Goroutines)
  /\ Allowed \subseteq Events
  /\ NoJob \notin Jobs
  /\ Outside \notin Nodes

VARIABLES
  row,        \* the job rows, by id
  wakeup,     \* signals buffered in each engine's wakeupChan
  pc,         \* where each engine's loop is
  table,      \* the table the loop is polling
  lastTable,  \* the last table of the list this poll gathered
  held,       \* tokens in each engine's activeJobs semaphore
  exec,       \* what each goroutine of each node does
  cancelled,  \* whether the engine's context is cancelled
  lateClaims, \* history: jobs claimed since the context was cancelled
  ops,        \* administrative operations so far
  faults      \* crashes and failed statements so far

engineVars == <<wakeup, pc, table, lastTable, held, exec, cancelled, lateClaims>>
vars == <<row, wakeup, pc, table, lastTable, held, exec, cancelled, lateClaims,
          ops, faults>>

\* "none": never inserted; "deleted": the row has been removed.
RowStates == Present \cup {"none", "deleted"}

Row == [state: RowStates, attempt: Nat, max: Int, priority: Int,
        scheduled: Int, errors: Nat]

NoRow == [state |-> "none", attempt |-> 0, max |-> 0, priority |-> 0,
          scheduled |-> 0, errors |-> 0]

\* A goroutine keeps the Job that claimNextJob parsed from RETURNING: a
\* snapshot of the row, never read again from the table.
Execution == [phase: {"running", "succeeded", "failed"}, job: Jobs,
              attempt: Nat, max: Int, errors: Nat]
Idle == [phase |-> "idle", job |-> NoJob, attempt |-> 0, max |-> 0, errors |-> 0]
Locations == {"down", "select", "poll", "claim", "exited"}

TypeOK ==
  /\ row \in [Jobs -> Row]
  /\ wakeup \in [Nodes -> 0..WakeupCap]
  /\ pc \in [Nodes -> Locations]
  /\ table \in [Nodes -> 1..Tables]
  /\ lastTable \in [Nodes -> 1..Tables]
  /\ held \in [Nodes -> Int]
  /\ exec \in [Nodes -> [Goroutines -> Execution \cup {Idle}]]
  /\ cancelled \in [Nodes -> BOOLEAN]
  /\ lateClaims \in [Nodes -> Nat]
  /\ ops \in 0..MaxOps
  /\ faults \in 0..MaxFaults

Init ==
  /\ row = [j \in Jobs |-> NoRow]
  /\ wakeup = [n \in Nodes |-> 0]
  /\ pc = [n \in Nodes |-> "down"]
  /\ table = [n \in Nodes |-> 1]
  /\ lastTable = [n \in Nodes |-> 1]
  /\ held = [n \in Nodes |-> 0]
  /\ exec = [n \in Nodes |-> [g \in Goroutines |-> Idle]]
  /\ cancelled = [n \in Nodes |-> FALSE]
  /\ lateClaims = [n \in Nodes |-> 0]
  /\ ops = 0
  /\ faults = 0

-----------------------------------------------------------------------------
(* Helpers *)

May(event) == event \in Allowed

\* An administrative operation, or a fault, within the bounds of the instance.
CountOp(event) == May(event) /\ ops < MaxOps /\ ops' = ops + 1
CountFault(event) == May(event) /\ faults < MaxFaults /\ faults' = faults + 1

\* Trigger in process p: a send that is dropped when the buffer is full; a
\* process whose loop is not running has nobody to wake.
Trigger(p) ==
  wakeup' = [n \in Nodes |->
               IF n = p /\ pc[n] # "down" /\ wakeup[n] < WakeupCap
               THEN wakeup[n] + 1 ELSE wakeup[n]]

InTable(t) == {j \in Jobs : TableOf[j] = t /\ row[j].state \in Present}

\* Mutant: a claim that also takes jobs already being executed.
DueAnyState(t) ==
  {j \in InTable(t) : row[j].state \in {"available", "executing"} /\ row[j].scheduled <= 0}

Due(t) == {j \in InTable(t) : row[j].state = "available" /\ row[j].scheduled <= 0}

\* ORDER BY priority ASC, scheduled_at ASC; ties, which the code breaks by the
\* random id, are left open.
Before(j, k) ==
  \/ row[j].priority < row[k].priority
  \/ row[j].priority = row[k].priority /\ row[j].scheduled < row[k].scheduled

FirstDue(t) == {j \in Due(t) : \A k \in Due(t) : ~Before(k, j)}

\* attempt^2 * 10 + 10 seconds plus the jitter, in units of ten seconds.
Backoff(a) == {a * a + 1 + x : x \in Jitters}

IdleGoroutines(n) == {g \in Goroutines : exec[n][g].phase = "idle"}

\* UPDATE ... WHERE id = j: changes nothing when the row is gone.
UpdateRow(j, new) ==
  row' = IF row[j].state \in Present THEN [row EXCEPT ![j] = new] ELSE row

\* Mutant: a retry that keeps the attempts made.
ResetKeepsAttempt(r) == [r EXCEPT !.state = "available", !.scheduled = 0]

\* The columns every retry writes.
Reset(r) == [r EXCEPT !.state = "available", !.scheduled = 0, !.attempt = 0]

-----------------------------------------------------------------------------
(* The engine: start, poll loop, claim, shutdown *)

Start(n) ==
  /\ pc[n] = "down"
  /\ pc' = [pc EXCEPT ![n] = "select"]
  /\ UNCHANGED <<row, wakeup, table, lastTable, held, exec, cancelled,
                 lateClaims, ops, faults>>

\* pollAndRunJobs gathers the worker tables; when the moul list cannot be read
\* it polls _workers alone.
BeginPoll(n) ==
  /\ pc[n] = "select"
  /\ pc' = [pc EXCEPT ![n] = "poll"]
  /\ table' = [table EXCEPT ![n] = 1]
  /\ \/ /\ lastTable' = [lastTable EXCEPT ![n] = Tables]
        /\ UNCHANGED faults
     \/ /\ CountFault("dbError")
        /\ lastTable' = [lastTable EXCEPT ![n] = 1]
  /\ UNCHANGED <<row, held, exec, cancelled, lateClaims, ops>>

\* Mutant: an engine without its ticker.
NoTicker(n) == FALSE

\* The two ways into a poll: the one second ticker and a Trigger.
TickerFires(n) == BeginPoll(n) /\ UNCHANGED wakeup

ReceiveWakeup(n) ==
  /\ wakeup[n] > 0
  /\ wakeup' = [wakeup EXCEPT ![n] = @ - 1]
  /\ BeginPoll(n)

LoopReturns(n) ==
  /\ pc[n] = "select"
  /\ cancelled[n]
  /\ pc' = [pc EXCEPT ![n] = "exited"]
  /\ UNCHANGED <<row, wakeup, table, lastTable, held, exec, cancelled,
                 lateClaims, ops, faults>>

\* Mutant: a poll that does not look at the context.
GiveUpPollIgnoresContext(n) ==
  /\ pc[n] = "poll"
  /\ held[n] = MaxConcurrency
  /\ pc' = [pc EXCEPT ![n] = "select"]
  /\ UNCHANGED <<row, wakeup, table, lastTable, held, exec, cancelled,
                 lateClaims, ops, faults>>

\* Before each claim: give up when the context is done or no slot is free.
GiveUpPoll(n) ==
  /\ pc[n] = "poll"
  /\ cancelled[n] \/ held[n] = MaxConcurrency
  /\ pc' = [pc EXCEPT ![n] = "select"]
  /\ UNCHANGED <<row, wakeup, table, lastTable, held, exec, cancelled,
                 lateClaims, ops, faults>>

\* Mutant: a slot taken although the context is cancelled.
AcquireSlotIgnoresContext(n) ==
  /\ pc[n] = "poll"
  /\ held[n] < MaxConcurrency
  /\ held' = [held EXCEPT ![n] = @ + 1]
  /\ pc' = [pc EXCEPT ![n] = "claim"]
  /\ UNCHANGED <<row, wakeup, table, lastTable, exec, cancelled, lateClaims,
                 ops, faults>>

AcquireSlot(n) ==
  /\ pc[n] = "poll"
  /\ ~cancelled[n]
  /\ held[n] < MaxConcurrency
  /\ held' = [held EXCEPT ![n] = @ + 1]
  /\ pc' = [pc EXCEPT ![n] = "claim"]
  /\ UNCHANGED <<row, wakeup, table, lastTable, exec, cancelled, lateClaims,
                 ops, faults>>

\* claimNextJob: one UPDATE ... RETURNING; the returned row becomes the
\* goroutine's snapshot.
ClaimNextJob(n) ==
  /\ pc[n] = "claim"
  /\ \E j \in FirstDue(table[n]), g \in IdleGoroutines(n) :
       /\ row' = [row EXCEPT ![j].state = "executing", ![j].attempt = @ + 1]
       /\ exec' = [exec EXCEPT ![n][g] =
                     [phase |-> "running", job |-> j, attempt |-> row[j].attempt + 1,
                      max |-> row[j].max, errors |-> row[j].errors]]
  /\ lateClaims' = [lateClaims EXCEPT ![n] = IF cancelled[n] THEN @ + 1 ELSE @]
  /\ pc' = [pc EXCEPT ![n] = "poll"]
  /\ UNCHANGED <<wakeup, table, lastTable, held, cancelled, ops, faults>>

\* The next table of the list this poll gathered, or the end of the poll.
NextTable(n) ==
  \/ /\ table[n] < lastTable[n]
     /\ table' = [table EXCEPT ![n] = @ + 1]
     /\ pc' = [pc EXCEPT ![n] = "poll"]
  \/ /\ table[n] >= lastTable[n]
     /\ pc' = [pc EXCEPT ![n] = "select"]
     /\ UNCHANGED table

\* Mutant: the slot of a claim that found nothing is kept.
ClaimsNothingKeepsSlot(n) ==
  /\ pc[n] = "claim"
  /\ \/ FirstDue(table[n]) = {} /\ UNCHANGED faults
     \/ CountFault("dbError")
  /\ NextTable(n)
  /\ UNCHANGED <<row, wakeup, lastTable, held, exec, cancelled, lateClaims, ops>>

\* No job is due, or the statement failed: release the slot, next table.
ClaimsNothing(n) ==
  /\ pc[n] = "claim"
  /\ \/ FirstDue(table[n]) = {} /\ UNCHANGED faults
     \/ CountFault("dbError")
  /\ held' = [held EXCEPT ![n] = @ - 1]
  /\ NextTable(n)
  /\ UNCHANGED <<row, wakeup, lastTable, exec, cancelled, lateClaims, ops>>

\* Stop cancels the context, then waits in wg.Wait for the loop and the
\* goroutines; the process ends when the wait is over.
Stop(n) ==
  /\ CountOp("stop")
  /\ pc[n] # "down"
  /\ ~cancelled[n]
  /\ cancelled' = [cancelled EXCEPT ![n] = TRUE]
  /\ UNCHANGED <<row, wakeup, pc, table, lastTable, held, exec, lateClaims, faults>>

\* The loop's part of a process that ended, as NewEngine makes it anew.
ForgetLoop(n) ==
  /\ pc' = [pc EXCEPT ![n] = "down"]
  /\ wakeup' = [wakeup EXCEPT ![n] = 0]
  /\ table' = [table EXCEPT ![n] = 1]
  /\ lastTable' = [lastTable EXCEPT ![n] = 1]
  /\ cancelled' = [cancelled EXCEPT ![n] = FALSE]
  /\ lateClaims' = [lateClaims EXCEPT ![n] = 0]

Stopped(n) ==
  /\ pc[n] = "exited"
  /\ IdleGoroutines(n) = Goroutines
  /\ ForgetLoop(n)
  /\ UNCHANGED <<row, held, exec, ops, faults>>

\* The process dies: its memory is gone, the rows stay as they are.
Crash(n) ==
  /\ CountFault("crash")
  /\ pc[n] # "down"
  /\ ForgetLoop(n)
  /\ held' = [held EXCEPT ![n] = 0]
  /\ exec' = [exec EXCEPT ![n] = [g \in Goroutines |-> Idle]]
  /\ UNCHANGED <<row, ops>>

-----------------------------------------------------------------------------
(* executeJob *)

\* The handler returns; an error, a panic and a missing handler all fail.
HandlerReturns(n, g) ==
  /\ exec[n][g].phase = "running"
  /\ \E outcome \in {"succeeded", "failed"} :
       exec' = [exec EXCEPT ![n][g].phase = outcome]
  /\ UNCHANGED <<row, wakeup, pc, table, lastTable, held, cancelled, lateClaims,
                 ops, faults>>

\* The deferred release of the slot and the wait group.
EndExecution(n, g) ==
  /\ exec' = [exec EXCEPT ![n][g] = Idle]
  /\ held' = [held EXCEPT ![n] = @ - 1]
  /\ UNCHANGED <<wakeup, pc, table, lastTable, cancelled, lateClaims, ops>>

\* The row is written by id alone, whatever its state has become; a failed
\* statement is only logged.
HandleSuccess(n, g) ==
  /\ exec[n][g].phase = "succeeded"
  /\ LET j == exec[n][g].job
     IN \/ UpdateRow(j, [row[j] EXCEPT !.state = "completed"]) /\ UNCHANGED faults
        \/ CountFault("dbError") /\ UNCHANGED row
  /\ EndExecution(n, g)

\* Mutant: a failure that is not appended to the error log.
RescheduledUnlogged(r, e, delay) == [r EXCEPT !.state = "available", !.scheduled = delay]

\* Mutant: the state is left as it is.
RescheduledInPlace(r, e, delay) == [r EXCEPT !.errors = e.errors + 1, !.scheduled = delay]

\* Mutant: the backoff is forgotten.
RescheduledAtOnce(r, e, delay) ==
  [r EXCEPT !.state = "available", !.errors = e.errors + 1, !.scheduled = 0]

\* The row after a failure: errors, attempt and max come from the snapshot.
Discarded(r, e) == [r EXCEPT !.state = "discarded", !.errors = e.errors + 1]
Rescheduled(r, e, delay) ==
  [r EXCEPT !.state = "available", !.errors = e.errors + 1, !.scheduled = delay]

\* Mutant: one attempt too many.
NoAttemptBeyond(e) == e.attempt > e.max

NoAttemptLeft(e) == e.attempt >= e.max

HandleFailure(n, g) ==
  /\ exec[n][g].phase = "failed"
  /\ LET e == exec[n][g]
         j == exec[n][g].job
     IN \/ /\ \/ /\ NoAttemptLeft(e)
                 /\ UpdateRow(j, Discarded(row[j], e))
              \/ /\ ~NoAttemptLeft(e)
                 /\ \E delay \in Backoff(e.attempt) :
                      UpdateRow(j, Rescheduled(row[j], e, delay))
           /\ UNCHANGED faults
        \/ CountFault("dbError") /\ UNCHANGED row
  /\ EndExecution(n, g)

-----------------------------------------------------------------------------
(* Writers of the job rows *)

rowWriterUnchanged == <<pc, table, lastTable, held, exec, cancelled, lateClaims>>

Processes == Nodes \cup {Outside}

\* Enqueue: insert, read back, Trigger.  When the read back fails the row is
\* there, the caller gets an error and nobody is woken.  A caller may choose
\* the id, so an id may come back after its row was deleted.
Enqueue(j, p) ==
  /\ row[j].state = "none" \/ (row[j].state = "deleted" /\ May("reuseId"))
  /\ \E max \in MaxAttemptsChoices, prio \in Priorities, delay \in InitialDelays :
       row' = [row EXCEPT ![j] =
                 [state |-> "available", attempt |-> 0, max |-> max,
                  priority |-> prio, scheduled |-> delay, errors |-> 0]]
  /\ \/ Trigger(p) /\ UNCHANGED faults
     \/ CountFault("dbError") /\ UNCHANGED wakeup
  /\ UNCHANGED <<rowWriterUnchanged, ops>>

\* A retry of the jobs in S; the loop is woken when a row was written.
RetryRows(S, p) ==
  /\ row' = [j \in Jobs |-> IF j \in S THEN Reset(row[j]) ELSE row[j]]
  /\ IF S = {} THEN UNCHANGED wakeup ELSE Trigger(p)
  /\ UNCHANGED <<rowWriterUnchanged, faults>>

\* Retry with ids: WHERE id IN (...), whatever the state.
RetryIds(t, p) ==
  /\ CountOp("retryIds")
  /\ \E S \in SUBSET InTable(t) : S # {} /\ RetryRows(S, p)

\* Mutant: a retry that takes executing jobs back as well.
RetryFailedAndExecuting(t, p) ==
  /\ CountOp("retryFailed")
  /\ RetryRows({j \in InTable(t) : row[j].state \in {"discarded", "executing"}}, p)

\* Retry without ids: the states the WHERE clause names.  Only the _workers
\* endpoint names "retryable" as well.
RetryFailed(t, p) ==
  /\ CountOp("retryFailed")
  /\ \E states \in {{"discarded", "cancelled"}} \cup
                   IF t = 1 THEN {{"discarded", "cancelled", "retryable"}} ELSE {} :
       RetryRows({j \in InTable(t) : row[j].state \in states}, p)

\* PUT of a job in _workers.  Absent fields keep their value; writing
\* "available" starts the attempts again and wakes the loop.
UpdateJob(j, p) ==
  /\ CountOp("patch")
  /\ j \in InTable(1)
  /\ \E max \in MaxAttemptsChoices \cup {row[j].max},
        prio \in Priorities \cup {row[j].priority} :
       LET patched == [row[j] EXCEPT !.max = max, !.priority = prio]
       IN \/ /\ \E state \in (PatchStates \ {"available"}) \cup {row[j].state},
                   delay \in InitialDelays \cup {row[j].scheduled} :
                  row' = [row EXCEPT ![j] = [patched EXCEPT !.state = state,
                                                            !.scheduled = delay]]
             /\ UNCHANGED wakeup
          \/ /\ "available" \in PatchStates
             /\ \E delay \in InitialDelays \cup {0} :
                  row' = [row EXCEPT ![j] = [Reset(patched) EXCEPT !.scheduled = delay]]
             /\ Trigger(p)
  /\ UNCHANGED <<rowWriterUnchanged, faults>>

\* PATCH of a record in a custom worker table: the same columns and attempt,
\* written as given; nothing is reset and the loop is not woken.
UpdateRecord(j) ==
  /\ CountOp("patch")
  /\ j \in UNION {InTable(t) : t \in 2..Tables}
  /\ \E state \in PatchStates \cup {row[j].state}, attempt \in {0, row[j].attempt},
        max \in MaxAttemptsChoices \cup {row[j].max},
        prio \in Priorities \cup {row[j].priority},
        delay \in InitialDelays \cup {row[j].scheduled} :
       row' = [row EXCEPT ![j] =
                 [@ EXCEPT !.state = state, !.attempt = attempt, !.max = max,
                           !.priority = prio, !.scheduled = delay]]
  /\ UNCHANGED <<rowWriterUnchanged, wakeup, faults>>

\* The MCP tool: state = cancelled by id, whatever the state.
CancelJob(j) ==
  /\ CountOp("cancel")
  /\ row[j].state \in Present
  /\ row' = [row EXCEPT ![j].state = "cancelled"]
  /\ UNCHANGED <<rowWriterUnchanged, wakeup, faults>>

DeleteRows(S) == row' = [j \in Jobs |-> IF j \in S THEN [row[j] EXCEPT !.state = "deleted"]
                                        ELSE row[j]]

DeleteJob(j) ==
  /\ CountOp("delete")
  /\ row[j].state \in Present
  /\ DeleteRows({j})
  /\ UNCHANGED <<rowWriterUnchanged, wakeup, faults>>

\* The hourly task of a running node: completed rows past their retention (any
\* set of them) and every discarded row, table after table; a failed statement
\* ends the task before the later tables.
CleanupCompletedJobs(n) ==
  /\ CountOp("cleanup")
  /\ pc[n] # "down" /\ ~cancelled[n]
  /\ \E t \in 1..Tables :
       LET visited == UNION {InTable(u) : u \in 1..t}
       IN /\ \/ t = Tables /\ UNCHANGED faults
             \/ t < Tables /\ CountFault("dbError")
          /\ \E old \in SUBSET {j \in visited : row[j].state = "completed"} :
               DeleteRows(old \cup {j \in visited : row[j].state = "discarded"})
  /\ UNCHANGED <<rowWriterUnchanged, wakeup>>

-----------------------------------------------------------------------------
(* Time and the whole system *)

Older(s) == IF s > -MaxAge THEN s - 1 ELSE s

Tick ==
  /\ \E j \in Jobs : row[j].state \in Present /\ row[j].scheduled > -MaxAge
  /\ row' = [j \in Jobs |-> [row[j] EXCEPT !.scheduled = Older(@)]]
  /\ UNCHANGED <<engineVars, ops, faults>>

LoopStep(n) ==
  \/ TickerFires(n)
  \/ ReceiveWakeup(n)
  \/ GiveUpPoll(n)
  \/ AcquireSlot(n)
  \/ ClaimNextJob(n)
  \/ ClaimsNothing(n)

Execute(n, g) ==
  \/ HandlerReturns(n, g)
  \/ HandleSuccess(n, g)
  \/ HandleFailure(n, g)

NodeStep(n) ==
  \/ Start(n)
  \/ LoopStep(n)
  \/ LoopReturns(n)
  \/ Stop(n)
  \/ Stopped(n)
  \/ Crash(n)
  \/ CleanupCompletedJobs(n)
  \/ \E g \in Goroutines : Execute(n, g)

WriterStep(p) ==
  \/ \E j \in Jobs : Enqueue(j, p) \/ UpdateJob(j, p)
  \/ \E t \in 1..Tables : RetryIds(t, p) \/ RetryFailed(t, p)

RowStep(j) == UpdateRecord(j) \/ CancelJob(j) \/ DeleteJob(j)

Next ==
  \/ \E n \in Nodes : NodeStep(n)
  \/ \E p \in Processes : WriterStep(p)
  \/ \E j \in Jobs : RowStep(j)
  \/ Tick

Spec == Init /\ [][Next]_vars

\* The loop and the goroutines keep running and handlers return; time passes.
\* A select whose cases stay ready picks each in the end (Go chooses among them
\* at random), hence strong fairness for the return of a cancelled loop.
Fairness ==
  /\ \A n \in Nodes : /\ WF_vars(Start(n))
                      /\ WF_vars(LoopStep(n))
                      /\ SF_vars(LoopReturns(n))
                      /\ WF_vars(Stopped(n))
                      /\ \A g \in Goroutines : WF_vars(Execute(n, g))
  /\ WF_vars(Tick)

FairSpec == Spec /\ Fairness

-----------------------------------------------------------------------------
(* Properties *)

Running(n) == {g \in Goroutines : exec[n][g].phase # "idle"}

\* The semaphore counts exactly the goroutines that run plus the slot the loop
\* took for the claim it is making, so never more run than it has tokens: every
\* path out of pollAndRunJobs and executeJob gives its token back once.
SlotsMatchGoroutines ==
  \A n \in Nodes :
    /\ held[n] = Cardinality(Running(n)) + (IF pc[n] = "claim" THEN 1 ELSE 0)
    /\ held[n] <= MaxConcurrency

\* No job is executed twice at the same time, by one engine or by two (the
\* README's "no job is claimed twice").
OneRunPerJob ==
  \A n1, n2 \in Nodes : \A g1 \in Running(n1), g2 \in Running(n2) :
    exec[n1][g1].job = exec[n2][g2].job => n1 = n2 /\ g1 = g2

\* The snapshot a goroutine will write back from is still the row: between the
\* claim and the final UPDATE nobody else moved the attempt, the limit or the
\* error log of the job, and it is still executing unless it was deleted.
SnapshotIsRow ==
  \A n \in Nodes : \A g \in Running(n) :
    LET e == exec[n][g]
        r == row[exec[n][g].job]
    IN r.state # "deleted" =>
         /\ r.state = "executing"
         /\ r.attempt = e.attempt /\ r.max = e.max /\ r.errors = e.errors

Larger(a, b) == IF a >= b THEN a ELSE b

\* A job is never attempted more often than max_attempts allows (once when the
\* caller passed zero or less), whatever fails in between; a job that waits has
\* an attempt left (handleFailure).
AttemptsBounded ==
  \A j \in Jobs : row[j].state \in Present =>
    /\ row[j].attempt <= Larger(1, row[j].max)
    /\ row[j].state = "available" => row[j].attempt < Larger(1, row[j].max)

\* No failure is lost from the error log, which each execution rewrites from its
\* snapshot: a job that waits or was discarded has an entry for every attempt
\* since its last retry, an executing or completed one for all but the last.
ErrorLogComplete ==
  \A j \in Jobs :
    /\ row[j].state \in {"available", "discarded"} => row[j].errors >= row[j].attempt
    /\ row[j].state \in {"executing", "completed"} => row[j].errors >= row[j].attempt - 1

\* After its context is cancelled an engine claims at most the one job whose
\* claim was already under way ("worker fetching halts immediately").
FetchingHalts == \A n \in Nodes : lateClaims[n] <= 1

\* Every stop ends: the loop leaves and the running jobs are waited for.
StopEnds == \A n \in Nodes : cancelled[n] ~> pc[n] = "down"

\* "executing: Currently being processed by a worker goroutine", as long as no
\* process dies and no statement fails: every other way out of an execution
\* writes the row, and only rows an execution holds are executing.
OrphansNeedAFault ==
  faults = 0 => \A j \in Jobs : row[j].state = "executing" =>
    \E n \in Nodes : \E g \in Running(n) : exec[n][g].job = j

-----------------------------------------------------------------------------
(* The documented life of a job *)

\* A job that failed and waits for its backoff is "available" in the table, and
\* told from one that can be claimed by its scheduled_at alone.
Stage(r) == IF r.state = "available" /\ r.attempt > 0 /\ r.scheduled > 0
            THEN "retryable" ELSE r.state

Lifecycle == INSTANCE JobLifecycle WITH
               state   <- [j \in Jobs |-> Stage(row[j])],
               attempt <- [j \in Jobs |-> row[j].attempt],
               limit   <- [j \in Jobs |-> row[j].max]

\* Whatever the engines, crashes and retries do, the rows go through the life
\* of a job that the documentation draws: completed is final, an attempt is only
\* granted within the limit, a job that failed is not attempted before its backoff
\* has elapsed, a retry starts from nothing.
RefinesLifecycle == Lifecycle!Spec

\* Every enqueued job is completed, discarded or deleted in the end, whatever
\* order the tables are polled in and however few slots there are.
EveryJobFinishes == Lifecycle!EveryJobFinishes

=============================================================================
