------------------------------- MODULE WorkersPage -------------------------------
(***************************************************************************)
(* The page of the worker queue (ui routes/_auth/workers): the jobs of one *)
(* table at a time, polled, and the inspector, which keeps the job as it   *)
(* was listed.  A retry or a discard goes to the table that is selected    *)
(* when its button is pressed.                                             *)
(***************************************************************************)
EXTENDS Integers, FiniteSets

CONSTANTS
  BuiltIn,        \* "_workers"
  WorkerMouls,    \* the other tables of jobs
  QueueJobs,      \* ids of jobs
  TableOfJob,     \* the table each job is in
  QueueBudgets    \* bounds on the steps of each sort, one of which is chosen

ASSUME QueueAssumption ==
  /\ BuiltIn \notin WorkerMouls
  /\ TableOfJob \in [QueueJobs -> WorkerMouls \cup {BuiltIn}]
  /\ QueueBudgets \subseteq
       [{"selects", "looks", "polls", "presses", "engine", "drops", "faults"} -> Nat]

VARIABLES
  jobState,           \* the state of each job on the server, or "gone"
  mouls,              \* the worker tables that exist, as the page knows them
  jobsData,           \* the cached answer for each table
  jobsAsked,          \* the query of each table, while it is under way
  selectedCollection,
  statusFilter,
  inspector,          \* isInspectorOpen, selectedJob
  orders,             \* retries and discards in flight
  queueBudget         \* what is left of the bounds

queueVars == <<jobState, mouls, jobsData, jobsAsked, selectedCollection, statusFilter,
               inspector, orders, queueBudget>>

QueueTables == WorkerMouls \cup {BuiltIn}
JobStates == {"available", "executing", "completed", "retryable", "discarded"}
NoRows == [j \in {} |-> "gone"]
NoAnswer == [loaded |-> FALSE, rows |-> NoRows]
Idle == [state |-> "idle", rows |-> NoRows]
Requested == [state |-> "requested", rows |-> NoRows]
ClosedInspector == [open |-> FALSE, job |-> "none", state |-> "gone", from |-> BuiltIn]

Within(what) == queueBudget[what] > 0 /\ queueBudget' = [queueBudget EXCEPT ![what] = @ - 1]

\* Mutant: until a table's jobs are there, those of another stay on the screen.
RowsOfPrevious(table) ==
  IF jobsData[table].loaded \/ \A t \in QueueTables : ~jobsData[t].loaded
  THEN jobsData[table].rows
  ELSE jobsData[CHOOSE t \in QueueTables : jobsData[t].loaded].rows
RowsOf(table) == jobsData[table].rows
JobsShown ==
  {j \in DOMAIN RowsOf(selectedCollection) :
     statusFilter \in {"all", RowsOf(selectedCollection)[j]}}
InTable(t) == {j \in QueueJobs : TableOfJob[j] = t /\ jobState[j] # "gone" /\ t \in mouls}

-----------------------------------------------------------------------------

\* The inspector covers the table.
SelectCollection(t) ==
  /\ ~inspector.open
  /\ t \in mouls \ {selectedCollection}
  /\ Within("selects")
  /\ selectedCollection' = t
  /\ UNCHANGED <<jobState, mouls, jobsData, jobsAsked, statusFilter, inspector, orders>>

SetStatusFilter(filter) ==
  /\ ~inspector.open
  /\ Within("selects")
  /\ statusFilter' = filter
  /\ UNCHANGED <<jobState, mouls, jobsData, jobsAsked, selectedCollection, inspector, orders>>

Inspect(j) ==
  /\ ~inspector.open
  /\ j \in JobsShown
  /\ Within("looks")
  /\ inspector' = [open |-> TRUE, job |-> j, state |-> RowsOf(selectedCollection)[j],
                   from |-> selectedCollection]
  /\ UNCHANGED <<jobState, mouls, jobsData, jobsAsked, selectedCollection, statusFilter,
                 orders>>

CloseInspector ==
  /\ inspector.open
  /\ inspector' = [inspector EXCEPT !.open = FALSE]
  /\ UNCHANGED <<jobState, mouls, jobsData, jobsAsked, selectedCollection, statusFilter,
                 orders, queueBudget>>

\* canRetry and canDiscard of a row, by the state it was listed with, unless the
\* latest retry or discard is of this job and unanswered.
RowOffers(j, to) ==
  /\ ~inspector.open
  /\ j \in JobsShown
  /\ RowsOf(selectedCollection)[j] \in
       (IF to = "available" THEN {"retryable", "discarded", "completed"}
        ELSE {"available", "retryable", "executing"})
  /\ ~\E o \in orders : o.job = j /\ o.to = to /\ o.latest

\* The inspector offers a retry in every state, and waits for nothing.
InspectorOffers(j, to) ==
  /\ inspector.open
  /\ inspector.job = j
  /\ to = "discarded" => inspector.state # "discarded"

\* history: from is where the job was listed, dropped says that this table had
\* been found gone while the job was inspected.
Order(j, to, from) ==
  [job |-> j, to |-> to, table |-> selectedCollection, from |-> from,
   dropped |-> from \notin mouls, answer |-> "none", latest |-> TRUE]

ChangeJob(j, to) ==
  /\ RowOffers(j, to) \/ InspectorOffers(j, to)
  /\ Within("presses")
  /\ orders' = {[o EXCEPT !.latest = @ /\ o.to # to] : o \in orders} \cup
                 {Order(j, to, IF inspector.open THEN inspector.from ELSE TableOfJob[j])}
  /\ UNCHANGED <<jobState, mouls, jobsData, jobsAsked, selectedCollection, statusFilter,
                 inspector>>

\* A record is looked for in the table that was named.
CarryOrder(o) ==
  /\ o.answer = "none"
  /\ IF o.job \in InTable(o.table)
     THEN /\ jobState' = [jobState EXCEPT ![o.job] = o.to]
          /\ orders' = (orders \ {o}) \cup {[o EXCEPT !.answer = "ok"]}
     ELSE /\ orders' = (orders \ {o}) \cup {[o EXCEPT !.answer = "failed"]}
          /\ UNCHANGED jobState
  /\ UNCHANGED <<mouls, jobsData, jobsAsked, selectedCollection, statusFilter, inspector,
                 queueBudget>>

LoseOrder(o) ==
  /\ o.answer # "failed"
  /\ Within("faults")
  /\ orders' = (orders \ {o}) \cup {[o EXCEPT !.answer = "failed"]}
  /\ UNCHANGED <<jobState, mouls, jobsData, jobsAsked, selectedCollection, statusFilter,
                 inspector>>

\* Every table's answer is old now; that on the screen is asked for again.
OrderDone(o) ==
  /\ o.answer = "ok"
  /\ orders' = orders \ {o}
  /\ jobsAsked' = [jobsAsked EXCEPT ![selectedCollection] = Requested]
  /\ inspector' = IF inspector.job = o.job THEN [inspector EXCEPT !.state = o.to] ELSE inspector
  /\ UNCHANGED <<jobState, mouls, jobsData, selectedCollection, statusFilter, queueBudget>>

OrderFailed(o) ==
  /\ o.answer = "failed"
  /\ orders' = orders \ {o}
  /\ UNCHANGED <<jobState, mouls, jobsData, jobsAsked, selectedCollection, statusFilter,
                 inspector, queueBudget>>

-----------------------------------------------------------------------------

\* refetchInterval, the button "Refresh", and a table selected for the first time.
PollJobs ==
  /\ jobsAsked[selectedCollection] = Idle
  /\ IF jobsData[selectedCollection].loaded THEN Within("polls") ELSE UNCHANGED queueBudget
  /\ jobsAsked' = [jobsAsked EXCEPT ![selectedCollection] = Requested]
  /\ UNCHANGED <<jobState, mouls, jobsData, selectedCollection, statusFilter, inspector,
                 orders>>

ListJobs(t) ==
  /\ jobsAsked[t] = Requested
  /\ jobsAsked' = [jobsAsked EXCEPT ![t] =
       [state |-> "answered", rows |-> [j \in InTable(t) |-> jobState[j]]]]
  /\ UNCHANGED <<jobState, mouls, jobsData, selectedCollection, statusFilter, inspector,
                 orders, queueBudget>>

JobsListed(t) ==
  /\ jobsAsked[t].state = "answered"
  /\ jobsData' = [jobsData EXCEPT ![t] = [loaded |-> TRUE, rows |-> jobsAsked[t].rows]]
  /\ jobsAsked' = [jobsAsked EXCEPT ![t] = Idle]
  /\ UNCHANGED <<jobState, mouls, selectedCollection, statusFilter, inspector, orders,
                 queueBudget>>

EngineMovesJob(j) ==
  /\ jobState[j] \in {"available", "executing"}
  /\ Within("engine")
  /\ \E to \in (IF jobState[j] = "available" THEN {"executing"}
               ELSE {"completed", "available", "discarded"}) :
       jobState' = [jobState EXCEPT ![j] = to]
  /\ UNCHANGED <<mouls, jobsData, jobsAsked, selectedCollection, statusFilter, inspector,
                 orders>>

\* Someone deletes the table, the list of collections is read again, and the
\* effect falls back to the built-in table, also under the inspector.
TableDropped(t) ==
  /\ t \in mouls \ {BuiltIn}
  /\ Within("drops")
  /\ mouls' = mouls \ {t}
  /\ jobState' = [j \in QueueJobs |-> IF TableOfJob[j] = t THEN "gone" ELSE jobState[j]]
  /\ selectedCollection' = IF selectedCollection = t THEN BuiltIn ELSE selectedCollection
  /\ UNCHANGED <<jobsData, jobsAsked, statusFilter, inspector, orders>>

-----------------------------------------------------------------------------

QueueInit ==
  /\ jobState = [j \in QueueJobs |-> "available"]
  /\ mouls = QueueTables
  /\ jobsData = [t \in QueueTables |-> NoAnswer]
  /\ jobsAsked = [t \in QueueTables |-> Idle]
  /\ selectedCollection = BuiltIn
  /\ statusFilter = "all"
  /\ inspector = ClosedInspector
  /\ orders = {}
  /\ queueBudget \in QueueBudgets

QueueNext ==
  \/ \E t \in QueueTables : SelectCollection(t) \/ ListJobs(t) \/ JobsListed(t) \/ TableDropped(t)
  \/ \E filter \in {"all"} \cup JobStates : SetStatusFilter(filter)
  \/ \E j \in QueueJobs : Inspect(j) \/ EngineMovesJob(j)
  \/ \E j \in QueueJobs, to \in {"available", "discarded"} : ChangeJob(j, to)
  \/ \E o \in orders : CarryOrder(o) \/ LoseOrder(o) \/ OrderDone(o) \/ OrderFailed(o)
  \/ CloseInspector \/ PollJobs

QueueSpec == QueueInit /\ [][QueueNext]_queueVars

-----------------------------------------------------------------------------
(* Properties.                                                                *)

\* A retry or a discard goes to the table its job is in, whichever tables were
\* selected, polled or answered late before; only when that table was found
\* deleted under the inspector it goes to the built-in one.
OrdersGoHome ==
  \A o \in orders : o.table = TableOfJob[o.job] \/ (o.dropped /\ o.table = BuiltIn)

=============================================================================
