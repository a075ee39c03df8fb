---------------------------- MODULE DashboardProofs ----------------------------
(***************************************************************************)
(* Proofs about the pages of the dashboard, each for any sets of what it   *)
(* shows and any bounds, and about the dashboard that mounts them.         *)
(***************************************************************************)
EXTENDS Dashboard, FiniteSetTheorems, SequenceTheorems, TLAPS

-----------------------------------------------------------------------------
(***************************************************************************)
(* Proof that retries and discards of the page of the worker queue go to   *)
(* the table of their job, for any tables, jobs and bounds.                *)
(*                                                                         *)
(* An order names the table selected when its button is pressed, not one   *)
(* that came with the job, so the proof follows how the three stay         *)
(* together: every answer holds jobs of its own table only (RowsBelong),   *)
(* the row or the inspector shows a job of the table selected, and this    *)
(* table only moves under the inspector when it was dropped (InspectorInv).*)
(***************************************************************************)

JobsOf(t) == {j \in QueueJobs : TableOfJob[j] = t}

\* The queries and the answers are those of the tables, and hold their jobs.
RowsBelong ==
  /\ jobsData = [t \in QueueTables |-> jobsData[t]]
  /\ jobsAsked = [t \in QueueTables |-> jobsAsked[t]]
  /\ \A t \in QueueTables : /\ DOMAIN jobsData[t].rows \subseteq JobsOf(t)
                            /\ DOMAIN jobsAsked[t].rows \subseteq JobsOf(t)

\* The table selected exists, and the built-in one always does.
TablesInv ==
  /\ mouls \subseteq QueueTables
  /\ BuiltIn \in mouls
  /\ selectedCollection \in mouls

InspectorShape(i) == i = [open |-> i.open, job |-> i.job, state |-> i.state, from |-> i.from]

\* The inspector shows a job of the table selected, unless that table has gone.
InspectorInv ==
  /\ InspectorShape(inspector)
  /\ inspector.open =>
       /\ inspector.job \in QueueJobs
       /\ inspector.from = TableOfJob[inspector.job]
       /\ selectedCollection = inspector.from
            \/ (inspector.from \notin mouls /\ selectedCollection = BuiltIn)

OrderShape(o) ==
  o = [job |-> o.job, to |-> o.to, table |-> o.table, from |-> o.from,
       dropped |-> o.dropped, answer |-> o.answer, latest |-> o.latest]

GoesHome(o) == o.table = TableOfJob[o.job] \/ (o.dropped /\ o.table = BuiltIn)

OrdersInv == \A o \in orders : OrderShape(o) /\ GoesHome(o)

QueueInv == RowsBelong /\ TablesInv /\ InspectorInv /\ OrdersInv

-----------------------------------------------------------------------------
(* What orders and rows keep *)

LEMMA AnswerKeepsHome ==
  ASSUME NEW o, OrderShape(o), GoesHome(o), NEW a
  PROVE  OrderShape([o EXCEPT !.answer = a]) /\ GoesHome([o EXCEPT !.answer = a])
  BY DEF OrderShape, GoesHome

LEMMA LaterKeepsHome ==
  ASSUME NEW o, OrderShape(o), GoesHome(o), NEW l
  PROVE  OrderShape([o EXCEPT !.latest = l]) /\ GoesHome([o EXCEPT !.latest = l])
  BY DEF OrderShape, GoesHome

\* A row on the screen is one of the table selected.
LEMMA ShownIsSelected ==
  ASSUME RowsBelong, TablesInv, NEW j \in JobsShown
  PROVE  j \in QueueJobs /\ TableOfJob[j] = selectedCollection
  BY DEF RowsBelong, TablesInv, JobsShown, RowsOf, JobsOf

LEMMA QueueInvInit == QueueInit => QueueInv
<1> SUFFICES ASSUME QueueInit PROVE QueueInv
  OBVIOUS
<1>1. RowsBelong
  <2>1. \A t \in QueueTables : jobsData[t] = NoAnswer /\ jobsAsked[t] = Idle
    BY DEF QueueInit
  <2>2. DOMAIN NoAnswer.rows = {} /\ DOMAIN Idle.rows = {}
    BY DEF NoAnswer, Idle, NoRows
  <2> QED BY <2>1, <2>2 DEF QueueInit, RowsBelong
<1>2. TablesInv
  BY DEF QueueInit, TablesInv, QueueTables
<1>3. InspectorInv
  BY DEF QueueInit, InspectorInv, InspectorShape, ClosedInspector
<1>4. OrdersInv
  BY DEF QueueInit, OrdersInv
<1> QED BY <1>1, <1>2, <1>3, <1>4 DEF QueueInv

-----------------------------------------------------------------------------
(* Steps *)

\* The pressed button belongs to a row, or to the inspector.
LEMMA ChangeJobKeeps ==
  ASSUME QueueInv, NEW j \in QueueJobs, NEW to \in {"available", "discarded"}, ChangeJob(j, to)
  PROVE  OrdersInv'
<1> DEFINE from == IF inspector.open THEN inspector.from ELSE TableOfJob[j]
<1>1. GoesHome(Order(j, to, from)) /\ OrderShape(Order(j, to, from))
  <2>1. OrderShape(Order(j, to, from))
    BY DEF Order, OrderShape
  <2>2. CASE RowOffers(j, to)
    <3>1. j \in JobsShown
      BY <2>2 DEF RowOffers
    <3>2. TableOfJob[j] = selectedCollection
      BY <3>1, ShownIsSelected DEF QueueInv
    <3> QED BY <2>1, <3>2 DEF GoesHome, Order
  <2>3. CASE InspectorOffers(j, to)
    <3>1. inspector.open /\ inspector.job = j
      BY <2>3 DEF InspectorOffers
    <3>2. CASE selectedCollection = TableOfJob[j]
      BY <2>1, <3>2 DEF GoesHome, Order
    <3>3. CASE TableOfJob[j] \notin mouls /\ selectedCollection = BuiltIn
      <4>1. from = TableOfJob[j]
        BY <3>1 DEF QueueInv, InspectorInv
      <4> QED BY <2>1, <3>3, <4>1 DEF GoesHome, Order
    <3> QED BY <3>1, <3>2, <3>3 DEF QueueInv, InspectorInv
  <2> QED BY <2>1, <2>2, <2>3 DEF ChangeJob
<1>2. ASSUME NEW o \in orders'
      PROVE  OrderShape(o) /\ GoesHome(o)
  <2>1. CASE o = Order(j, to, from)
    BY <1>1, <2>1
  <2>2. CASE \E x \in orders : o = [x EXCEPT !.latest = @ /\ x.to # to]
    <3>1. PICK x \in orders : o = [x EXCEPT !.latest = x.latest /\ x.to # to]
      BY <2>2
    <3>2. OrderShape(x) /\ GoesHome(x)
      BY DEF QueueInv, OrdersInv
    <3> QED BY <3>1, <3>2, LaterKeepsHome
  <2> QED BY <1>2, <2>1, <2>2 DEF ChangeJob
<1> QED BY <1>2 DEF OrdersInv, OrderShape, GoesHome

\* The answer of an order is set, or taken.
LEMMA AnswersKeep ==
  ASSUME QueueInv, NEW o \in orders,
         CarryOrder(o) \/ LoseOrder(o) \/ OrderDone(o) \/ OrderFailed(o)
  PROVE  OrdersInv'
<1>1. \/ orders' = orders \ {o}
      \/ \E a \in {"ok", "failed"} : orders' = (orders \ {o}) \cup {[o EXCEPT !.answer = a]}
  BY DEF CarryOrder, LoseOrder, OrderDone, OrderFailed
<1>2. CASE orders' = orders \ {o}
  BY <1>2 DEF QueueInv, OrdersInv, OrderShape, GoesHome
<1>3. CASE \E a \in {"ok", "failed"} : orders' = (orders \ {o}) \cup {[o EXCEPT !.answer = a]}
  <2>1. PICK a \in {"ok", "failed"} : orders' = (orders \ {o}) \cup {[o EXCEPT !.answer = a]}
    BY <1>3
  <2>2. OrderShape(o) /\ GoesHome(o)
    BY DEF QueueInv, OrdersInv
  <2>3. \A x \in orders' : OrderShape(x) /\ GoesHome(x)
    BY <2>1, <2>2, AnswerKeepsHome DEF QueueInv, OrdersInv
  <2> QED BY <2>3 DEF OrdersInv, OrderShape, GoesHome
<1> QED BY <1>1, <1>2, <1>3

\* Only a look opens the inspector, at a row of the table selected.
LEMMA InspectKeeps ==
  ASSUME QueueInv, NEW j \in QueueJobs, Inspect(j)
  PROVE  InspectorInv'
<1>1. j \in JobsShown
  BY DEF Inspect
<1>2. TableOfJob[j] = selectedCollection
  BY <1>1, ShownIsSelected DEF QueueInv
<1>3. /\ InspectorShape(inspector')
      /\ inspector'.job = j
      /\ inspector'.from = selectedCollection
      /\ selectedCollection' = selectedCollection
  BY DEF Inspect, InspectorShape
<1> QED BY <1>2, <1>3 DEF InspectorInv, InspectorShape

\* Queries and answers: whatever is asked for or answered for a table, its rows
\* are jobs of this table.
LEMMA AskedKeeps ==
  ASSUME RowsBelong, NEW t \in QueueTables, NEW a, DOMAIN a.rows \subseteq JobsOf(t),
         jobsAsked' = [jobsAsked EXCEPT ![t] = a], UNCHANGED jobsData
  PROVE  RowsBelong'
  BY DEF RowsBelong, JobsOf

LEMMA ListedKeeps ==
  ASSUME RowsBelong, NEW t \in QueueTables, JobsListed(t)
  PROVE  RowsBelong'
<1>1. DOMAIN Idle.rows = {}
  BY DEF Idle, NoRows
<1>2. jobsData'[t].rows = jobsAsked[t].rows /\ jobsAsked'[t] = Idle
  BY DEF JobsListed, RowsBelong
<1>3. \A u \in QueueTables \ {t} : jobsData'[u] = jobsData[u] /\ jobsAsked'[u] = jobsAsked[u]
  BY DEF JobsListed, RowsBelong
<1>4. \A u \in QueueTables : /\ DOMAIN jobsData'[u].rows \subseteq JobsOf(u)
                             /\ DOMAIN jobsAsked'[u].rows \subseteq JobsOf(u)
  BY <1>1, <1>2, <1>3 DEF RowsBelong
<1>5. /\ jobsData' = [u \in QueueTables |-> jobsData'[u]]
      /\ jobsAsked' = [u \in QueueTables |-> jobsAsked'[u]]
  BY DEF JobsListed, RowsBelong
<1> QED BY <1>4, <1>5 DEF RowsBelong, JobsOf

-----------------------------------------------------------------------------
(* The invariant, conjunct by conjunct *)

LEMMA RowsNext ==
  ASSUME QueueInv, [QueueNext]_queueVars
  PROVE  RowsBelong'
<1> USE DEF QueueInv
<1>0. ASSUME UNCHANGED <<jobsData, jobsAsked>> PROVE RowsBelong'
  BY <1>0 DEF RowsBelong, JobsOf
<1>1. ASSUME NEW t \in QueueTables, ListJobs(t) PROVE RowsBelong'
  <2> DEFINE a == [state |-> "answered", rows |-> [j \in InTable(t) |-> jobState[j]]]
  <2>1. DOMAIN a.rows \subseteq JobsOf(t)
    BY DEF InTable, JobsOf
  <2>2. jobsAsked' = [jobsAsked EXCEPT ![t] = a] /\ UNCHANGED jobsData
    BY <1>1 DEF ListJobs
  <2> HIDE DEF a
  <2> QED BY <2>1, <2>2, AskedKeeps
<1>2. ASSUME NEW t \in QueueTables, JobsListed(t) PROVE RowsBelong'
  BY <1>2, ListedKeeps
<1>3. ASSUME jobsAsked' = [jobsAsked EXCEPT ![selectedCollection] = Requested],
             UNCHANGED jobsData
      PROVE  RowsBelong'
  <2>1. DOMAIN Requested.rows = {}
    BY DEF Requested, NoRows
  <2>2. selectedCollection \in QueueTables
    BY DEF TablesInv
  <2> QED BY <1>3, <2>1, <2>2, AskedKeeps
<1>4. CASE PollJobs
  BY <1>3, <1>4 DEF PollJobs
<1>5. ASSUME NEW o \in orders, OrderDone(o) PROVE RowsBelong'
  BY <1>3, <1>5 DEF OrderDone
<1>6. CASE UNCHANGED queueVars
  BY <1>0, <1>6 DEF queueVars
<1>7. ASSUME NEW t \in QueueTables, SelectCollection(t) \/ TableDropped(t) PROVE RowsBelong'
  BY <1>0, <1>7 DEF SelectCollection, TableDropped
<1>8. ASSUME NEW j \in QueueJobs, NEW to, Inspect(j) \/ EngineMovesJob(j) \/ ChangeJob(j, to)
      PROVE  RowsBelong'
  BY <1>0, <1>8 DEF Inspect, EngineMovesJob, ChangeJob
<1>9. ASSUME NEW o \in orders, CarryOrder(o) \/ LoseOrder(o) \/ OrderFailed(o)
      PROVE  RowsBelong'
  BY <1>0, <1>9 DEF CarryOrder, LoseOrder, OrderFailed
<1>10. ASSUME NEW filter, SetStatusFilter(filter) \/ CloseInspector PROVE RowsBelong'
  BY <1>0, <1>10 DEF SetStatusFilter, CloseInspector
<1> QED BY <1>1, <1>2, <1>4, <1>5, <1>6, <1>7, <1>8, <1>9, <1>10 DEF QueueNext

LEMMA TablesNext ==
  ASSUME QueueInv, [QueueNext]_queueVars
  PROVE  TablesInv'
<1> USE DEF QueueInv, TablesInv
<1>1. ASSUME NEW t \in QueueTables, SelectCollection(t) PROVE TablesInv'
  BY <1>1 DEF SelectCollection
<1>2. ASSUME NEW t \in QueueTables, TableDropped(t) PROVE TablesInv'
  BY <1>2 DEF TableDropped
<1>3. CASE UNCHANGED <<mouls, selectedCollection>>
  BY <1>3
<1>4. \/ \E t \in QueueTables : SelectCollection(t) \/ TableDropped(t)
      \/ UNCHANGED <<mouls, selectedCollection>>
  BY DEF QueueNext, queueVars, ListJobs, JobsListed, SetStatusFilter, Inspect, EngineMovesJob,
         ChangeJob, CarryOrder, LoseOrder, OrderDone, OrderFailed, CloseInspector, PollJobs
<1> QED BY <1>1, <1>2, <1>3, <1>4

LEMMA InspectorNext ==
  ASSUME QueueInv, [QueueNext]_queueVars
  PROVE  InspectorInv'
<1> USE DEF QueueInv
<1>1. ASSUME NEW j \in QueueJobs, Inspect(j) PROVE InspectorInv'
  BY <1>1, InspectKeeps
<1>2. ASSUME NEW t \in QueueTables, SelectCollection(t) PROVE InspectorInv'
  BY <1>2 DEF SelectCollection, InspectorInv, InspectorShape
<1>3. ASSUME NEW t \in QueueTables, TableDropped(t) PROVE InspectorInv'
  <2>1. UNCHANGED inspector /\ mouls' = mouls \ {t}
    BY <1>3 DEF TableDropped
  <2>2. selectedCollection' = IF selectedCollection = t THEN BuiltIn ELSE selectedCollection
    BY <1>3 DEF TableDropped
  <2> QED BY <2>1, <2>2 DEF InspectorInv, InspectorShape
<1>4. ASSUME NEW o \in orders, OrderDone(o) PROVE InspectorInv'
  <2>1. UNCHANGED <<mouls, selectedCollection>>
    BY <1>4 DEF OrderDone
  <2>2. \/ inspector' = inspector
        \/ inspector' = [inspector EXCEPT !.state = o.to]
    BY <1>4 DEF OrderDone
  <2> QED BY <2>1, <2>2 DEF InspectorInv, InspectorShape
<1>5. CASE CloseInspector
  BY <1>5 DEF CloseInspector, InspectorInv, InspectorShape
<1>6. CASE UNCHANGED <<inspector, mouls, selectedCollection>>
  BY <1>6 DEF InspectorInv, InspectorShape
<1>7. \/ \E j \in QueueJobs : Inspect(j)
      \/ \E t \in QueueTables : SelectCollection(t) \/ TableDropped(t)
      \/ \E o \in orders : OrderDone(o)
      \/ CloseInspector
      \/ UNCHANGED <<inspector, mouls, selectedCollection>>
  BY DEF QueueNext, queueVars, ListJobs, JobsListed, SetStatusFilter, EngineMovesJob,
         ChangeJob, CarryOrder, LoseOrder, OrderFailed, PollJobs
<1> QED BY <1>1, <1>2, <1>3, <1>4, <1>5, <1>6, <1>7

LEMMA OrdersNext ==
  ASSUME QueueInv, [QueueNext]_queueVars
  PROVE  OrdersInv'
<1>1. ASSUME NEW j \in QueueJobs, NEW to \in {"available", "discarded"}, ChangeJob(j, to)
      PROVE  OrdersInv'
  BY <1>1, ChangeJobKeeps
<1>2. ASSUME NEW o \in orders,
             CarryOrder(o) \/ LoseOrder(o) \/ OrderDone(o) \/ OrderFailed(o)
      PROVE  OrdersInv'
  BY <1>2, AnswersKeep
<1>3. CASE UNCHANGED orders
  BY <1>3 DEF QueueInv, OrdersInv, OrderShape, GoesHome
<1>4. \/ \E j \in QueueJobs, to \in {"available", "discarded"} : ChangeJob(j, to)
      \/ \E o \in orders : CarryOrder(o) \/ LoseOrder(o) \/ OrderDone(o) \/ OrderFailed(o)
      \/ UNCHANGED orders
  BY DEF QueueNext, queueVars, SelectCollection, ListJobs, JobsListed, TableDropped,
         SetStatusFilter, Inspect, EngineMovesJob, CloseInspector, PollJobs
<1> QED BY <1>1, <1>2, <1>3, <1>4

\* Every retry and every discard goes to the table its job is in, or, when that
\* table was found deleted under the inspector, to the built-in one
\* (routes/_auth/workers.tsx:236).
THEOREM OrdersAlwaysGoHome == QueueSpec => []OrdersGoHome
<1>1. QueueInit => QueueInv
  BY QueueInvInit
<1>2. QueueInv /\ [QueueNext]_queueVars => QueueInv'
  BY RowsNext, TablesNext, InspectorNext, OrdersNext DEF QueueInv
<1>3. QueueInv => OrdersGoHome
  BY DEF QueueInv, OrdersInv, GoesHome, OrdersGoHome
<1> QED BY <1>1, <1>2, <1>3, PTL DEF QueueSpec

-----------------------------------------------------------------------------
(***************************************************************************)
(* Proof that imports and exports are those their dialogs show, for any    *)
(* files, modes, filters and bounds.                                       *)
(*                                                                         *)
(* What an import sends is what the dialog showed when the button was      *)
(* pressed; that the dialog still shows it, and that no second import      *)
(* joins it, follows from what an upload under way disables: the dialog is *)
(* open at the form, with a file and without a result (UploadInv).         *)
(***************************************************************************)

ImporterShape(m) ==
  m = [open |-> m.open, file |-> m.file, mode |-> m.mode, uploading |-> m.uploading,
       result |-> m.result]

ImportShape(i) == i = [answer |-> i.answer, import |-> i.import]

\* While a file is uploaded the dialog is open, at the form.
UploadInv ==
  importer.uploading => /\ importer.open
                        /\ importer.result = NoResult
                        /\ importer.file # NoFile

\* The import in flight is the one that is uploaded.
FlightInv ==
  \A i \in imports :
    /\ importer.uploading
    /\ i.import.file = importer.file /\ i.import.mode = importer.mode
    /\ imports = {i}

ImportInv ==
  /\ ImporterShape(importer)
  /\ \A i \in imports : ImportShape(i)
  /\ escaped \in BOOLEAN
  /\ escaped \/ (UploadInv /\ FlightInv)

-----------------------------------------------------------------------------
(* Imports *)

\* An answer is set on the request it belongs to and leaves what was sent.
LEMMA AnswerKeepsImport ==
  ASSUME NEW i, ImportShape(i), NEW a
  PROVE  /\ ImportShape([i EXCEPT !.answer = a])
         /\ [i EXCEPT !.answer = a].import = i.import
  BY DEF ImportShape

\* What the dialog itself does, as long as it does not touch an upload.
LEMMA DialogKeeps ==
  ASSUME ImportInv, imports' = imports, escaped' = escaped, ImporterShape(importer'),
         importer'.uploading = importer.uploading,
         escaped \/ (importer.uploading =>
           /\ importer'.open = importer.open /\ importer'.result = importer.result
           /\ importer'.file = importer.file /\ importer'.mode = importer.mode)
  PROVE  ImportInv'
<1>1. \A i \in imports : ImportShape(i)
  BY DEF ImportInv
<1>2. escaped' \/ (UploadInv' /\ FlightInv')
  BY DEF ImportInv, UploadInv, FlightInv, NoResult
<1> QED BY <1>1, <1>2 DEF ImportInv, ImporterShape, ImportShape

LEMMA CloseImportKeeps == ASSUME ImportInv, CloseImport PROVE ImportInv'
<1>1. /\ ImporterShape(importer')
      /\ ~importer'.uploading
  BY DEF CloseImport, EmptyImport, ImportInv, ImporterShape
<1>2. imports' = imports /\ escaped' = (escaped \/ importer.uploading)
  BY DEF CloseImport
<1>3. escaped' \in BOOLEAN
  BY <1>2
<1>4. \A i \in imports' : ImportShape(i)
  BY <1>2 DEF ImportInv
<1>5. escaped' \/ (UploadInv' /\ FlightInv')
  <2>1. CASE escaped \/ importer.uploading
    BY <1>2, <2>1
  <2>2. CASE ~escaped /\ ~importer.uploading
    <3>1. imports' = {}
      BY <1>2, <2>2 DEF ImportInv, FlightInv
    <3> QED BY <1>1, <3>1 DEF UploadInv, FlightInv
  <2> QED BY <2>1, <2>2
<1> QED BY <1>1, <1>3, <1>4, <1>5 DEF ImportInv, ImporterShape, ImportShape

\* A press of the button finds no import in flight.
LEMMA ExecuteKeeps == ASSUME ImportInv, ExecuteImport PROVE ImportInv'
<1> DEFINE new == [answer |-> "none", import |->
                    [file |-> importer.file, mode |-> importer.mode,
                     nr |-> transfers["imports"]]]
<1>1. /\ importer' = [importer EXCEPT !.uploading = TRUE]
      /\ imports' = imports \cup {new}
      /\ escaped' = escaped
      /\ importer.open /\ importer.result = NoResult
      /\ importer.file # NoFile /\ ~importer.uploading
  BY DEF ExecuteImport, ImportForm, ExecuteOffered
<1>2. /\ ImporterShape(importer')
      /\ importer'.uploading
      /\ importer'.open = importer.open /\ importer'.result = importer.result
      /\ importer'.file = importer.file /\ importer'.mode = importer.mode
  BY <1>1 DEF ImportInv, ImporterShape
<1>3. /\ ImportShape(new)
      /\ new.import.file = importer.file /\ new.import.mode = importer.mode
  BY DEF ImportShape
<1> HIDE DEF new
<1>4. \A i \in imports' : ImportShape(i)
  BY <1>1, <1>3 DEF ImportInv
<1>5. escaped \/ (UploadInv' /\ FlightInv')
  <2>1. CASE ~escaped
    <3>1. imports' = {new}
      BY <1>1, <2>1 DEF ImportInv, FlightInv
    <3> QED BY <1>1, <1>2, <1>3, <3>1 DEF UploadInv, FlightInv, NoResult
  <2>2. CASE escaped
    BY <2>2
  <2> QED BY <2>1, <2>2
<1> QED BY <1>1, <1>2, <1>4, <1>5 DEF ImportInv, ImporterShape, ImportShape

LEMMA ServeKeeps == ASSUME ImportInv, NEW i \in imports, ServeImport(i) PROVE ImportInv'
<1>1. PICK a \in {"ok", "failed"} : imports' = (imports \ {i}) \cup {[i EXCEPT !.answer = a]}
  BY DEF ServeImport
<1> DEFINE j == [i EXCEPT !.answer = a]
<1>2. ImportShape(j) /\ j.import = i.import
  BY AnswerKeepsImport DEF ImportInv
<1>3. importer' = importer /\ escaped' = escaped
  BY DEF ServeImport
<1> HIDE DEF j
<1>4. imports' = (imports \ {i}) \cup {j}
  BY <1>1 DEF j
<1>5. \A k \in imports' : ImportShape(k)
  BY <1>2, <1>4 DEF ImportInv
<1>6. escaped \/ (UploadInv' /\ FlightInv')
  <2>1. CASE ~escaped
    <3>1. /\ imports = {i} /\ importer.uploading
          /\ i.import.file = importer.file /\ i.import.mode = importer.mode
      BY <2>1 DEF ImportInv, FlightInv
    <3>2. imports' = {j}
      BY <1>4, <3>1
    <3> QED BY <1>2, <1>3, <2>1, <3>1, <3>2 DEF ImportInv, UploadInv, FlightInv, NoResult
  <2>2. CASE escaped
    BY <2>2
  <2> QED BY <2>1, <2>2
<1> QED BY <1>3, <1>5, <1>6 DEF ImportInv, ImporterShape, ImportShape

\* The answer of the only import ends the upload.
LEMMA EndKeeps ==
  ASSUME ImportInv, NEW i \in imports, ImportAnswered(i) \/ ImportFailed(i)
  PROVE  ImportInv'
<1>1. imports' = imports \ {i} /\ escaped' = escaped
  BY DEF ImportAnswered, ImportFailed
<1>2. ImporterShape(importer') /\ ~importer'.uploading
  BY DEF ImportAnswered, ImportFailed, ImportInv, ImporterShape
<1>3. \A k \in imports' : ImportShape(k)
  BY <1>1 DEF ImportInv
<1>4. escaped \/ (UploadInv' /\ FlightInv')
  <2>1. CASE ~escaped
    <3>1. imports' = {}
      BY <1>1, <2>1 DEF ImportInv, FlightInv
    <3> QED BY <1>2, <3>1 DEF UploadInv, FlightInv
  <2>2. CASE escaped
    BY <2>2
  <2> QED BY <2>1, <2>2
<1> QED BY <1>1, <1>2, <1>3, <1>4 DEF ImportInv, ImporterShape, ImportShape

LEMMA ImportNext == ASSUME ImportInv, [TransferNext]_transferVars PROVE ImportInv'
<1>1. CASE UNCHANGED importVars
  BY <1>1 DEF importVars, ImportInv, ImporterShape, ImportShape, UploadInv, FlightInv, NoResult
<1>2. CASE OpenImport
  BY <1>2, DialogKeeps DEF OpenImport, ImportInv, ImporterShape, UploadInv
<1>3. CASE ImportAnother
  <2>1. CASE escaped
    BY <1>3, <2>1 DEF ImportAnother, EmptyImport, ImportInv, ImporterShape, ImportShape
  <2>2. CASE ~escaped
    <3>1. ~importer.uploading
      BY <1>3, <2>2 DEF ImportAnother, ImportInv, UploadInv
    <3>2. importer' = [importer EXCEPT !.file = NoFile, !.uploading = FALSE, !.result = NoResult]
      BY <1>3 DEF ImportAnother, EmptyImport
    <3>3. ImporterShape(importer') /\ importer'.uploading = FALSE
      BY <3>2 DEF ImportInv, ImporterShape
    <3>4. imports' = {} /\ escaped' = FALSE
      BY <1>3, <2>2, <3>1 DEF ImportAnother, ImportInv, FlightInv
    <3> QED BY <3>3, <3>4 DEF ImportInv, ImporterShape, ImportShape, UploadInv, FlightInv
  <2> QED BY <2>1, <2>2 DEF ImportInv
<1>4. CASE RemoveFile
  BY <1>4, DialogKeeps DEF RemoveFile, RemoveOffered, ImportInv, ImporterShape
<1>5. ASSUME NEW f \in Files, ChooseFile(f) PROVE ImportInv'
  BY <1>5, DialogKeeps DEF ChooseFile, ImportForm, ImportInv, ImporterShape, UploadInv
<1>6. ASSUME NEW m \in Modes, ChooseMode(m) PROVE ImportInv'
  BY <1>6, DialogKeeps DEF ChooseMode, ImportInv, ImporterShape
<1>7. \/ UNCHANGED importVars
      \/ OpenImport \/ CloseImport \/ ImportAnother \/ RemoveFile \/ ExecuteImport
      \/ \E f \in Files : ChooseFile(f)
      \/ \E m \in Modes : ChooseMode(m)
      \/ \E i \in imports : ServeImport(i) \/ ImportAnswered(i) \/ ImportFailed(i)
  BY DEF TransferNext, transferVars, OpenExport, CloseExport, Export, ChooseScope, EndExport,
         SearchFor
<1> QED BY <1>1, <1>2, <1>3, <1>4, <1>5, <1>6, <1>7, CloseImportKeeps, ExecuteKeeps, ServeKeeps,
           EndKeeps

-----------------------------------------------------------------------------
(* Exports *)

\* The button sends the filter of the page under the scope "filtered", and only then;
\* the choice of that scope is shown as none once the page is searched for nothing.
LEMMA ExportNext ==
  ASSUME ExportAsShown, [TransferNext]_transferVars
  PROVE  ExportAsShown'
<1>1. CASE Export
  <2> DEFINE new == [scope |-> ScopeShown, filter |-> ExportFilter, listed |-> searched]
  <2>1. exports' = exports \cup {new}
    BY <1>1 DEF Export
  <2>2. IF new.scope = "filtered" THEN new.listed.text \/ new.filter = new.listed.filter
        ELSE new.filter = NoFilter
    BY DEF ScopeShown, ExportFilter, HasActiveFilters
  <2> HIDE DEF new
  <2> QED BY <2>1, <2>2 DEF ExportAsShown
<1>2. ASSUME NEW x \in exports, EndExport(x) PROVE ExportAsShown'
  BY <1>2 DEF EndExport, ExportAsShown
<1>3. CASE UNCHANGED exports
  BY <1>3 DEF ExportAsShown
<1>4. Export \/ (\E x \in exports : EndExport(x)) \/ UNCHANGED exports
  BY DEF TransferNext, transferVars, importVars, exportVars, OpenImport, CloseImport,
         ImportAnother, RemoveFile, ExecuteImport, ChooseFile, ChooseMode, ServeImport,
         ImportAnswered, ImportFailed, OpenExport, CloseExport, ChooseScope, SearchFor
<1> QED BY <1>1, <1>2, <1>3, <1>4

\* What is imported is the file and mode on the screen, one at a time, unless the
\* dialog was closed by key meanwhile; what is exported has the filter of the page
\* when the dialog shows that subset as chosen, unless the page has a search text,
\* and none otherwise (ImportModal.tsx:253, ExportModal.tsx:145).
THEOREM TransfersAlwaysAsShown == TransferSpec => []TransfersAsShown
<1>1. TransferInit => ImportInv /\ ExportAsShown
  <2> SUFFICES ASSUME TransferInit PROVE ImportInv /\ ExportAsShown
    OBVIOUS
  <2>1. /\ importer = [open |-> FALSE, file |-> NoFile, mode |-> "upsert",
                       uploading |-> FALSE, result |-> NoResult]
        /\ imports = {} /\ escaped = FALSE /\ exports = {}
    BY DEF TransferInit
  <2> QED BY <2>1 DEF ImportInv, ImporterShape, UploadInv, FlightInv, ExportAsShown
<1>2. ImportInv /\ ExportAsShown /\ [TransferNext]_transferVars => (ImportInv /\ ExportAsShown)'
  BY ImportNext, ExportNext
<1>3. ImportInv /\ ExportAsShown => TransfersAsShown
  BY DEF ImportInv, UploadInv, FlightInv, TransfersAsShown, ImportIsShown
<1> QED BY <1>1, <1>2, <1>3, PTL DEF TransferSpec

-----------------------------------------------------------------------------
(***************************************************************************)
(* Proof that storage, tabs and accounts agree, for any tabs, accounts,    *)
(* keys and bounds.                                                        *)
(*                                                                         *)
(* That the user is the one of the token needs what is known of a request  *)
(* in flight: the account it was sent as exists, and the answer of         *)
(* refreshUser is about that account (AskInv).  That a tab knows the       *)
(* storage follows from what each write leaves it with (WriteKeepsKnown),  *)
(* and from tabs never being closed while a request of theirs is awaited.  *)
(***************************************************************************)

TabShape(x) ==
  x = [token |-> x.token, key |-> x.key, user |-> x.user,
       needsSetup |-> x.needsSetup, page |-> x.page]

StorageShape(x) == x = [token |-> x.token, key |-> x.key, user |-> x.user]

AskShape(r) ==
  r = [tab |-> r.tab, kind |-> r.kind, key |-> r.key, who |-> r.who, as |-> r.as,
       own |-> r.own, from |-> r.from, here |-> r.here, answer |-> r.answer,
       needsSetup |-> r.needsSetup]

TabsShape ==
  /\ tabs = [t \in Tabs |-> tabs[t]]
  /\ \A t \in Tabs : TabShape(tabs[t])

\* The accounts are those of the setup or all, and the token is for one of them.
AccountsInv ==
  /\ roots = {} \/ roots = Accounts \/ (\E a \in Accounts : roots = {a})
  /\ StorageShape(storage)
  /\ storage.token = Nobody \/ storage.token \in roots

\* A request is sent as an account that exists, and its answer is about one.
KnownCall(r) ==
  /\ r.as = Nobody \/ r.as \in roots
  /\ r.kind = "refresh" => r.as # Nobody
  /\ r.kind \in {"login", "setup"} => r.who \in Accounts
  /\ r.answer = "ok" /\ r.kind \in {"login", "save"} => r.who \in roots
  /\ r.answer = "ok" /\ r.kind = "refresh" => r.who = r.as

\* Its tab is open.
AwaitedCall(r) == r.tab \in Tabs /\ tabs[r.tab].page # "closed"

AskInv(r) == AskShape(r) /\ KnownCall(r) /\ AwaitedCall(r)
AsksInv == \A r \in asks : AskInv(r)

SessionInv ==
  /\ TabsShape
  /\ AccountsInv
  /\ AsksInv
  /\ UserIsTokens
  /\ TabsKnowStorage

-----------------------------------------------------------------------------
(* Requests *)

\* The first account is one of the accounts.
LEMMA FirstIsRoot == ASSUME AccountsInv, roots # {} PROVE First \in roots
<1>1. \E a \in roots : \A b \in roots : a <= b
  <2>1. CASE roots = Accounts
    BY <2>1, AdminSessionAssumption
  <2>2. CASE \E a \in Accounts : roots = {a}
    <3>1. PICK a \in Accounts : roots = {a}
      BY <2>2
    <3>2. a \in Nat
      BY AdminSessionAssumption, Zenon DEF AdminSessionAssumption
    <3>3. a <= a
      BY <3>2
    <3> QED BY <3>1, <3>3, Zenon
  <2> QED BY <2>1, <2>2 DEF AccountsInv
<1> QED BY <1>1 DEF First

LEMMA AnswerFields ==
  ASSUME NEW r, AskShape(r), NEW a
  PROVE  LET q == [r EXCEPT !.answer = a] IN
         /\ AskShape(q)
         /\ q.answer = a
         /\ q.tab = r.tab /\ q.kind = r.kind /\ q.who = r.who /\ q.as = r.as
  BY DEF AskShape

LEMMA HereFields ==
  ASSUME NEW r, AskShape(r), NEW h
  PROVE  LET q == [r EXCEPT !.here = h] IN
         /\ AskShape(q)
         /\ q.tab = r.tab /\ q.kind = r.kind /\ q.who = r.who /\ q.as = r.as
         /\ q.answer = r.answer
  BY DEF AskShape

\* Leaving a page changes nothing of a request but whether its page is there.
LEMMA HereKeeps ==
  ASSUME NEW r, AskInv(r), NEW h
  PROVE  AskInv([r EXCEPT !.here = h])
<1> DEFINE q == [r EXCEPT !.here = h]
<1>1. AskShape(r) /\ KnownCall(r) /\ AwaitedCall(r)
  BY DEF AskInv
<1>2. /\ AskShape(q)
      /\ q.tab = r.tab /\ q.kind = r.kind /\ q.who = r.who /\ q.as = r.as
      /\ q.answer = r.answer
  BY <1>1, HereFields
<1> HIDE DEF q
<1>3. KnownCall(q) /\ AwaitedCall(q)
  BY <1>1, <1>2 DEF KnownCall, AwaitedCall
<1>4. AskInv(q)
  BY <1>2, <1>3 DEF AskInv
<1> QED BY <1>4 DEF q

\* Neither does the page it is sent from.
LEMMA FromKeeps ==
  ASSUME NEW r, AskInv(r), NEW page
  PROVE  LET q == [r EXCEPT !.from = page] IN AskInv(q) /\ q.tab = r.tab
<1> DEFINE q == [r EXCEPT !.from = page]
<1>1. AskShape(r) /\ KnownCall(r) /\ AwaitedCall(r)
  BY DEF AskInv
<1>2. /\ AskShape(q)
      /\ q.tab = r.tab /\ q.kind = r.kind /\ q.who = r.who /\ q.as = r.as
      /\ q.answer = r.answer
  BY <1>1 DEF AskShape
<1> HIDE DEF q
<1>3. KnownCall(q) /\ AwaitedCall(q)
  BY <1>1, <1>2 DEF KnownCall, AwaitedCall
<1>4. AskInv(q) /\ q.tab = r.tab
  BY <1>2, <1>3 DEF AskInv
<1> QED BY <1>4 DEF q

\* What a tab still waits for when it leaves a page, or stays.
LEMMA LeftBehind ==
  ASSUME NEW t, NEW page, NEW waiting, NEW r \in Left(t, page, waiting)
  PROVE  \E q \in waiting : \E h : r = [q EXCEPT !.here = h]
<1>1. PICK q \in waiting :
        r = [q EXCEPT !.here = q.here /\ (q.tab # t \/ page = tabs[t].page)]
  BY Zenon DEF Left
<1> QED BY <1>1, Zenon

\* A new request is sent with the credentials in the storage.
LEMMA AskingKnown ==
  ASSUME AccountsInv, NEW t \in Tabs, tabs[t].page # "closed", NEW kind, NEW key, NEW who,
         kind = "refresh" => storage.token # Nobody,
         kind \in {"login", "setup"} => who \in Accounts
  PROVE  AskInv(Asking(t, kind, key, who))
<1> DEFINE q == Asking(t, kind, key, who)
<1>1. /\ AskShape(q)
      /\ q.tab = t /\ q.kind = kind /\ q.who = who /\ q.as = storage.token
      /\ q.answer = "none"
  BY DEF Asking, AskShape
<1> HIDE DEF q
<1>2. KnownCall(q) /\ AwaitedCall(q)
  BY <1>1 DEF KnownCall, AwaitedCall, AccountsInv
<1>3. AskInv(q)
  BY <1>1, <1>2 DEF AskInv
<1> QED BY <1>3 DEF q

\* What a request is known for stays so while the accounts stay and tabs open.
LEMMA AskStays ==
  ASSUME NEW r, AskInv(r), roots' = roots,
         \A t \in Tabs : tabs[t].page # "closed" => tabs'[t].page # "closed"
  PROVE  AskShape(r) /\ KnownCall(r)' /\ AwaitedCall(r)'
  BY DEF AskInv, KnownCall, AwaitedCall

-----------------------------------------------------------------------------
(* Writes *)

\* A tab that writes is the only one whose copy changes.
LEMMA WriteTabs ==
  ASSUME TabsShape, NEW t \in Tabs, NEW new, NEW kept, TabShape(new), Write(t, new, kept)
  PROVE  /\ TabsShape'
         /\ tabs'[t] = new
         /\ \A s \in Tabs \ {t} : tabs'[s] = tabs[s]
         /\ storage' = kept
  BY DEF TabsShape, Write

\* A write whose tab knew the storage leaves it with a copy of it, and tells the
\* tabs that do not know of it apart.
LEMMA WriteKeepsKnown ==
  ASSUME TabsShape, TabsKnowStorage, NEW t \in Tabs, NEW new, NEW kept, TabShape(new),
         Write(t, new, kept),
         t \notin apart /\ new.page # "closed" => new.token = kept.token /\ new.key = kept.key
  PROVE  TabsKnowStorage'
<1>1. /\ tabs'[t] = new
      /\ \A s \in Tabs \ {t} : tabs'[s] = tabs[s]
      /\ storage' = kept
  BY WriteTabs
<1>2. apart' = (IF new.token = kept.token /\ new.key = kept.key THEN apart \ {t} ELSE apart)
               \cup (IF kept = storage THEN {} ELSE Tabs \ {t})
  BY DEF Write
<1> SUFFICES ASSUME NEW s \in Tabs, s \notin apart', tabs'[s].page # "closed"
             PROVE  tabs'[s].token = storage'.token /\ tabs'[s].key = storage'.key
  BY DEF TabsKnowStorage
<1>3. CASE s = t
  <2>1. CASE new.token = kept.token /\ new.key = kept.key
    BY <2>1, <1>3, <1>1
  <2>2. CASE ~(new.token = kept.token /\ new.key = kept.key)
    <3>1. t \notin apart
      BY <2>2, <1>2, <1>3
    <3> QED BY <2>2, <3>1, <1>1, <1>3
  <2> QED BY <2>1, <2>2
<1>4. CASE s # t
  <2>1. kept = storage
    BY <1>4, <1>2
  <2>2. s \notin apart
    BY <2>1, <1>4, <1>2
  <2>3. tabs'[s] = tabs[s]
    BY <1>1, <1>4
  <2>4. tabs[s].token = storage.token /\ tabs[s].key = storage.key
    BY <2>2, <2>3 DEF TabsKnowStorage
  <2> QED BY <2>1, <2>3, <2>4, <1>1
<1> QED BY <1>3, <1>4

\* A write of one tab preserves the invariant when the copy, the storage and the
\* requests it leaves do.
LEMMA WriteKeeps ==
  ASSUME SessionInv, NEW t \in Tabs, NEW new, NEW kept,
         Write(t, new, kept), roots' = roots,
         TabShape(new), StorageShape(kept),
         new.page # "closed",
         tabs[t].page # "closed",
         kept.token = Nobody \/ kept.token \in roots,
         crossed' \/ kept.user \in {Nobody, kept.token},
         t \notin apart => new.token = kept.token /\ new.key = kept.key,
         \A r \in asks' : r \in asks \/ (AskShape(r) /\ KnownCall(r) /\ r.tab = t)
                          \/ (\E q \in asks : \E h : r = [q EXCEPT !.here = h])
  PROVE  SessionInv'
<1>1. /\ TabsShape'
      /\ tabs'[t] = new
      /\ \A s \in Tabs \ {t} : tabs'[s] = tabs[s]
      /\ storage' = kept
  BY WriteTabs DEF SessionInv
<1>2. TabsKnowStorage'
  BY WriteKeepsKnown DEF SessionInv
<1>3. AccountsInv'
  BY <1>1 DEF SessionInv, AccountsInv
<1>4. UserIsTokens'
  BY <1>1 DEF UserIsTokens
<1>5. \A s \in Tabs : tabs[s].page # "closed" => tabs'[s].page # "closed"
  BY <1>1
<1>6. \A r \in asks' : AskInv(r)
  <2> SUFFICES ASSUME NEW r \in asks' PROVE AskInv(r)
    OBVIOUS
  <2>1. CASE r \in asks
    BY <2>1 DEF SessionInv, AsksInv
  <2>2. CASE AskShape(r) /\ KnownCall(r) /\ r.tab = t
    BY <2>2 DEF AskInv, AwaitedCall
  <2>3. CASE \E q \in asks : \E h : r = [q EXCEPT !.here = h]
    <3>0. PICK q \in asks : \E h : r = [q EXCEPT !.here = h]
      BY <2>3
    <3>1. PICK h : r = [q EXCEPT !.here = h]
      BY <3>0
    <3>2. AskInv(q)
      BY DEF SessionInv, AsksInv
    <3>3. AskInv([q EXCEPT !.here = h])
      BY <3>2, HereKeeps
    <3> QED BY <3>1, <3>3, Zenon
  <2> QED BY <2>1, <2>2, <2>3
<1>7. AsksInv'
  BY <1>5, <1>6, AskStays DEF AsksInv, AskInv
<1> QED BY <1>1, <1>2, <1>3, <1>4, <1>7 DEF SessionInv

\* A step that leaves storage, accounts and copies alone and only adds requests
\* of an open tab, or drops some.
LEMMA AsksKeep ==
  ASSUME SessionInv, UNCHANGED <<roots, storage, apart, crossed>>, TabsShape',
         \A t \in Tabs : /\ tabs'[t].token = tabs[t].token /\ tabs'[t].key = tabs[t].key
                         /\ (tabs'[t].page = "closed") = (tabs[t].page = "closed"),
         \A r \in asks' : AskInv(r)
  PROVE  SessionInv'
<1>1. AccountsInv' /\ UserIsTokens'
  BY DEF SessionInv, AccountsInv, UserIsTokens
<1>2. TabsKnowStorage'
  BY DEF SessionInv, TabsKnowStorage
<1>3. AsksInv'
  BY AskStays DEF AsksInv, AskInv
<1> QED BY <1>1, <1>2, <1>3 DEF SessionInv

-----------------------------------------------------------------------------
(* Steps of the user *)

LEMMA LoadTabKeeps ==
  ASSUME SessionInv, NEW t \in Tabs, NEW page \in {"login", "setup", "app"}, LoadTab(t, page)
  PROVE  SessionInv'
<1> DEFINE new == [token |-> storage.token, key |-> storage.key,
                   user |-> IF storage.user # Nobody THEN storage.user ELSE storage.token,
                   needsSetup |-> FALSE, page |-> Admitted(page, storage)]
<1>1. tabs' = [tabs EXCEPT ![t] = new]
  BY DEF LoadTab
<1>2. TabShape(new) /\ new.token = storage.token /\ new.key = storage.key
      /\ new.page # "closed"
  BY DEF TabShape, Admitted
<1> HIDE DEF new
<1>3. /\ TabsShape'
      /\ tabs'[t] = new
      /\ \A s \in Tabs \ {t} : tabs'[s] = tabs[s]
  BY <1>1, <1>2 DEF SessionInv, TabsShape
<1>4. UNCHANGED <<roots, storage, crossed>> /\ apart' = apart \ {t}
  BY DEF LoadTab
<1>5. AccountsInv' /\ UserIsTokens'
  BY <1>4 DEF SessionInv, AccountsInv, UserIsTokens
<1>6. TabsKnowStorage'
  <2> SUFFICES ASSUME NEW s \in Tabs, s \notin apart', tabs'[s].page # "closed"
               PROVE  tabs'[s].token = storage'.token /\ tabs'[s].key = storage'.key
    BY DEF TabsKnowStorage
  <2>1. CASE s = t
    BY <2>1, <1>2, <1>3, <1>4
  <2>2. CASE s # t
    <3>1. s \notin apart /\ tabs'[s] = tabs[s]
      BY <2>2, <1>3, <1>4
    <3> QED BY <3>1, <1>4 DEF SessionInv, TabsKnowStorage
  <2> QED BY <2>1, <2>2
<1>7. AsksInv'
  <2> SUFFICES ASSUME NEW r \in asks' PROVE AskInv(r)'
    BY DEF AsksInv
  <2>1. CASE r \in asks
    <3>1. AskInv(r)
      BY <2>1 DEF SessionInv, AsksInv
    <3>2. \A s \in Tabs : tabs[s].page # "closed" => tabs'[s].page # "closed"
      BY <1>2, <1>3
    <3> QED BY <3>1, <3>2, <1>4, AskStays DEF AskInv
  <2>2. CASE r \notin asks
    <3>1. r = Asking(t, "init", storage.key, Nobody)
      BY <2>2 DEF LoadTab
    <3>2. AskShape(r) /\ r.tab = t /\ r.kind = "init" /\ r.as = storage.token
      BY <3>1 DEF Asking, AskShape
    <3> HIDE <3>1
    <3>3. KnownCall(r)' /\ AwaitedCall(r)'
      BY <3>2, <1>2, <1>3, <1>4, <1>5 DEF KnownCall, AwaitedCall, AccountsInv
    <3> QED BY <3>2, <3>3 DEF AskInv
  <2> QED BY <2>1, <2>2
<1> QED BY <1>3, <1>5, <1>6, <1>7 DEF SessionInv

LEMMA GoToKeeps ==
  ASSUME SessionInv, NEW t \in Tabs, NEW page \in {"login", "setup", "app"}, GoTo(t, page)
  PROVE  SessionInv'
<1> DEFINE new == [tabs[t] EXCEPT !.page = Admitted(page, storage)]
<1>1. tabs' = [tabs EXCEPT ![t] = new]
  BY DEF GoTo, SessionInv, TabsShape
<1>2. TabShape(new) /\ new.token = tabs[t].token /\ new.key = tabs[t].key
      /\ new.page # "closed"
  <2>1. TabShape(tabs[t]) /\ Admitted(page, storage) # "closed"
    BY DEF SessionInv, TabsShape, Admitted
  <2> QED BY <2>1 DEF TabShape
<1> HIDE DEF new
<1>3. /\ TabsShape'
      /\ tabs'[t] = new
      /\ \A s \in Tabs \ {t} : tabs'[s] = tabs[s]
  BY <1>1, <1>2 DEF SessionInv, TabsShape
<1>4. UNCHANGED <<roots, storage, apart, crossed>> /\ tabs[t].page # "closed"
  BY DEF GoTo, Open
<1>5. \A r \in asks' : AskInv(r)
  <2> SUFFICES ASSUME NEW r \in asks' PROVE AskInv(r)
    OBVIOUS
  <2>1. r \in Left(t, Admitted(page, storage), asks)
    BY Zenon DEF GoTo
  <2>2. PICK q \in asks : \E h : r = [q EXCEPT !.here = h]
    BY <2>1, LeftBehind
  <2>3. PICK h : r = [q EXCEPT !.here = h]
    BY <2>2
  <2>4. AskInv([q EXCEPT !.here = h])
    BY <2>2, HereKeeps DEF SessionInv, AsksInv
  <2> QED BY <2>3, <2>4, Zenon
<1> QED BY <1>2, <1>3, <1>4, <1>5, AsksKeep

\* Requests that are sent and change nothing else.
LEMMA SendKeeps ==
  ASSUME SessionInv, NEW t \in Tabs, tabs[t].page # "closed",
         NEW kind \in {"verify", "setup", "save"}, NEW key, NEW who,
         kind = "setup" => who \in Accounts,
         asks' = asks \cup {Asking(t, kind, key, who)},
         UNCHANGED <<roots, storage, tabs, apart, crossed>>
  PROVE  SessionInv'
<1>1. AskInv(Asking(t, kind, key, who))
  BY AskingKnown DEF SessionInv
<1>2. \A r \in asks' : AskInv(r)
  BY <1>1 DEF SessionInv, AsksInv
<1>3. TabsShape'
  BY DEF SessionInv, TabsShape
<1> QED BY <1>2, <1>3, AsksKeep

LEMMA SubmitLoginKeeps ==
  ASSUME SessionInv, NEW t \in Tabs, NEW account \in Accounts, SubmitLogin(t, account)
  PROVE  SessionInv'
<1> DEFINE kept == [storage EXCEPT !.key = tabs[t].key]
<1>1. /\ StorageShape(kept) /\ kept.token = storage.token /\ kept.user = storage.user
      /\ kept.key = tabs[t].key
  BY DEF SessionInv, AccountsInv, StorageShape
<1>2. Write(t, tabs[t], kept) /\ roots' = roots /\ crossed' = crossed
  BY DEF SubmitLogin
<1> HIDE DEF kept
<1>3. TabShape(tabs[t]) /\ tabs[t].page # "closed"
  BY DEF SubmitLogin, LoginOffered, SessionInv, TabsShape
<1>4. AskInv(Asking(t, "login", tabs[t].key, account))
  BY <1>3, AskingKnown DEF SessionInv
<1>5. \A r \in asks' : r \in asks \/ (AskInv(r) /\ r.tab = t)
  <2> DEFINE q == Asking(t, "login", tabs[t].key, account)
  <2>1. q.tab = t
    BY DEF Asking
  <2>2. AskInv(q) /\ asks' = asks \cup {q}
    BY <1>4 DEF SubmitLogin
  <2> HIDE DEF q
  <2> QED BY <2>1, <2>2
<1>6. \A r \in asks' : r \in asks \/ (AskShape(r) /\ KnownCall(r) /\ r.tab = t)
  BY <1>5 DEF AskInv
<1>7. t \notin apart => tabs[t].token = kept.token
  BY <1>1, <1>3 DEF SessionInv, TabsKnowStorage
<1>8. crossed' \/ kept.user \in {Nobody, kept.token}
  BY <1>1, <1>2 DEF SessionInv, UserIsTokens
<1>9. kept.token = Nobody \/ kept.token \in roots
  BY <1>1 DEF SessionInv, AccountsInv
<1> QED BY <1>1, <1>2, <1>3, <1>6, <1>7, <1>8, <1>9, WriteKeeps

\* What the writes of a tab leave it with.
LEMMA SetupField ==
  ASSUME NEW x, TabShape(x), NEW v
  PROVE  LET y == [x EXCEPT !.needsSetup = v] IN
         TabShape(y) /\ y.page = x.page /\ y.token = x.token /\ y.key = x.key
  BY DEF TabShape

LEMMA ClearedShape ==
  ASSUME NEW t \in Tabs, TabShape(tabs[t])
  PROVE  /\ TabShape(Cleared(t)) /\ Cleared(t).page = tabs[t].page
         /\ Cleared(t).token = Nobody /\ Cleared(t).key = NoKey
         /\ StorageShape(SignedOut) /\ SignedOut.token = Nobody
         /\ SignedOut.key = NoKey /\ SignedOut.user = Nobody
<1>1. StorageShape(SignedOut) /\ SignedOut.token = Nobody
      /\ SignedOut.key = NoKey /\ SignedOut.user = Nobody
  BY DEF SignedOut, StorageShape
<1> DEFINE x1 == [tabs[t] EXCEPT !.token = Nobody]
           x2 == [x1 EXCEPT !.user = Nobody]
           x3 == [x2 EXCEPT !.key = NoKey]
           x4 == [x3 EXCEPT !.needsSetup = FALSE]
<1>2. TabShape(x1) /\ x1.page = tabs[t].page /\ x1.token = Nobody
  BY DEF TabShape
<1>3. TabShape(x2) /\ x2.page = tabs[t].page /\ x2.token = Nobody
  <2> HIDE DEF x1
  <2> QED BY <1>2 DEF TabShape
<1>4. TabShape(x3) /\ x3.page = tabs[t].page /\ x3.token = Nobody /\ x3.key = NoKey
  <2> HIDE DEF x2
  <2> QED BY <1>3 DEF TabShape
<1>5. TabShape(x4) /\ x4.page = tabs[t].page /\ x4.token = Nobody /\ x4.key = NoKey
  <2> HIDE DEF x3
  <2> QED BY <1>4, SetupField, Zenon
<1>6. Cleared(t) = x4
  BY Zenon DEF Cleared
<1> QED BY <1>1, <1>5, <1>6, Zenon

LEMMA SignOutKeeps ==
  ASSUME SessionInv, NEW t \in Tabs, tabs[t].page # "closed",
         Write(t, Cleared(t), SignedOut), asks' \subseteq asks,
         UNCHANGED <<roots, crossed>>
  PROVE  SessionInv'
<1>1. TabShape(tabs[t])
  BY DEF SessionInv, TabsShape
<1>2. /\ TabShape(Cleared(t)) /\ Cleared(t).page = tabs[t].page
      /\ Cleared(t).token = Nobody /\ Cleared(t).key = NoKey
      /\ StorageShape(SignedOut) /\ SignedOut.token = Nobody
      /\ SignedOut.key = NoKey /\ SignedOut.user = Nobody
  BY <1>1, ClearedShape
<1> QED BY <1>2, WriteKeeps

LEMMA WithoutUserShapes ==
  ASSUME NEW t \in Tabs, TabShape(tabs[t]), StorageShape(storage)
  PROVE  /\ TabShape(WithoutUser(tabs[t])) /\ WithoutUser(tabs[t]).page = tabs[t].page
         /\ WithoutUser(tabs[t]).token = Nobody
         /\ WithoutUser(tabs[t]).key = tabs[t].key
         /\ StorageShape(WithoutUser(storage)) /\ WithoutUser(storage).token = Nobody
         /\ WithoutUser(storage).user = Nobody /\ WithoutUser(storage).key = storage.key
<1> DEFINE x1 == [tabs[t] EXCEPT !.token = Nobody]
           x2 == [x1 EXCEPT !.user = Nobody]
           s1 == [storage EXCEPT !.token = Nobody]
           s2 == [s1 EXCEPT !.user = Nobody]
<1>1. TabShape(x1) /\ x1.page = tabs[t].page /\ x1.token = Nobody /\ x1.key = tabs[t].key
  BY DEF TabShape
<1>2. TabShape(x2) /\ x2.page = tabs[t].page /\ x2.token = Nobody /\ x2.key = tabs[t].key
  <2> HIDE DEF x1
  <2> QED BY <1>1 DEF TabShape
<1>3. StorageShape(s1) /\ s1.token = Nobody /\ s1.key = storage.key
  BY DEF StorageShape
<1>4. StorageShape(s2) /\ s2.token = Nobody /\ s2.user = Nobody /\ s2.key = storage.key
  <2> HIDE DEF s1
  <2> QED BY <1>3 DEF StorageShape
<1>5. WithoutUser(tabs[t]) = x2 /\ WithoutUser(storage) = s2
  BY Zenon DEF WithoutUser
<1> HIDE DEF x2, s2
<1> QED BY <1>2, <1>4, <1>5

LEMMA LeaveKeeps ==
  ASSUME SessionInv, NEW t \in Tabs, tabs[t].page # "closed",
         Write(t, WithoutUser(tabs[t]), WithoutUser(storage)), asks' \subseteq asks,
         UNCHANGED <<roots, crossed>>
  PROVE  SessionInv'
<1>1. TabShape(tabs[t]) /\ StorageShape(storage)
  BY DEF SessionInv, TabsShape, AccountsInv
<1>2. /\ TabShape(WithoutUser(tabs[t])) /\ WithoutUser(tabs[t]).page = tabs[t].page
      /\ WithoutUser(tabs[t]).token = Nobody
      /\ WithoutUser(tabs[t]).key = tabs[t].key
      /\ StorageShape(WithoutUser(storage)) /\ WithoutUser(storage).token = Nobody
      /\ WithoutUser(storage).user = Nobody /\ WithoutUser(storage).key = storage.key
  BY <1>1, WithoutUserShapes
<1>3. t \notin apart => WithoutUser(tabs[t]).key = WithoutUser(storage).key
  BY <1>2 DEF SessionInv, TabsKnowStorage
<1> QED BY <1>2, <1>3, WriteKeeps

LEMMA VisitKeeps == ASSUME SessionInv, NEW t \in Tabs, Visit(t) PROVE SessionInv'
<1>1. CASE \E page \in {"login", "setup", "app"} : LoadTab(t, page) \/ GoTo(t, page)
  BY <1>1, LoadTabKeeps, GoToKeeps
<1>2. CASE \E key \in MasterKeys : SubmitKey(t, key)
  BY <1>2, SendKeeps DEF SubmitKey, KeyAsked
<1>3. ASSUME NEW account \in Accounts, SubmitLogin(t, account) PROVE SessionInv'
  BY <1>3, SubmitLoginKeeps
<1>4. ASSUME NEW account \in Accounts, SubmitSetup(t, account) PROVE SessionInv'
  BY <1>4, SendKeeps DEF SubmitSetup, SetupOffered
<1>5. CASE ClearAdminKey(t)
  <2>1. tabs[t].page # "closed" /\ UNCHANGED <<roots, asks, crossed>>
        /\ Write(t, Cleared(t), SignedOut)
    BY <1>5 DEF ClearAdminKey
  <2> QED BY <2>1, SignOutKeeps
<1>6. CASE Logout(t)
  <2>1. tabs[t].page # "closed" /\ UNCHANGED <<roots, asks, crossed>>
        /\ Write(t, WithoutUser(tabs[t]), WithoutUser(storage))
    BY <1>6 DEF Logout
  <2> QED BY <2>1, LeaveKeeps
<1>7. CASE SaveRootAccount(t)
  BY <1>7, SendKeeps DEF SaveRootAccount
<1> QED BY <1>1, <1>2, <1>3, <1>4, <1>5, <1>6, <1>7 DEF Visit

-----------------------------------------------------------------------------
(* The server *)

\* An answer leaves what is known of the request; that of refreshUser and of the
\* account form is about the account of its token.
LEMMA CarryAskKeeps ==
  ASSUME SessionInv, NEW r \in asks, CarryAsk(r) PROVE SessionInv'
<1>1. PICK ok \in BOOLEAN :
        LET done == /\ ok
                    /\ r.kind = "setup" => roots = {}
                    /\ r.kind = "login" => r.who \in roots
                    /\ r.kind \in {"refresh", "save"} => roots # {}
        IN /\ roots' = IF r.kind = "setup" /\ done THEN {r.who} ELSE roots
           /\ asks' = (asks \ {r}) \cup
                {[r EXCEPT !.answer = IF done THEN "ok" ELSE "failed",
                           !.needsSetup = roots = {},
                           !.who = IF done /\ r.kind \in {"refresh", "save"}
                                   THEN Subject(r.as) ELSE r.who]}
  BY DEF CarryAsk
<1> DEFINE done == /\ ok
                   /\ r.kind = "setup" => roots = {}
                   /\ r.kind = "login" => r.who \in roots
                   /\ r.kind \in {"refresh", "save"} => roots # {}
           answer == IF done THEN "ok" ELSE "failed"
           who == IF done /\ r.kind \in {"refresh", "save"} THEN Subject(r.as) ELSE r.who
           none == roots = {}
           q == [r EXCEPT !.answer = answer, !.needsSetup = none, !.who = who]
<1>2. AskShape(r) /\ KnownCall(r) /\ AwaitedCall(r)
  BY DEF SessionInv, AsksInv, AskInv
<1>3. /\ roots' = IF r.kind = "setup" /\ done THEN {r.who} ELSE roots
      /\ asks' = (asks \ {r}) \cup {q}
  BY <1>1
<1>4. /\ AskShape(q)
      /\ q.answer = answer /\ q.who = who
      /\ q.tab = r.tab /\ q.kind = r.kind /\ q.as = r.as
  <2> HIDE DEF answer, none, who
  <2> DEFINE q1 == [r EXCEPT !.answer = answer]
             q2 == [q1 EXCEPT !.needsSetup = none]
             q3 == [q2 EXCEPT !.who = who]
  <2>1. /\ AskShape(q1) /\ q1.answer = answer
        /\ q1.tab = r.tab /\ q1.kind = r.kind /\ q1.as = r.as
    BY <1>2 DEF AskShape
  <2>2. /\ AskShape(q2) /\ q2.answer = answer
        /\ q2.tab = r.tab /\ q2.kind = r.kind /\ q2.as = r.as
    <3> HIDE DEF q1
    <3> QED BY <2>1 DEF AskShape
  <2>3. /\ AskShape(q3) /\ q3.answer = answer /\ q3.who = who
        /\ q3.tab = r.tab /\ q3.kind = r.kind /\ q3.as = r.as
    <3> HIDE DEF q2
    <3> QED BY <2>2 DEF AskShape
  <2>4. q = q3
    BY Zenon
  <2> HIDE DEF q, q3
  <2> QED BY <2>3, <2>4
<1>5. done /\ r.kind \in {"refresh", "save"} => who \in roots
  BY <1>2, FirstIsRoot DEF SessionInv, Subject, KnownCall
<1>6. done /\ r.kind = "refresh" => who = r.as
  BY <1>2 DEF Subject, KnownCall
<1>7. ~(r.kind \in {"refresh", "save"}) => who = r.who
  OBVIOUS
<1>8. answer = "ok" => done
  OBVIOUS
<1>9. done /\ r.kind = "login" => r.who \in roots
  OBVIOUS
<1>10. UNCHANGED <<storage, tabs, apart, crossed>>
  BY DEF CarryAsk
<1> HIDE DEF q, who
<1>11. roots' = roots \/ (roots = {} /\ \E a \in Accounts : roots' = {a})
  BY <1>2, <1>3 DEF KnownCall
<1>12. AccountsInv'
  BY <1>10, <1>11 DEF SessionInv, AccountsInv
<1> HIDE DEF done, answer
<1>13. TabsShape' /\ UserIsTokens' /\ TabsKnowStorage'
  BY <1>10 DEF SessionInv, TabsShape, UserIsTokens, TabsKnowStorage
<1>14. KnownCall(q)
  BY <1>2, <1>4, <1>5, <1>6, <1>7, <1>8, <1>9 DEF KnownCall
<1>15. \A p \in asks' : AskShape(p) /\ KnownCall(p) /\ AwaitedCall(p)
  <2>1. AwaitedCall(q)
    BY <1>2, <1>4 DEF AwaitedCall
  <2> QED BY <1>3, <1>4, <1>14, <2>1 DEF SessionInv, AsksInv, AskInv
<1>16. \A p \in asks' : KnownCall(p)'
  <2>1. ASSUME NEW p \in asks', KnownCall(p) PROVE KnownCall(p)'
    BY <2>1, <1>11 DEF KnownCall
  <2> QED BY <1>15, <2>1
<1>17. \A p \in asks' : AwaitedCall(p)'
  BY <1>15, <1>10 DEF AwaitedCall
<1>18. AsksInv'
  BY <1>15, <1>16, <1>17 DEF AsksInv, AskInv
<1> QED BY <1>12, <1>13, <1>18 DEF SessionInv

LEMMA LoseAskKeeps ==
  ASSUME SessionInv, NEW r \in asks, LoseAsk(r) PROVE SessionInv'
<1> DEFINE q == [r EXCEPT !.answer = "failed"]
<1>1. AskShape(r) /\ KnownCall(r) /\ AwaitedCall(r)
  BY DEF SessionInv, AsksInv, AskInv
<1>2. /\ AskShape(q)
      /\ q.answer = "failed"
      /\ q.tab = r.tab /\ q.kind = r.kind /\ q.who = r.who /\ q.as = r.as
  BY <1>1, AnswerFields, Zenon
<1>3. asks' = (asks \ {r}) \cup {q} /\ UNCHANGED <<roots, storage, tabs, apart, crossed>>
  BY DEF LoseAsk
<1> HIDE DEF q
<1>4. KnownCall(q) /\ AwaitedCall(q)
  BY <1>1, <1>2 DEF KnownCall, AwaitedCall
<1>5. \A p \in asks' : AskInv(p)
  BY <1>2, <1>3, <1>4 DEF SessionInv, AsksInv, AskInv
<1>6. TabsShape'
  BY <1>3 DEF SessionInv, TabsShape
<1> QED BY <1>3, <1>5, <1>6, AsksKeep

-----------------------------------------------------------------------------
(* Answers *)

\* What a step that takes the answer of r starts from.
LEMMA AnsweredTab ==
  ASSUME SessionInv, NEW r \in asks
  PROVE  /\ r.tab \in Tabs /\ tabs[r.tab].page # "closed"
         /\ TabShape(tabs[r.tab]) /\ StorageShape(storage)
         /\ AskShape(r) /\ KnownCall(r)
         /\ storage.token = Nobody \/ storage.token \in roots
         /\ crossed \/ storage.user \in {Nobody, storage.token}
         /\ r.tab \notin apart =>
              tabs[r.tab].token = storage.token /\ tabs[r.tab].key = storage.key
  BY DEF SessionInv, AsksInv, AskInv, AwaitedCall, TabsShape, AccountsInv, UserIsTokens,
         TabsKnowStorage

LEMMA InitAnsweredKeeps ==
  ASSUME SessionInv, NEW r \in asks, InitAnswered(r) PROVE SessionInv'
<1> DEFINE new == [tabs[r.tab] EXCEPT !.needsSetup = r.needsSetup]
           q == Asking(r.tab, "refresh", storage.key, Nobody)
<1>1. r.tab \in Tabs /\ TabShape(tabs[r.tab]) /\ tabs[r.tab].page # "closed"
  BY AnsweredTab
<1>2. TabShape(new) /\ new.page = tabs[r.tab].page /\ new.token = tabs[r.tab].token
      /\ new.key = tabs[r.tab].key
  BY <1>1, SetupField, Zenon
<1>3. tabs' = [tabs EXCEPT ![r.tab] = new]
  BY DEF InitAnswered
<1>4. storage.token # Nobody => AskInv(q)
  BY <1>1, AskingKnown DEF SessionInv
<1>5. \A p \in asks' : p \in asks \/ (p = q /\ storage.token # Nobody)
  <2> HIDE DEF q
  <2>1. asks' = (asks \ {r}) \cup
          (IF r.as # Nobody /\ storage.token # Nobody /\ storage.key # NoKey
           THEN {q} ELSE {})
    BY DEF InitAnswered, q
  <2> QED BY <2>1
<1> HIDE DEF new, q
<1>6. \A p \in asks' : AskInv(p)
  BY <1>4, <1>5 DEF SessionInv, AsksInv
<1>7. TabsShape' /\ tabs'[r.tab] = new /\ \A s \in Tabs \ {r.tab} : tabs'[s] = tabs[s]
  BY <1>1, <1>2, <1>3 DEF SessionInv, TabsShape
<1>8. UNCHANGED <<roots, storage, apart, crossed>>
  BY DEF InitAnswered
<1> QED BY <1>2, <1>6, <1>7, <1>8, AsksKeep

\* What an answer writes to a tab and to the storage.
LEMMA UserField ==
  ASSUME NEW x, TabShape(x), NEW u
  PROVE  LET y == [x EXCEPT !.user = u] IN
         TabShape(y) /\ y.page = x.page /\ y.token = x.token /\ y.key = x.key
  BY DEF TabShape

LEMMA TokenField ==
  ASSUME NEW x, TabShape(x), NEW u
  PROVE  LET y == [x EXCEPT !.token = u] IN
         TabShape(y) /\ y.page = x.page /\ y.token = u /\ y.key = x.key
  BY DEF TabShape

LEMMA KeyField ==
  ASSUME NEW x, TabShape(x), NEW k
  PROVE  LET y == [x EXCEPT !.key = k] IN
         TabShape(y) /\ y.page = x.page /\ y.token = x.token /\ y.key = k
  BY DEF TabShape

LEMMA PageField ==
  ASSUME NEW x, TabShape(x), NEW p
  PROVE  LET y == [x EXCEPT !.page = p] IN
         TabShape(y) /\ y.page = p /\ y.token = x.token /\ y.key = x.key
  BY DEF TabShape

LEMMA UserRefreshedKeeps ==
  ASSUME SessionInv, NEW r \in asks, UserRefreshed(r) PROVE SessionInv'
<1> DEFINE new == [tabs[r.tab] EXCEPT !.user = r.who]
           kept == [storage EXCEPT !.user = r.who]
<1>1. /\ r.tab \in Tabs /\ tabs[r.tab].page # "closed"
      /\ TabShape(tabs[r.tab]) /\ StorageShape(storage)
      /\ AskShape(r) /\ KnownCall(r)
      /\ storage.token = Nobody \/ storage.token \in roots
      /\ r.tab \notin apart =>
           tabs[r.tab].token = storage.token /\ tabs[r.tab].key = storage.key
  BY AnsweredTab
<1>2. TabShape(new) /\ new.page = tabs[r.tab].page /\ new.token = tabs[r.tab].token
      /\ new.key = tabs[r.tab].key
  BY <1>1, UserField, Zenon
<1>3. StorageShape(kept) /\ kept.token = storage.token /\ kept.key = storage.key
      /\ kept.user = r.who
  BY <1>1 DEF StorageShape
<1>4. /\ Write(r.tab, new, kept)
      /\ r.kind = "refresh" /\ r.answer = "ok"
      /\ crossed' = (crossed \/ storage.token # r.as)
      /\ asks' \subseteq asks /\ roots' = roots
  BY DEF UserRefreshed
<1> HIDE DEF new, kept
<1>5. crossed' \/ kept.user \in {Nobody, kept.token}
  <2>1. r.who = r.as
    BY <1>1, <1>4 DEF KnownCall
  <2> QED BY <2>1, <1>3, <1>4
<1>6. \A p \in asks' : p \in asks
  BY <1>4
<1> QED BY <1>1, <1>2, <1>3, <1>4, <1>5, <1>6, WriteKeeps

LEMMA KeyVerifiedKeeps ==
  ASSUME SessionInv, NEW r \in asks, KeyVerified(r) PROVE SessionInv'
<1> DEFINE page == CASE r.from = "login" /\ r.needsSetup -> "setup"
                     [] r.from = "setup" /\ ~r.needsSetup -> "login"
                     [] OTHER -> tabs[r.tab].page
           n1 == [tabs[r.tab] EXCEPT !.key = r.key]
           n2 == [n1 EXCEPT !.needsSetup = r.needsSetup]
           new == [n2 EXCEPT !.page = page]
           kept == [storage EXCEPT !.key = r.key]
<1>1. /\ r.tab \in Tabs /\ tabs[r.tab].page # "closed"
      /\ TabShape(tabs[r.tab]) /\ StorageShape(storage)
      /\ storage.token = Nobody \/ storage.token \in roots
      /\ crossed \/ storage.user \in {Nobody, storage.token}
      /\ r.tab \notin apart => tabs[r.tab].token = storage.token
  BY AnsweredTab
<1>2. page # "closed"
  BY <1>1
<1>3. /\ Write(r.tab, new, kept)
      /\ asks' = Left(r.tab, page, asks \ {r})
      /\ roots' = roots /\ crossed' = crossed
  BY Zenon DEF KeyVerified
<1>4. StorageShape(kept) /\ kept.token = storage.token /\ kept.key = r.key
      /\ kept.user = storage.user
  BY <1>1 DEF StorageShape
<1>5. TabShape(n1) /\ n1.token = tabs[r.tab].token /\ n1.key = r.key
  BY <1>1, KeyField, Zenon
<1>6. TabShape(n2) /\ n2.token = tabs[r.tab].token /\ n2.key = r.key
  <2> HIDE DEF n1
  <2> QED BY <1>5, SetupField, Zenon
<1>7. TabShape(new) /\ new.page = page /\ new.token = tabs[r.tab].token
      /\ new.key = r.key
  <2> HIDE DEF n2, page
  <2> QED BY <1>6, PageField, Zenon
<1> HIDE DEF new, kept, page
<1>8. \A p \in asks' : \E q \in asks : \E h : p = [q EXCEPT !.here = h]
  BY <1>3, LeftBehind
<1> QED BY <1>1, <1>2, <1>3, <1>4, <1>7, <1>8, WriteKeeps

\* Who is signed in as an account that exists is known to tab and storage.
LEMMA SignInShapes ==
  ASSUME NEW t \in Tabs, TabShape(tabs[t]), StorageShape(storage), NEW who
  PROVE  LET new  == [tabs[t] EXCEPT !.token = who, !.user = who]
             kept == [storage EXCEPT !.token = who, !.user = who]
         IN /\ TabShape(new) /\ new.page = tabs[t].page
            /\ new.token = who /\ new.key = tabs[t].key
            /\ StorageShape(kept) /\ kept.token = who /\ kept.user = who
            /\ kept.key = storage.key
<1> DEFINE x1 == [tabs[t] EXCEPT !.token = who]
           x2 == [x1 EXCEPT !.user = who]
           s1 == [storage EXCEPT !.token = who]
           s2 == [s1 EXCEPT !.user = who]
<1>1. TabShape(x1) /\ x1.page = tabs[t].page /\ x1.token = who /\ x1.key = tabs[t].key
  BY TokenField, Zenon
<1>2. TabShape(x2) /\ x2.page = tabs[t].page /\ x2.token = who /\ x2.key = tabs[t].key
  <2> HIDE DEF x1
  <2> QED BY <1>1 DEF TabShape
<1>3. StorageShape(s1) /\ s1.token = who /\ s1.key = storage.key
  BY DEF StorageShape
<1>4. StorageShape(s2) /\ s2.token = who /\ s2.user = who /\ s2.key = storage.key
  <2> HIDE DEF s1
  <2> QED BY <1>3 DEF StorageShape
<1> QED BY <1>2, <1>4, Zenon

LEMMA LoggedInKeeps ==
  ASSUME SessionInv, NEW r \in asks, LoggedIn(r) PROVE SessionInv'
<1> DEFINE kept == [storage EXCEPT !.token = r.who, !.user = r.who]
           signed == [tabs[r.tab] EXCEPT !.token = r.who, !.user = r.who]
           page == Admitted("app", kept)
           new == [signed EXCEPT !.page = page]
<1>1. /\ r.tab \in Tabs /\ tabs[r.tab].page # "closed"
      /\ TabShape(tabs[r.tab]) /\ StorageShape(storage)
      /\ KnownCall(r)
      /\ r.tab \notin apart => tabs[r.tab].key = storage.key
  BY AnsweredTab
<1>2. page # "closed"
  BY DEF Admitted
<1>3. /\ Write(r.tab, new, kept)
      /\ asks' = Left(r.tab, page, asks \ {r})
      /\ r.kind = "login" /\ r.answer = "ok"
      /\ roots' = roots /\ crossed' = crossed
  BY Zenon DEF LoggedIn
<1>4. /\ TabShape(signed) /\ signed.token = r.who /\ signed.key = tabs[r.tab].key
      /\ StorageShape(kept) /\ kept.token = r.who /\ kept.user = r.who
      /\ kept.key = storage.key
  BY <1>1, SignInShapes, Zenon
<1>5. TabShape(new) /\ new.page = page /\ new.token = r.who /\ new.key = tabs[r.tab].key
  <2> HIDE DEF signed, page
  <2> QED BY <1>4 DEF TabShape
<1>6. kept.token \in roots
  BY <1>1, <1>3, <1>4 DEF KnownCall
<1> HIDE DEF new, kept, page, signed
<1>7. \A p \in asks' : \E q \in asks : \E h : p = [q EXCEPT !.here = h]
  BY <1>3, LeftBehind
<1> QED BY <1>1, <1>2, <1>3, <1>4, <1>5, <1>6, <1>7, WriteKeeps

LEMMA LoginFailedKeeps ==
  ASSUME SessionInv, NEW r \in asks, LoginFailed(r) PROVE SessionInv'
<1> DEFINE kept == WithoutUser(storage)
           out == WithoutUser(tabs[r.tab])
           page == IF r.from = "setup" THEN "login" ELSE tabs[r.tab].page
           new == [out EXCEPT !.page = page]
<1>1. /\ r.tab \in Tabs /\ tabs[r.tab].page # "closed"
      /\ TabShape(tabs[r.tab]) /\ StorageShape(storage)
      /\ r.tab \notin apart => tabs[r.tab].key = storage.key
  BY AnsweredTab
<1>2. page # "closed"
  BY <1>1
<1>3. /\ Write(r.tab, new, kept)
      /\ asks' = Left(r.tab, page, asks \ {r})
      /\ roots' = roots /\ crossed' = crossed
  BY Zenon DEF LoginFailed
<1>4. /\ TabShape(out) /\ out.token = Nobody /\ out.key = tabs[r.tab].key
      /\ StorageShape(kept) /\ kept.token = Nobody
      /\ kept.user = Nobody /\ kept.key = storage.key
  BY <1>1, WithoutUserShapes
<1>5. TabShape(new) /\ new.page = page /\ new.token = Nobody /\ new.key = tabs[r.tab].key
  <2> HIDE DEF out, page
  <2> QED BY <1>4, PageField, Zenon
<1> HIDE DEF new, kept, page, out
<1>6. \A p \in asks' : \E q \in asks : \E h : p = [q EXCEPT !.here = h]
  BY <1>3, LeftBehind
<1> QED BY <1>1, <1>2, <1>3, <1>4, <1>5, <1>6, WriteKeeps

LEMMA RootAccountSavedKeeps ==
  ASSUME SessionInv, NEW r \in asks, RootAccountSaved(r) PROVE SessionInv'
<1> DEFINE kept == [storage EXCEPT !.token = r.who, !.user = r.who]
           new == [tabs[r.tab] EXCEPT !.token = r.who, !.user = r.who]
<1>1. /\ r.tab \in Tabs /\ tabs[r.tab].page # "closed"
      /\ TabShape(tabs[r.tab]) /\ StorageShape(storage)
      /\ KnownCall(r)
      /\ r.tab \notin apart => tabs[r.tab].key = storage.key
  BY AnsweredTab
<1>2. /\ Write(r.tab, new, kept)
      /\ asks' \subseteq asks
      /\ r.kind = "save" /\ r.answer = "ok"
      /\ roots' = roots /\ crossed' = crossed
  BY DEF RootAccountSaved
<1>3. /\ TabShape(new) /\ new.page = tabs[r.tab].page
      /\ new.token = r.who /\ new.key = tabs[r.tab].key
      /\ StorageShape(kept) /\ kept.token = r.who /\ kept.user = r.who
      /\ kept.key = storage.key
  BY <1>1, SignInShapes, Zenon
<1>4. kept.token \in roots
  BY <1>1, <1>2, <1>3 DEF KnownCall
<1> HIDE DEF new, kept
<1>5. \A p \in asks' : p \in asks
  BY <1>2
<1> QED BY <1>1, <1>2, <1>3, <1>4, <1>5, WriteKeeps

\* The login of a new account is sent with what was kept of the form.
LEMMA SetupAnsweredKeeps ==
  ASSUME SessionInv, NEW r \in asks, SetupAnswered(r) PROVE SessionInv'
<1> DEFINE kept == [storage EXCEPT !.key = r.own]
           new == [tabs[r.tab] EXCEPT !.key = r.own]
           login == Asking(r.tab, "login", r.own, r.who)
           sent == [login EXCEPT !.here = r.here]
           q == [sent EXCEPT !.from = r.from]
<1>1. /\ r.tab \in Tabs /\ tabs[r.tab].page # "closed"
      /\ TabShape(tabs[r.tab]) /\ StorageShape(storage)
      /\ KnownCall(r)
      /\ storage.token = Nobody \/ storage.token \in roots
      /\ crossed \/ storage.user \in {Nobody, storage.token}
      /\ r.tab \notin apart => tabs[r.tab].token = storage.token
  BY AnsweredTab
<1>2. /\ Write(r.tab, new, kept)
      /\ asks' = (asks \ {r}) \cup {q}
      /\ r.kind = "setup" /\ roots' = roots /\ crossed' = crossed
  BY Zenon DEF SetupAnswered
<1>3. AskInv(login) /\ login.tab = r.tab
  <2>1. AskInv(login)
    BY <1>1, <1>2, AskingKnown DEF SessionInv, KnownCall
  <2> QED BY <2>1 DEF Asking
<1>4. AskInv(q) /\ q.tab = r.tab
  <2> HIDE DEF login
  <2>1. AskInv(sent) /\ AskShape(sent) /\ sent.tab = r.tab
    <3>1. AskShape(login)
      BY <1>3 DEF AskInv
    <3> QED BY <1>3, <3>1, HereKeeps, HereFields, Zenon DEF AskInv
  <2> HIDE DEF sent
  <2> QED BY <2>1, FromKeeps
<1>5. TabShape(new) /\ new.page = tabs[r.tab].page /\ new.token = tabs[r.tab].token
      /\ new.key = r.own
  BY <1>1, KeyField, Zenon
<1>6. StorageShape(kept) /\ kept.token = storage.token /\ kept.key = r.own
      /\ kept.user = storage.user
  BY <1>1 DEF StorageShape
<1> HIDE DEF new, kept, sent, q
<1>7. \A p \in asks' : p \in asks \/ (AskShape(p) /\ KnownCall(p) /\ p.tab = r.tab)
  BY <1>2, <1>4 DEF AskInv
<1> QED BY <1>1, <1>2, <1>5, <1>6, <1>7, WriteKeeps

LEMMA AnswerKeeps ==
  ASSUME SessionInv, NEW r \in asks,
         \/ CarryAsk(r) \/ LoseAsk(r) \/ InitAnswered(r) \/ InitFailed(r)
         \/ UserRefreshed(r) \/ KeyVerified(r) \/ LoggedIn(r) \/ LoginFailed(r)
         \/ SetupAnswered(r) \/ RootAccountSaved(r) \/ OtherAskFailed(r)
  PROVE  SessionInv'
<1>1. r.tab \in Tabs /\ tabs[r.tab].page # "closed"
  BY AnsweredTab
<1>2. CASE InitFailed(r)
  <2>1. Write(r.tab, Cleared(r.tab), SignedOut) /\ asks' \subseteq asks
        /\ UNCHANGED <<roots, crossed>>
    BY <1>2 DEF InitFailed
  <2> QED BY <2>1, <1>1, SignOutKeeps
<1>3. CASE OtherAskFailed(r)
  <2>1. asks' \subseteq asks /\ UNCHANGED <<roots, storage, tabs, apart, crossed>>
    BY <1>3 DEF OtherAskFailed
  <2>2. TabsShape' /\ \A p \in asks' : AskInv(p)
    BY <2>1 DEF SessionInv, TabsShape, AsksInv
  <2> QED BY <2>1, <2>2, AsksKeep
<1> QED BY <1>2, <1>3, CarryAskKeeps, LoseAskKeeps, InitAnsweredKeeps,
           UserRefreshedKeeps, KeyVerifiedKeeps, LoggedInKeeps, LoginFailedKeeps,
           SetupAnsweredKeeps, RootAccountSavedKeeps

-----------------------------------------------------------------------------

\* Storage, tabs and accounts agree in every state: the user kept is the one of
\* the token (AuthContext.tsx refreshUser, adminLogin, logout), and a tab that no
\* other tab wrote behind knows the token and the key its requests are sent with.
THEOREM SessionAlwaysAgrees == AdminSessionSpec => []SessionAgrees
<1>1. AdminInit => SessionInv
  <2> SUFFICES ASSUME AdminInit PROVE SessionInv
    OBVIOUS
  <2>1. TabsShape
    BY DEF AdminInit, TabsShape, TabShape
  <2>2. AccountsInv /\ UserIsTokens
    <3>1. CASE roots = {} /\ storage = SignedOut
      BY <3>1 DEF AccountsInv, UserIsTokens, SignedOut, StorageShape
    <3>2. CASE roots = Accounts /\ storage = SignedOut
      BY <3>2 DEF AccountsInv, UserIsTokens, SignedOut, StorageShape
    <3>3. CASE roots = Accounts
               /\ storage = [token |-> First, key |-> masterKey, user |-> First]
      <4>1. First \in roots
        BY <3>3, AdminSessionAssumption DEF First
      <4> QED BY <3>3, <4>1 DEF AccountsInv, UserIsTokens, StorageShape
    <3> QED BY <3>1, <3>2, <3>3 DEF AdminInit
  <2>3. AsksInv /\ TabsKnowStorage
    BY DEF AdminInit, AsksInv, TabsKnowStorage
  <2> QED BY <2>1, <2>2, <2>3 DEF SessionInv
<1>2. SessionInv /\ [AdminNext]_adminVars => SessionInv'
  <2> SUFFICES ASSUME SessionInv, [AdminNext]_adminVars PROVE SessionInv'
    OBVIOUS
  <2>1. CASE \E t \in Tabs : Visit(t)
    BY <2>1, VisitKeeps
  <2>2. CASE \E key \in MasterKeys : RotateKey(key)
    <3>1. UNCHANGED <<roots, storage, tabs, asks, apart, crossed>>
      BY <2>2 DEF RotateKey
    <3>2. TabsShape' /\ \A p \in asks' : AskInv(p)
      BY <3>1 DEF SessionInv, TabsShape, AsksInv
    <3> QED BY <3>1, <3>2, AsksKeep
  <2>3. CASE \E r \in asks :
               \/ CarryAsk(r) \/ LoseAsk(r) \/ InitAnswered(r) \/ InitFailed(r)
               \/ UserRefreshed(r) \/ KeyVerified(r) \/ LoggedIn(r) \/ LoginFailed(r)
               \/ SetupAnswered(r) \/ RootAccountSaved(r) \/ OtherAskFailed(r)
    BY <2>3, AnswerKeeps
  <2>4. CASE UNCHANGED adminVars
    <3>1. UNCHANGED <<roots, storage, tabs, asks, apart, crossed>>
      BY <2>4 DEF adminVars
    <3>2. TabsShape' /\ \A p \in asks' : AskInv(p)
      BY <3>1 DEF SessionInv, TabsShape, AsksInv
    <3> QED BY <3>1, <3>2, AsksKeep
  <2> QED BY <2>1, <2>2, <2>3, <2>4 DEF AdminNext
<1>3. SessionInv => SessionAgrees
  BY DEF SessionInv, SessionAgrees
<1> QED BY <1>1, <1>2, <1>3, PTL DEF AdminSessionSpec

-----------------------------------------------------------------------------
(***************************************************************************)
(* Proof that the page of the feature flags says of a flag what was done   *)
(* to that flag, for any keys and bounds.                                  *)
(*                                                                         *)
(* A write that a list misses is one whose answer is still to come, and    *)
(* that answer asks for the list again (MissesInv); an evaluation that is  *)
(* under way is of the flag selected, unless "changed" says that it may    *)
(* not be (PlaygroundInv).                                                 *)
(***************************************************************************)

\* The call has written its flag, which the page does not know yet.
HasWritten(c) == c.answer = "ok" /\ c.kind # "eval"

\* What the list misses is about to be answered for, or was lost.
MissesKnown(list) ==
  \A k \in list.misses : k \in doubtful \/ \E c \in flagCalls : HasWritten(c) /\ c.key = k

FlagListShape(list) == list = [of |-> list.of, misses |-> list.misses]

FlagListsShape ==
  /\ FlagListShape(flags)
  /\ \/ flagsAsked \in {NotAsked, AskedFlags}
     \/ /\ flagsAsked = [state |-> "answered", list |-> flagsAsked.list]
        /\ FlagListShape(flagsAsked.list)

FlagShapes ==
  /\ FlagListsShape
  /\ \A c \in flagCalls : c = [kind |-> c.kind, key |-> c.key, value |-> c.value,
                               answer |-> c.answer, nr |-> c.nr]
  /\ playground = [open |-> playground.open, key |-> playground.key,
                   result |-> playground.result, error |-> playground.error,
                   changed |-> playground.changed]

MissesInv ==
  /\ flagsAsked = NotAsked => MissesKnown(flags)
  /\ flagsAsked.state = "answered" => MissesKnown(flagsAsked.list)

PlaygroundInv ==
  playground.open /\ ~playground.changed =>
    /\ playground.result \in {NoFlag, playground.key}
    /\ \A c \in flagCalls : c.kind = "eval" => c.key = playground.key

FlagsInv == FlagShapes /\ MissesInv /\ PlaygroundInv

\* The steps by which a call begins.
Begins ==
  \/ CreateFlag \/ ConfirmDeleteFlag \/ \E k \in FlagKeys : HandleToggle(k)
  \/ \E json \in BOOLEAN : RunEvaluation(json)

LEMMA BeginsDoes ==
  ASSUME Begins
  PROVE  /\ flagCalls \subseteq flagCalls'
         /\ \A c \in flagCalls' \ flagCalls :
              /\ c = [kind |-> c.kind, key |-> c.key, value |-> c.value, answer |-> c.answer,
                      nr |-> c.nr]
              /\ c.kind = "eval" => RunEvaluation(TRUE) /\ c.key = playground.key
         /\ UNCHANGED <<flags, flagsAsked, doubtful>>
BY DEF Begins, CreateFlag, ConfirmDeleteFlag, HandleToggle, RunEvaluation, FlagCall

LEMMA FlagShapesStep ==
  ASSUME FlagShapes, [FlagsNext]_flagVars
  PROVE  FlagShapes'
<1>1. FlagListsShape'
  <2>1. CASE UNCHANGED flags /\ flagsAsked' \in {flagsAsked, AskedFlags}
    BY <2>1 DEF FlagShapes, FlagListsShape, FlagListShape, NotAsked, AskedFlags, NoFlags
  <2>2. CASE ServeFlags
    BY <2>2 DEF ServeFlags, FlagShapes, FlagListsShape, FlagListShape
  <2>3. CASE FlagsListed
    BY <2>3 DEF FlagsListed, FlagShapes, FlagListsShape, FlagListShape, NotAsked, AskedFlags
  <2>4. ASSUME NEW list, FlagListShape(list), NEW k
        PROVE  FlagListShape(MissingFlag(list, k))
    BY <2>4 DEF MissingFlag, FlagListShape
  <2>5. ASSUME NEW c \in flagCalls, CarryFlagCall(c)
        PROVE  FlagListsShape'
    <3> DEFINE Missed(list) == MissingFlag(list, c.key)
    <3>1. \/ UNCHANGED <<flags, flagsAsked>>
          \/ /\ flags' = Missed(flags)
             /\ flagsAsked' = IF flagsAsked.state = "answered"
                              THEN [flagsAsked EXCEPT !.list = Missed(@)] ELSE flagsAsked
      BY <2>5 DEF CarryFlagCall
    <3>2. \A list : FlagListShape(list) => FlagListShape(Missed(list))
      BY <2>4
    <3> HIDE DEF Missed
    <3>3. CASE flagsAsked.state = "answered"
      <4>1. flagsAsked' \in {flagsAsked, [state |-> "answered", list |-> Missed(flagsAsked.list)]}
        BY <3>1, <3>3 DEF FlagShapes, FlagListsShape, NotAsked, AskedFlags
      <4> QED
        BY <3>1, <3>2, <3>3, <4>1 DEF FlagShapes, FlagListsShape, NotAsked, AskedFlags
    <3>4. CASE flagsAsked.state # "answered"
      BY <3>1, <3>2, <3>4 DEF FlagShapes, FlagListsShape
    <3> QED
      BY <3>3, <3>4
  <2>6. CASE Begins
    BY <2>1, <2>6, BeginsDoes
  <2> QED
    BY <2>1, <2>2, <2>3, <2>5, <2>6
       DEF FlagsNext, Begins, flagVars, OpenFlagForm, CloseFlagForm, FillFlagForm, AskDeleteFlag,
           ChooseTarget, OtherWritesFlag, OpenEvalDrawer, DismissDeleteFlag, CloseEvalDrawer,
           ApplyContextPreset, LoseFlagCall, FlagAnswered, FlagCallFailed, Evaluated, ListAgain
<1>3. \A c \in flagCalls' : c = [kind |-> c.kind, key |-> c.key, value |-> c.value,
                                 answer |-> c.answer, nr |-> c.nr]
  <2>1. CASE Begins
    BY <2>1, BeginsDoes DEF FlagShapes
  <2>2. CASE \E c \in flagCalls, a \in {"ok", "failed"} :
               flagCalls' = (flagCalls \ {c}) \cup {[c EXCEPT !.answer = a]}
    BY <2>2 DEF FlagShapes
  <2>3. CASE flagCalls' \subseteq flagCalls
    BY <2>3 DEF FlagShapes
  <2> QED
    BY <2>1, <2>2, <2>3
       DEF FlagsNext, Begins, flagVars, OpenFlagForm, CloseFlagForm, FillFlagForm, AskDeleteFlag,
           ChooseTarget, OtherWritesFlag, OpenEvalDrawer, DismissDeleteFlag, CloseEvalDrawer,
           ApplyContextPreset, CarryFlagCall, LoseFlagCall, FlagAnswered, FlagCallFailed,
           Evaluated, ServeFlags, FlagsListed
<1>4. playground' = [open |-> playground'.open, key |-> playground'.key,
                     result |-> playground'.result, error |-> playground'.error,
                     changed |-> playground'.changed]
  BY DEF FlagShapes, FlagsNext, flagVars, OpenFlagForm, CloseFlagForm, OtherTarget,
         CreateFlag, FillFlagForm, HandleToggle, AskDeleteFlag, ChooseTarget, OtherWritesFlag,
         OpenEvalDrawer, RunEvaluation, DismissDeleteFlag, ConfirmDeleteFlag, CloseEvalDrawer,
         ApplyContextPreset, CarryFlagCall, LoseFlagCall, FlagAnswered, FlagCallFailed,
         Evaluated, ServeFlags, FlagsListed, ClosedPlayground
<1> QED
  BY <1>1, <1>3, <1>4 DEF FlagShapes

\* A list whose misses are known stays so while no call is lost or ends.
LEMMA MissesStay ==
  ASSUME NEW list, MissesKnown(list), doubtful \subseteq doubtful',
         \A c \in flagCalls \ flagCalls' : HasWritten(c) => c.key \in doubtful'
  PROVE  MissesKnown(list)'
BY DEF MissesKnown, HasWritten

LEMMA MissesStep ==
  ASSUME FlagShapes, MissesInv, [FlagsNext]_flagVars
  PROVE  MissesInv'
<1>1. ASSUME UNCHANGED flags, flagsAsked' \in {flagsAsked, AskedFlags},
             doubtful \subseteq doubtful',
             \A c \in flagCalls \ flagCalls' : HasWritten(c) => c.key \in doubtful'
      PROVE  MissesInv'
  BY <1>1 DEF MissesInv, MissesKnown, HasWritten, NotAsked, AskedFlags
<1>2. CASE Begins
  BY <1>1, <1>2, BeginsDoes
<1>3. CASE ServeFlags
  BY <1>3 DEF ServeFlags, MissesInv, MissesKnown, NotAsked, AskedFlags
<1>4. CASE FlagsListed
  BY <1>4 DEF FlagsListed, MissesInv, MissesKnown, NotAsked
<1>5. ASSUME NEW c \in flagCalls, CarryFlagCall(c)
      PROVE  MissesInv'
  <2>1. c.answer = "none" /\ UNCHANGED doubtful
    BY <1>5 DEF CarryFlagCall
  <2>2. CASE FlagRefused(c) \/ c.kind = "eval"
    BY <1>1, <1>5, <2>1, <2>2 DEF CarryFlagCall, HasWritten
  <2>3. CASE ~(FlagRefused(c) \/ c.kind = "eval")
    <3> DEFINE d == [c EXCEPT !.answer = "ok"]
    <3>1. /\ flagCalls' = (flagCalls \ {c}) \cup {d}
          /\ flags' = MissingFlag(flags, c.key)
          /\ flagsAsked' = IF flagsAsked.state = "answered"
                           THEN [flagsAsked EXCEPT !.list = MissingFlag(@, c.key)]
                           ELSE flagsAsked
      BY <1>5, <2>3 DEF CarryFlagCall
    <3>2. HasWritten(d) /\ d.key = c.key
      BY <2>3 DEF FlagShapes, HasWritten
    <3>3. ASSUME NEW list, FlagListShape(list), MissesKnown(list)
          PROVE  MissesKnown(MissingFlag(list, c.key))'
      <4>1. MissingFlag(list, c.key).misses = list.misses \cup {c.key}
        BY <3>3 DEF MissingFlag, FlagListShape
      <4> HIDE DEF d
      <4>2. ASSUME NEW k \in list.misses
            PROVE  k \in doubtful' \/ \E e \in flagCalls' : HasWritten(e) /\ e.key = k
        BY <2>1, <3>1, <3>3 DEF MissesKnown, HasWritten
      <4> QED
        BY <3>1, <3>2, <4>1, <4>2 DEF MissesKnown
    <3> HIDE DEF d
    <3>4. CASE flagsAsked.state = "answered"
      <4> PICK list : list = flagsAsked.list
        OBVIOUS
      <4>1. /\ flagsAsked' = [state |-> "answered", list |-> MissingFlag(list, c.key)]
            /\ FlagListShape(list)
        BY <3>1, <3>4 DEF FlagShapes, FlagListsShape, NotAsked, AskedFlags
      <4>2. MissesKnown(MissingFlag(list, c.key))'
        BY <3>3, <3>4, <4>1 DEF MissesInv
      <4>3. flagsAsked'.list = MissingFlag(list, c.key) /\ flagsAsked' # NotAsked
        BY <4>1 DEF NotAsked
      <4> QED
        BY <4>2, <4>3 DEF MissesInv, MissesKnown
    <3>5. CASE flagsAsked.state # "answered"
      BY <3>1, <3>3, <3>5 DEF MissesInv, FlagShapes, FlagListsShape, MissesKnown
    <3> QED
      BY <3>4, <3>5
  <2> QED
    BY <2>2, <2>3
<1>6. ASSUME NEW c \in flagCalls, LoseFlagCall(c)
      PROVE  MissesInv'
  BY <1>1, <1>6 DEF LoseFlagCall, HasWritten
<1>7. ASSUME NEW c \in flagCalls, FlagAnswered(c)
      PROVE  MissesInv'
  BY <1>7 DEF FlagAnswered, ListAgain, MissesInv, NotAsked, AskedFlags
<1>8. ASSUME NEW c \in flagCalls, FlagCallFailed(c) \/ Evaluated(c)
      PROVE  MissesInv'
  BY <1>1, <1>8 DEF FlagCallFailed, Evaluated, HasWritten
<1>9. CASE UNCHANGED <<flags, flagCalls, doubtful>> /\ flagsAsked' \in {flagsAsked, AskedFlags}
  BY <1>1, <1>9
<1> QED
  BY <1>2, <1>3, <1>4, <1>5, <1>6, <1>7, <1>8, <1>9
     DEF FlagsNext, Begins, flagVars, OpenFlagForm, CloseFlagForm, FillFlagForm, AskDeleteFlag,
         ChooseTarget, OtherWritesFlag, OpenEvalDrawer, DismissDeleteFlag, CloseEvalDrawer,
         ApplyContextPreset

LEMMA PlaygroundStep ==
  ASSUME FlagShapes, PlaygroundInv, [FlagsNext]_flagVars
  PROVE  PlaygroundInv'
<1>1. ASSUME NEW k, playground' = [ClosedPlayground EXCEPT !.open = TRUE, !.key = k,
                                                           !.changed = PendingFlag("eval")]
                    \/ playground' = OtherTarget(k),
             UNCHANGED flagCalls
      PROVE  PlaygroundInv'
  <2>1. playground'.changed = PendingFlag("eval") /\ playground'.result = NoFlag
    BY <1>1 DEF ClosedPlayground, OtherTarget, FlagShapes
  <2> QED
    BY <1>1, <2>1 DEF PlaygroundInv, PendingFlag
<1>2. ASSUME playground'.open => playground.open,
             UNCHANGED <<playground.key, playground.result, playground.changed>>,
             \A c \in flagCalls' : c.kind = "eval" =>
               \E d \in flagCalls : d.kind = "eval" /\ d.key = c.key
      PROVE  PlaygroundInv'
  BY <1>2 DEF PlaygroundInv
<1>3. CASE Begins
  <2>1. /\ playground'.open = playground.open /\ playground'.key = playground.key
        /\ playground'.result = playground.result /\ playground'.changed = playground.changed
    BY <1>3 DEF Begins, CreateFlag, ConfirmDeleteFlag, HandleToggle, RunEvaluation, FlagShapes
  <2> QED
    BY <1>3, <2>1, BeginsDoes DEF PlaygroundInv
<1>4. ASSUME NEW c \in flagCalls, CarryFlagCall(c) \/ LoseFlagCall(c)
      PROVE  PlaygroundInv'
  <2>1. PICK a : flagCalls' = (flagCalls \ {c}) \cup {[c EXCEPT !.answer = a]}
    BY <1>4 DEF CarryFlagCall, LoseFlagCall
  <2>2. [c EXCEPT !.answer = a].kind = c.kind /\ [c EXCEPT !.answer = a].key = c.key
    BY DEF FlagShapes
  <2>3. \A d \in flagCalls' : d.kind = "eval" =>
          \E e \in flagCalls : e.kind = "eval" /\ e.key = d.key
    BY <2>1, <2>2
  <2>4. UNCHANGED playground
    BY <1>4 DEF CarryFlagCall, LoseFlagCall
  <2> QED
    BY <1>2, <2>3, <2>4
<1>5. ASSUME NEW c \in flagCalls, FlagAnswered(c) \/ FlagCallFailed(c)
      PROVE  PlaygroundInv'
  BY <1>5 DEF FlagAnswered, FlagCallFailed, PlaygroundInv
<1>6. ASSUME NEW c \in flagCalls, Evaluated(c)
      PROVE  PlaygroundInv'
  <2>1. /\ playground'.open = playground.open /\ playground'.key = playground.key
        /\ playground'.result = c.key /\ playground'.changed = playground.changed
    BY <1>6 DEF Evaluated, FlagShapes
  <2> QED
    BY <1>6, <2>1 DEF Evaluated, PlaygroundInv
<1>7. CASE CloseEvalDrawer \/ ApplyContextPreset
  <2>1. /\ playground'.open => playground.open
        /\ playground'.key = playground.key /\ playground'.result = playground.result
        /\ playground'.changed = playground.changed /\ UNCHANGED flagCalls
    BY <1>7 DEF CloseEvalDrawer, ApplyContextPreset, FlagShapes
  <2> QED
    BY <1>2, <2>1
<1>8. CASE UNCHANGED <<playground, flagCalls>>
  BY <1>8 DEF PlaygroundInv
<1> QED
  BY <1>1, <1>3, <1>4, <1>5, <1>6, <1>7, <1>8
     DEF FlagsNext, Begins, flagVars, OpenFlagForm, CloseFlagForm, FillFlagForm, AskDeleteFlag,
         ChooseTarget, OtherWritesFlag, OpenEvalDrawer, DismissDeleteFlag, ServeFlags,
         FlagsListed

\* The list of flags lacks no write of this page that was answered, unless the
\* answer was lost or the list is being asked for again, and the playground shows
\* the result of the flag above it, unless another was chosen while one was
\* evaluated (routes/_auth/flags.tsx).
THEOREM FlagsAlwaysAsDone == FlagsSpec => []FlagsAsDone
<1>1. FlagsInit => FlagsInv
  <2> SUFFICES ASSUME FlagsInit PROVE FlagsInv
    OBVIOUS
  <2>1. /\ flags = NoFlags /\ flagsAsked = AskedFlags /\ flagCalls = {}
        /\ playground = ClosedPlayground
    BY DEF FlagsInit
  <2> QED
    BY <2>1 DEF FlagsInv, FlagShapes, FlagListsShape, FlagListShape, MissesInv, PlaygroundInv,
                NoFlags, NotAsked, AskedFlags, ClosedPlayground
<1>2. FlagsInv /\ [FlagsNext]_flagVars => FlagsInv'
  BY FlagShapesStep, MissesStep, PlaygroundStep DEF FlagsInv
<1>3. FlagsInv => FlagsAsDone
  BY DEF FlagsInv, MissesInv, MissesKnown, PlaygroundInv, FlagsAsDone, SwitchesShowWrites,
         ResultOfItsFlag
<1> QED BY <1>1, <1>2, <1>3, PTL DEF FlagsSpec

-----------------------------------------------------------------------------
(***************************************************************************)
(* Proof that the log of the page of live events shows the stream of what  *)
(* is selected, frame by frame and newest first, for any collections, cuts *)
(* and bounds.                                                             *)
(*                                                                         *)
(* Only the loop that is alive reads (LoopsInv).  What it has in its       *)
(* buffer and on its way, one after the other, are whole frames, each of   *)
(* an event later than the one before and than all in the log (ReadInv),   *)
(* so that what a read completes comes off the front of them.              *)
(***************************************************************************)

Topic == Watchable \cup {Everything}

FirstHalf == Nat \X {1} \X Watchable
SecondHalf(h) == <<h[1], 2, h[3]>>
HalfFrames == Nat \X {1, 2} \X Watchable

ErrorEntry(w) == [error |-> TRUE, first |-> <<0, 1>>, second |-> <<0, 2>>, under |-> w]
FrameEntry(h, w) == [error |-> FALSE, first |-> h, second |-> SecondHalf(h), under |-> w]

Entries ==
  {ErrorEntry(w) : w \in Topic}
    \cup {FrameEntry(x[1], x[2]) :
            x \in {y \in FirstHalf \X Topic : y[2] \in {Everything, y[1][3]}}}

IsFrame(e) == ~e.error
Nr(e) == e.first[1]

\* Whole frames and errors, newest first.
IsLog(log) ==
  /\ log \in Seq(Entries)
  /\ \A i, j \in DOMAIN log :
       i < j /\ IsFrame(log[i]) /\ IsFrame(log[j]) => Nr(log[j]) < Nr(log[i])

\* All in the log is earlier than nr.
LogBefore(log, nr) == \A i \in DOMAIN log : IsFrame(log[i]) => Nr(log[i]) < nr

LoopShape(l) ==
  l = [id |-> l.id, topic |-> l.topic, token |-> l.token, active |-> l.active, at |-> l.at,
       transit |-> l.transit, buffer |-> l.buffer]

\* There is one loop that is alive, if any, for what is selected, and only it reads.
LoopsInv ==
  /\ isConnected \in BOOLEAN /\ watched \in Topic
  /\ \A l \in loops : LoopShape(l) /\ l.active \in BOOLEAN
  /\ \A l, m \in loops : l.active /\ m.active => l = m
  /\ isConnected <=> \E l \in loops : l.active
  /\ \A l \in loops : l.active => l.topic = watched
  /\ \A l \in loops : l.at = "read" => l.active

\* The frames in s are whole and of the topic, and each is later than the one before.
Frames(s, topic) ==
  /\ s \in Seq(HalfFrames)
  /\ \E n \in Nat :
       /\ Len(s) = 2 * n
       /\ \A i \in 1..n : /\ s[2 * i - 1] \in FirstHalf
                          /\ s[2 * i] = SecondHalf(s[2 * i - 1])
                          /\ topic \in {Everything, s[2 * i - 1][3]}
       /\ \A i, j \in 1..n : i < j => s[2 * i - 1][1] < s[2 * j - 1][1]

\* What is in s has happened by now, and later than what is in the log.
Later(s, log, now) == \A i \in 1..Len(s) : s[i][1] <= now /\ LogBefore(log, s[i][1])

Coming(l) == l.buffer \o l.transit

ReadInv ==
  \A l \in loops : l.at = "read" =>
    /\ l.buffer \in Seq(HalfFrames) /\ l.transit \in Seq(HalfFrames)
    /\ Frames(Coming(l), l.topic) /\ Later(Coming(l), events, happened)

LogInv == IsLog(events) /\ LogBefore(events, happened + 1)

StreamInv == happened \in Nat /\ LoopsInv /\ LogInv /\ ReadInv

-----------------------------------------------------------------------------
(* The loops *)

LEMMA BecomeLoops ==
  ASSUME LoopsInv, NEW l \in loops, NEW new, Become(l, new), LoopShape(new),
         new.active = l.active, new.topic = l.topic, new.at = "read" => l.active,
         UNCHANGED <<isConnected, watched>>
  PROVE  LoopsInv'
<1>1. \A m \in loops' : m = new \/ m \in loops \ {l}
  BY DEF Become
<1>2. new \in loops' /\ loops \ {l} \subseteq loops'
  BY DEF Become
<1>3. \A m \in loops' : LoopShape(m) /\ m.active \in BOOLEAN
  BY <1>1 DEF LoopsInv
<1>4. \A m, n \in loops' : m.active /\ n.active => m = n
  BY <1>1 DEF LoopsInv
<1>5. isConnected' <=> \E m \in loops' : m.active
  BY <1>1, <1>2 DEF LoopsInv
<1>6. \A m \in loops' : (m.active => m.topic = watched') /\ (m.at = "read" => m.active)
  BY <1>1 DEF LoopsInv
<1> QED
  BY <1>3, <1>4, <1>5, <1>6 DEF LoopsInv, LoopShape

LEMMA ResubscribeLoops ==
  ASSUME LoopsInv, NEW topic \in Topic, NEW connected \in BOOLEAN,
         Resubscribe(topic, connected), watched' = topic, isConnected' = connected
  PROVE  LoopsInv' /\ \A l \in loops' : l.at # "read"
<1>1. \A l \in loops' : \/ ~l.active /\ l.active \in BOOLEAN /\ LoopShape(l) /\ l.at = "pause"
                        \/ connected /\ l = Loop(topic)
  <2> SUFFICES ASSUME NEW l \in loops', l \in Unsubscribed
               PROVE  l.active = FALSE /\ LoopShape(l) /\ l.at = "pause"
    BY DEF Resubscribe
  <2>1. PICK m \in loops : m.at = "pause" /\ l = [m EXCEPT !.active = FALSE]
    BY DEF Unsubscribed
  <2>2. LoopShape(m)
    BY DEF LoopsInv
  <2>3. l = [id |-> m.id, topic |-> m.topic, token |-> m.token, active |-> FALSE, at |-> m.at,
             transit |-> m.transit, buffer |-> m.buffer]
    BY <2>1, <2>2 DEF LoopShape
  <2> QED
    BY <2>1, <2>3 DEF LoopShape
<1>2. connected => Loop(topic) \in loops'
  BY DEF Resubscribe
<1>3. /\ Loop(topic).active = TRUE /\ Loop(topic).topic = topic /\ Loop(topic).at = "connect"
      /\ LoopShape(Loop(topic))
  BY DEF Loop, LoopShape
<1>4. \A l \in loops' : LoopShape(l) /\ l.active \in BOOLEAN /\ l.at # "read"
  BY <1>1, <1>3
<1>5. \A l, m \in loops' : l.active /\ m.active => l = m
  BY <1>1
<1>6. isConnected' <=> \E l \in loops' : l.active
  BY <1>1, <1>2, <1>3
<1>7. \A l \in loops' : l.active => l.topic = watched'
  BY <1>1, <1>3
<1> QED
  BY <1>4, <1>5, <1>6, <1>7 DEF LoopsInv, LoopShape

\* A step that changes each loop by itself.
LEMMA EachLoops ==
  ASSUME LoopsInv, NEW f, loops' = {f[l] : l \in loops}, UNCHANGED <<isConnected, watched>>,
         \A l \in loops : /\ LoopShape(f[l]) /\ f[l].active = l.active /\ f[l].topic = l.topic
                          /\ f[l].at = "read" => l.at = "read"
  PROVE  LoopsInv'
<1>1. \A m \in loops' : \E l \in loops : m = f[l]
  OBVIOUS
<1>2. \A m \in loops' : LoopShape(m) /\ m.active \in BOOLEAN
  BY <1>1 DEF LoopsInv
<1>3. \A m, n \in loops' : m.active /\ n.active => m = n
  BY <1>1 DEF LoopsInv
<1>4. isConnected' <=> \E m \in loops' : m.active
  BY <1>1 DEF LoopsInv
<1>5. \A m \in loops' : (m.active => m.topic = watched') /\ (m.at = "read" => m.active)
  BY <1>1 DEF LoopsInv
<1> QED
  BY <1>2, <1>3, <1>4, <1>5 DEF LoopsInv, LoopShape

-----------------------------------------------------------------------------
(* The log *)

LEMMA KeptLog ==
  ASSUME NEW log, IsLog(log)
  PROVE  /\ IsLog(Kept(log))
         /\ \A nr : LogBefore(log, nr) => LogBefore(Kept(log), nr)
<1> DEFINE n == IF Len(log) < LogLimit THEN Len(log) ELSE LogLimit
<1>1. n \in Nat /\ n <= Len(log)
  BY StreamAssumption DEF IsLog
<1> HIDE DEF n
<1>2. /\ SubSeq(log, 1, n) \in Seq(Entries) /\ DOMAIN SubSeq(log, 1, n) = 1..n
      /\ \A i \in 1..n : SubSeq(log, 1, n)[i] = log[i]
  BY <1>1 DEF IsLog
<1>3. 1..n \subseteq DOMAIN log
  BY <1>1 DEF IsLog
<1> QED
  BY <1>2, <1>3 DEF IsLog, LogBefore, Kept, n

LEMMA JoinedLog ==
  ASSUME NEW a, NEW b, IsLog(a), IsLog(b),
         \A i \in DOMAIN a : IsFrame(a[i]) => LogBefore(b, Nr(a[i]))
  PROVE  /\ IsLog(a \o b)
         /\ \A nr : LogBefore(a, nr) /\ LogBefore(b, nr) => LogBefore(a \o b, nr)
<1>1. /\ a \in Seq(Entries) /\ b \in Seq(Entries) /\ Len(a) \in Nat /\ Len(b) \in Nat
      /\ DOMAIN a = 1..Len(a) /\ DOMAIN b = 1..Len(b)
  BY DEF IsLog
<1>2. /\ a \o b \in Seq(Entries) /\ DOMAIN (a \o b) = 1..(Len(a) + Len(b))
      /\ \A i \in 1..Len(a) : (a \o b)[i] = a[i]
      /\ \A i \in (Len(a) + 1)..(Len(a) + Len(b)) :
           (a \o b)[i] = b[i - Len(a)] /\ i - Len(a) \in 1..Len(b)
  BY <1>1
<1>3. ASSUME NEW i \in DOMAIN (a \o b), NEW j \in DOMAIN (a \o b), i < j,
             IsFrame((a \o b)[i]), IsFrame((a \o b)[j])
      PROVE  Nr((a \o b)[j]) < Nr((a \o b)[i])
  <2>1. CASE j <= Len(a)
    <3>1. i \in 1..Len(a) /\ j \in 1..Len(a)
      BY <1>1, <1>2, <1>3, <2>1
    <3> QED
      BY <1>1, <1>2, <1>3, <3>1 DEF IsLog
  <2>2. CASE i <= Len(a) /\ j > Len(a)
    <3>1. i \in 1..Len(a) /\ j \in (Len(a) + 1)..(Len(a) + Len(b))
      BY <1>1, <1>2, <1>3, <2>2
    <3> QED
      BY <1>1, <1>2, <1>3, <3>1 DEF LogBefore
  <2>3. CASE i > Len(a)
    <3>1. /\ i \in (Len(a) + 1)..(Len(a) + Len(b)) /\ j \in (Len(a) + 1)..(Len(a) + Len(b))
          /\ i - Len(a) < j - Len(a)
      BY <1>1, <1>2, <1>3, <2>3
    <3> QED
      BY <1>1, <1>2, <1>3, <3>1 DEF IsLog
  <2> QED
    BY <1>1, <1>2, <2>1, <2>2, <2>3
<1>4. ASSUME NEW nr, LogBefore(a, nr), LogBefore(b, nr)
      PROVE  LogBefore(a \o b, nr)
  <2> SUFFICES ASSUME NEW i \in DOMAIN (a \o b), IsFrame((a \o b)[i])
               PROVE  Nr((a \o b)[i]) < nr
    BY DEF LogBefore
  <2>1. i \in 1..Len(a) \/ i \in (Len(a) + 1)..(Len(a) + Len(b))
    BY <1>1, <1>2
  <2> QED
    BY <1>1, <1>2, <1>4, <2>1 DEF LogBefore
<1> QED
  BY <1>2, <1>3, <1>4 DEF IsLog

LEMMA ErrorLog ==
  ASSUME LogInv, LoopsInv, Complain
  PROVE  /\ IsLog(events')
         /\ \A nr : LogBefore(events, nr) => LogBefore(events', nr)
<1> DEFINE a == <<ErrorEntry(watched)>>
<1>1. events' = Kept(a \o events)
  BY DEF Complain, ErrorEntry
<1>2. /\ a \in Seq(Entries) /\ DOMAIN a = {1} /\ a[1] = ErrorEntry(watched)
  BY DEF LoopsInv, Entries
<1>3. ~IsFrame(a[1])
  BY <1>2 DEF ErrorEntry, IsFrame
<1> HIDE DEF a
<1>4. IsLog(a) /\ \A nr : LogBefore(a, nr)
  BY <1>2, <1>3 DEF IsLog, LogBefore
<1> QED
  BY <1>1, <1>2, <1>3, <1>4, KeptLog, JoinedLog DEF LogInv

-----------------------------------------------------------------------------
(* Frames *)

LEMMA HalfOf ==
  ASSUME NEW n \in Nat
  PROVE  /\ n \div 2 \in Nat
         /\ IF n % 2 = 1 THEN n = 2 * (n \div 2) + 1 ELSE n = 2 * (n \div 2)
OBVIOUS

LEMMA FramesDropped ==
  ASSUME NEW s, NEW topic, Frames(s, topic), NEW k \in Nat, 2 * k <= Len(s),
         NEW r \in Seq(HalfFrames), Len(r) = Len(s) - 2 * k,
         \A i \in 1..Len(r) : r[i] = s[i + 2 * k]
  PROVE  Frames(r, topic)
<1>1. PICK n \in Nat :
        /\ Len(s) = 2 * n
        /\ \A i \in 1..n : /\ s[2 * i - 1] \in FirstHalf
                           /\ s[2 * i] = SecondHalf(s[2 * i - 1])
                           /\ topic \in {Everything, s[2 * i - 1][3]}
        /\ \A i, j \in 1..n : i < j => s[2 * i - 1][1] < s[2 * j - 1][1]
  BY DEF Frames
<1>2. n - k \in Nat /\ Len(r) = 2 * (n - k)
  BY <1>1
<1>3. ASSUME NEW i \in 1..(n - k)
      PROVE  /\ i + k \in 1..n
             /\ r[2 * i - 1] = s[2 * (i + k) - 1] /\ r[2 * i] = s[2 * (i + k)]
  <2>1. i + k \in 1..n /\ 2 * i - 1 \in 1..Len(r) /\ 2 * i \in 1..Len(r)
    BY <1>1, <1>2
  <2>2. (2 * i - 1) + 2 * k = 2 * (i + k) - 1 /\ 2 * i + 2 * k = 2 * (i + k)
    OBVIOUS
  <2> QED
    BY <2>1, <2>2
<1>4. \A i \in 1..(n - k) : /\ r[2 * i - 1] \in FirstHalf
                            /\ r[2 * i] = SecondHalf(r[2 * i - 1])
                            /\ topic \in {Everything, r[2 * i - 1][3]}
  BY <1>1, <1>3
<1>5. ASSUME NEW i \in 1..(n - k), NEW j \in 1..(n - k), i < j
      PROVE  r[2 * i - 1][1] < r[2 * j - 1][1]
  <2>1. i + k < j + k
    BY <1>2, <1>5
  <2> QED
    BY <1>1, <1>3, <2>1
<1> QED
  BY <1>2, <1>4, <1>5 DEF Frames

LEMMA FramesAdded ==
  ASSUME NEW s, NEW topic, Frames(s, topic), NEW nr \in Nat, NEW m \in Watchable,
         topic \in {m, Everything}, \A i \in 1..Len(s) : s[i][1] < nr
  PROVE  Frames(s \o Halves(nr, m), topic)
<1>1. PICK n \in Nat :
        /\ Len(s) = 2 * n
        /\ \A i \in 1..n : /\ s[2 * i - 1] \in FirstHalf
                           /\ s[2 * i] = SecondHalf(s[2 * i - 1])
                           /\ topic \in {Everything, s[2 * i - 1][3]}
        /\ \A i, j \in 1..n : i < j => s[2 * i - 1][1] < s[2 * j - 1][1]
  BY DEF Frames
<1> DEFINE h == <<nr, 1, m>>
           r == s \o Halves(nr, m)
<1>2. /\ h \in FirstHalf /\ h \in HalfFrames /\ SecondHalf(h) \in HalfFrames
      /\ h[1] = nr /\ h[3] = m /\ Halves(nr, m) = <<h, SecondHalf(h)>>
  BY DEF FirstHalf, HalfFrames, SecondHalf, Halves
<1> HIDE DEF h
<1>3. s \in Seq(HalfFrames)
  BY DEF Frames
<1>4. /\ r \in Seq(HalfFrames) /\ Len(r) = 2 * (n + 1)
      /\ \A i \in 1..(2 * n) : r[i] = s[i]
      /\ r[2 * n + 1] = h /\ r[2 * n + 2] = SecondHalf(h)
  BY <1>1, <1>2, <1>3
<1> HIDE DEF r
<1>5. \A i \in 1..n : r[2 * i - 1] = s[2 * i - 1] /\ r[2 * i] = s[2 * i]
  BY <1>4
<1>6. r[2 * (n + 1) - 1] = h /\ r[2 * (n + 1)] = SecondHalf(h)
  BY <1>4
<1>7. \A i \in 1..(n + 1) : /\ r[2 * i - 1] \in FirstHalf
                            /\ r[2 * i] = SecondHalf(r[2 * i - 1])
                            /\ topic \in {Everything, r[2 * i - 1][3]}
  <2> SUFFICES ASSUME NEW i \in 1..(n + 1)
               PROVE  /\ r[2 * i - 1] \in FirstHalf
                      /\ r[2 * i] = SecondHalf(r[2 * i - 1])
                      /\ topic \in {Everything, r[2 * i - 1][3]}
    OBVIOUS
  <2>1. CASE i \in 1..n
    BY <1>1, <1>5, <2>1
  <2>2. CASE i = n + 1
    BY <1>2, <1>6, <2>2
  <2> QED
    BY <2>1, <2>2
<1>8. \A i, j \in 1..(n + 1) : i < j => r[2 * i - 1][1] < r[2 * j - 1][1]
  <2> SUFFICES ASSUME NEW i \in 1..(n + 1), NEW j \in 1..(n + 1), i < j
               PROVE  r[2 * i - 1][1] < r[2 * j - 1][1]
    OBVIOUS
  <2>1. i \in 1..n /\ r[2 * i - 1] = s[2 * i - 1] /\ 2 * i - 1 \in 1..Len(s)
    BY <1>1, <1>5
  <2>2. CASE j \in 1..n
    BY <1>1, <1>5, <2>1, <2>2
  <2>3. CASE j = n + 1
    BY <1>2, <1>6, <2>1, <2>3
  <2> QED
    BY <2>2, <2>3
<1>9. Frames(r, topic)
  <2>1. n + 1 \in Nat
    OBVIOUS
  <2> QED
    BY <1>4, <1>7, <1>8, <2>1 DEF Frames
<1> QED
  BY <1>9 DEF r

-----------------------------------------------------------------------------
(* A read *)

\* What a read takes is the first half frames of those coming, and leaves the others.
LEMMA ChunkTaken ==
  ASSUME NEW b \in Seq(HalfFrames), NEW t \in Seq(HalfFrames), NEW n \in 1..Len(t)
  PROVE  LET halves == b \o SubSeq(t, 1, n)
             k == Len(halves) \div 2
             r == Remainder(halves) \o SubSeq(t, n + 1, Len(t))
             s == b \o t
         IN /\ k \in Nat /\ 2 * k <= Len(s)
            /\ \A i \in 1..(2 * k) : halves[i] = s[i]
            /\ r \in Seq(HalfFrames) /\ Len(r) = Len(s) - 2 * k
            /\ \A i \in 1..Len(r) : r[i] = s[i + 2 * k]
            /\ Remainder(halves) \in Seq(HalfFrames)
            /\ SubSeq(t, n + 1, Len(t)) \in Seq(HalfFrames)
<1> DEFINE u == SubSeq(t, 1, n)
           halves == b \o u
           k == Len(halves) \div 2
           v == SubSeq(t, n + 1, Len(t))
           r == Remainder(halves) \o v
           s == b \o t
<1>1. Len(b) \in Nat /\ Len(t) \in Nat /\ n \in Nat /\ n <= Len(t)
  OBVIOUS
<1>2. /\ u \in Seq(HalfFrames) /\ Len(u) = n
      /\ \A i \in 1..n : u[i] = t[i]
  BY <1>1
<1>3. /\ v \in Seq(HalfFrames) /\ Len(v) = Len(t) - n
      /\ \A i \in 1..(Len(t) - n) : v[i] = t[i + n]
  BY <1>1
<1> HIDE DEF u, v
<1>4. /\ halves \in Seq(HalfFrames) /\ Len(halves) = Len(b) + n
      /\ \A i \in 1..(Len(b) + n) : halves[i] = IF i <= Len(b) THEN b[i] ELSE u[i - Len(b)]
  BY <1>2, ConcatProperties
<1>5. /\ s \in Seq(HalfFrames) /\ Len(s) = Len(b) + Len(t)
      /\ \A i \in 1..(Len(b) + Len(t)) : s[i] = IF i <= Len(b) THEN b[i] ELSE t[i - Len(b)]
  BY ConcatProperties
<1> HIDE DEF halves, s
<1>6. ASSUME NEW i \in 1..(Len(b) + n)
      PROVE  halves[i] = s[i]
  <2>1. i \in 1..(Len(b) + Len(t))
    BY <1>1
  <2>2. CASE i <= Len(b)
    BY <1>4, <1>5, <2>1, <2>2
  <2>3. CASE ~(i <= Len(b))
    <3>1. i - Len(b) \in 1..n
      BY <1>1, <2>3
    <3>2. halves[i] = u[i - Len(b)] /\ s[i] = t[i - Len(b)]
      BY <1>4, <1>5, <2>1, <2>3
    <3> QED
      BY <1>2, <3>1, <3>2
  <2> QED
    BY <2>2, <2>3
<1>7. ASSUME NEW i \in 1..(Len(t) - n)
      PROVE  v[i] = s[i + n + Len(b)]
  <2>1. /\ i + n + Len(b) \in 1..(Len(b) + Len(t)) /\ ~(i + n + Len(b) <= Len(b))
        /\ i + n + Len(b) - Len(b) = i + n
    BY <1>1
  <2>2. s[i + n + Len(b)] = t[i + n]
    BY <1>5, <2>1
  <2> QED
    BY <1>3, <2>2
<1>8. k \in Nat /\ IF Len(halves) % 2 = 1 THEN Len(halves) = 2 * k + 1 ELSE Len(halves) = 2 * k
  <2>1. Len(halves) \in Nat
    BY <1>4
  <2> QED
    BY <2>1, HalfOf
<1> HIDE DEF k
<1> DEFINE w == Remainder(halves)
<1>9. /\ w \in Seq(HalfFrames) /\ Len(w) = Len(halves) - 2 * k
      /\ \A i \in 1..Len(w) : w[i] = s[i + 2 * k]
  <2>1. CASE Len(halves) % 2 = 1
    <3>1. w = <<halves[Len(halves)]>> /\ Len(halves) = 2 * k + 1
      BY <1>8, <2>1 DEF Remainder
    <3>2. Len(halves) \in 1..(Len(b) + n) /\ halves[Len(halves)] \in HalfFrames
      BY <1>1, <1>4, <1>8, <3>1
    <3>3. halves[Len(halves)] = s[1 + 2 * k]
      BY <1>6, <1>8, <3>1, <3>2
    <3> HIDE DEF w
    <3>4. w \in Seq(HalfFrames) /\ Len(w) = 1 /\ w[1] = halves[Len(halves)]
      BY <3>1, <3>2
    <3> QED
      BY <1>8, <3>1, <3>3, <3>4
  <2>2. CASE Len(halves) % 2 # 1
    BY <1>8, <2>2 DEF Remainder
  <2> QED
    BY <2>1, <2>2
<1> HIDE DEF w
<1>10. /\ r \in Seq(HalfFrames) /\ Len(r) = Len(w) + Len(v)
       /\ \A i \in 1..(Len(w) + Len(v)) : r[i] = IF i <= Len(w) THEN w[i] ELSE v[i - Len(w)]
  BY <1>3, <1>9, ConcatProperties DEF w
<1> HIDE DEF r
<1>11. Len(r) = Len(s) - 2 * k /\ 2 * k <= Len(s) /\ 2 * k <= Len(b) + n
  BY <1>1, <1>3, <1>4, <1>5, <1>8, <1>9, <1>10
<1>12. ASSUME NEW i \in 1..Len(r)
       PROVE  r[i] = s[i + 2 * k]
  <2>1. Len(w) \in Nat /\ Len(v) \in Nat
    BY <1>3, <1>9
  <2>2. CASE i <= Len(w)
    BY <1>9, <1>10, <2>1, <2>2
  <2>3. CASE i > Len(w)
    <3>1. i - Len(w) \in 1..(Len(t) - n) /\ r[i] = v[i - Len(w)]
      BY <1>1, <1>3, <1>10, <2>1, <2>3
    <3>2. i - Len(w) + n + Len(b) = i + 2 * k
      BY <1>1, <1>4, <1>8, <1>9, <2>1
    <3> QED
      BY <1>7, <3>1, <3>2
  <2> QED
    BY <2>1, <2>2, <2>3
<1>13. \A i \in 1..(2 * k) : halves[i] = s[i]
  BY <1>1, <1>6, <1>8, <1>11
<1> QED
  BY <1>3, <1>8, <1>9, <1>11, <1>10, <1>12, <1>13 DEF k, halves, s, u, v, w, r

\* The entries of a read are later than the log, and what is left is later still.
LEMMA ChunkLogged ==
  ASSUME LoopsInv, LogInv, happened \in Nat,
         NEW halves, NEW k \in Nat, k = Len(halves) \div 2, NEW s,
         \A i \in 1..(2 * k) : halves[i] = s[i], 2 * k <= Len(s),
         Frames(s, watched), Later(s, events, happened), events' = Logged(LogEntries(halves))
  PROVE  /\ IsLog(events') /\ LogBefore(events', happened + 1)
         /\ \A i \in (2 * k + 1)..Len(s) : LogBefore(events', s[i][1])
<1>1. PICK n \in Nat :
        /\ Len(s) = 2 * n
        /\ \A i \in 1..n : /\ s[2 * i - 1] \in FirstHalf
                           /\ s[2 * i] = SecondHalf(s[2 * i - 1])
                           /\ watched \in {Everything, s[2 * i - 1][3]}
        /\ \A i, j \in 1..n : i < j => s[2 * i - 1][1] < s[2 * j - 1][1]
  BY DEF Frames
<1>2. k <= n
  BY <1>1
<1> DEFINE entries == LogEntries(halves)
           a == [i \in 1..Len(entries) |-> entries[Len(entries) + 1 - i]]
           h(i) == s[2 * (k + 1 - i) - 1]
<1>3. \A i \in 1..k : 2 * i - 1 \in 1..(2 * k) /\ 2 * i \in 1..(2 * k) /\ i \in 1..n
  BY <1>1, <1>2
<1>4. entries = [i \in 1..k |-> FrameEntry(s[2 * i - 1], watched)]
  BY <1>1, <1>3 DEF LogEntries, FrameEntry
<1>5. Len(entries) = k
  BY <1>4
<1>6. /\ Len(a) = k /\ DOMAIN a = 1..k
      /\ \A i \in 1..k : k + 1 - i \in 1..k /\ a[i] = FrameEntry(h(i), watched)
  BY <1>4, <1>5
<1>7. events' = Kept(a \o events)
  BY DEF Logged
<1>8. \A i \in 1..k : h(i) \in FirstHalf /\ watched \in {Everything, h(i)[3]} /\ h(i)[1] \in Nat
  BY <1>1, <1>3, <1>6 DEF FirstHalf
<1>9. \A i \in 1..k : FrameEntry(h(i), watched) \in Entries
  <2> SUFFICES ASSUME NEW i \in 1..k
               PROVE  FrameEntry(h(i), watched) \in Entries
    OBVIOUS
  <2>1. <<h(i), watched>> \in {y \in FirstHalf \X Topic : y[2] \in {Everything, y[1][3]}}
    BY <1>8 DEF LoopsInv
  <2> QED
    BY <2>1 DEF Entries
<1>10. a \in Seq(Entries)
  BY <1>4, <1>5, <1>6, <1>9
<1>11. \A i \in 1..k : Nr(a[i]) = h(i)[1]
  <2>1. \A x : Nr(FrameEntry(x, watched)) = x[1]
    BY DEF Nr, FrameEntry
  <2> QED
    BY <1>6, <2>1
<1> HIDE DEF a, entries
<1>12. IsLog(a)
  <2> SUFFICES ASSUME NEW i \in 1..k, NEW j \in 1..k, i < j
               PROVE  Nr(a[j]) < Nr(a[i])
    BY <1>6, <1>10 DEF IsLog
  <2>1. /\ k + 1 - i \in 1..n /\ k + 1 - j \in 1..n /\ k + 1 - j < k + 1 - i
    BY <1>2
  <2> QED
    BY <1>1, <1>11, <2>1
<1>13. \A i \in 1..k : LogBefore(events, h(i)[1]) /\ h(i)[1] <= happened
  <2> SUFFICES ASSUME NEW i \in 1..k
               PROVE  LogBefore(events, h(i)[1]) /\ h(i)[1] <= happened
    OBVIOUS
  <2>1. 2 * (k + 1 - i) - 1 \in 1..Len(s)
    BY <1>1, <1>2
  <2> QED
    BY <2>1 DEF Later
<1>14. /\ IsLog(a \o events)
       /\ \A nr : LogBefore(a, nr) /\ LogBefore(events, nr) => LogBefore(a \o events, nr)
  BY <1>6, <1>11, <1>12, <1>13, JoinedLog DEF LogInv
<1>15. LogBefore(a, happened + 1)
  <2> SUFFICES ASSUME NEW i \in 1..k
               PROVE  Nr(a[i]) < happened + 1
    BY <1>6 DEF LogBefore
  <2> DEFINE x == h(i)[1]
  <2>1. x \in Nat /\ x <= happened /\ Nr(a[i]) = x
    BY <1>8, <1>11, <1>13
  <2> HIDE DEF x
  <2> QED
    BY <2>1
<1>16. ASSUME NEW i \in (2 * k + 1)..Len(s)
       PROVE  LogBefore(a, s[i][1]) /\ LogBefore(events, s[i][1])
  <2>1. PICK j \in (k + 1)..n : s[i][1] = s[2 * j - 1][1]
    <3>1. PICK j \in (k + 1)..n : i = 2 * j - 1 \/ i = 2 * j
      <4>1. i \in Nat
        OBVIOUS
      <4>2. i \div 2 \in Nat /\ (i = 2 * ((i \div 2) + 1) - 1 \/ i = 2 * (i \div 2))
        BY <4>1, HalfOf
      <4>3. PICK j \in Nat : i = 2 * j - 1 \/ i = 2 * j
        <5>1. (i \div 2) + 1 \in Nat
          BY <4>2
        <5> QED
          BY <4>2, <5>1
      <4>4. j \in (k + 1)..n
        BY <1>1, <4>3
      <4> QED
        BY <4>3, <4>4
    <3>2. s[2 * j][1] = s[2 * j - 1][1]
      BY <1>1 DEF SecondHalf
    <3> QED
      BY <3>1, <3>2
  <2>2. \A m \in 1..k : h(m)[1] < s[2 * j - 1][1]
    <3> SUFFICES ASSUME NEW m \in 1..k
                 PROVE  h(m)[1] < s[2 * j - 1][1]
      OBVIOUS
    <3>1. k + 1 - m \in 1..n /\ j \in 1..n /\ k + 1 - m < j
      BY <1>2
    <3> QED
      BY <1>1, <3>1
  <2>3. LogBefore(a, s[i][1])
    BY <1>6, <1>11, <2>1, <2>2 DEF LogBefore
  <2>4. i \in 1..Len(s)
    BY <1>1
  <2> QED
    BY <2>3, <2>4 DEF Later
<1> QED
  BY <1>7, <1>14, <1>15, <1>16, KeptLog DEF LogInv

-----------------------------------------------------------------------------
(* The steps *)

\* new is l but for the place and the half frames.
Alters(new, l, at, transit, buffer) ==
  /\ LoopShape(new) /\ new.active = l.active /\ new.topic = l.topic
  /\ new.at = at /\ new.transit = transit /\ new.buffer = buffer

LEMMA ChangedLoop ==
  ASSUME NEW l, LoopShape(l), NEW at, NEW transit, NEW buffer
  PROVE  /\ Alters([l EXCEPT !.at = at], l, at, l.transit, l.buffer)
         /\ Alters([l EXCEPT !.transit = transit], l, l.at, transit, l.buffer)
         /\ Alters([l EXCEPT !.at = at, !.transit = transit], l, at, transit, l.buffer)
         /\ Alters([l EXCEPT !.buffer = buffer, !.transit = transit], l, l.at, transit, buffer)
         /\ Alters([l EXCEPT !.at = at, !.transit = transit, !.buffer = buffer], l,
                   at, transit, buffer)
<1>1. ASSUME NEW m, LoopShape(m)
      PROVE  /\ Alters([m EXCEPT !.at = at], m, at, m.transit, m.buffer)
             /\ Alters([m EXCEPT !.transit = transit], m, m.at, transit, m.buffer)
             /\ Alters([m EXCEPT !.buffer = buffer], m, m.at, m.transit, buffer)
  <2>1. Alters([m EXCEPT !.at = at], m, at, m.transit, m.buffer)
    BY <1>1 DEF LoopShape, Alters
  <2>2. Alters([m EXCEPT !.transit = transit], m, m.at, transit, m.buffer)
    BY <1>1 DEF LoopShape, Alters
  <2>3. Alters([m EXCEPT !.buffer = buffer], m, m.at, m.transit, buffer)
    BY <1>1 DEF LoopShape, Alters
  <2> QED
    BY <2>1, <2>2, <2>3
<1> DEFINE x == [l EXCEPT !.at = at]
           y == [x EXCEPT !.transit = transit]
           z == [y EXCEPT !.buffer = buffer]
           v == [l EXCEPT !.buffer = buffer]
           w == [v EXCEPT !.transit = transit]
<1>2. /\ [l EXCEPT !.at = at, !.transit = transit] = y
      /\ [l EXCEPT !.at = at, !.transit = transit, !.buffer = buffer] = z
      /\ [l EXCEPT !.buffer = buffer, !.transit = transit] = w
  OBVIOUS
<1>3. Alters(x, l, at, l.transit, l.buffer) /\ Alters(v, l, l.at, l.transit, buffer)
  BY <1>1
<1> HIDE DEF x, v
<1>4. Alters(y, x, x.at, transit, x.buffer) /\ Alters(w, v, v.at, transit, v.buffer)
  BY <1>1, <1>3 DEF Alters
<1> HIDE DEF y, w
<1>5. Alters(z, y, y.at, y.transit, buffer)
  BY <1>1, <1>4 DEF Alters
<1> HIDE DEF z
<1>6. Alters(z, l, at, transit, buffer) /\ Alters(y, l, at, transit, l.buffer)
      /\ Alters(w, l, l.at, transit, buffer)
  BY <1>3, <1>4, <1>5 DEF Alters
<1> QED
  BY <1>1, <1>2, <1>6

\* What a step of a loop makes of it.
Takes(l, new) ==
  /\ Become(l, new) /\ LoopShape(new) /\ new.active = l.active /\ new.topic = l.topic
  /\ UNCHANGED <<isConnected, watched, happened>>

LEMMA ConnectDoes ==
  ASSUME LoopsInv, NEW l \in loops, Connect(l)
  PROVE  /\ UNCHANGED <<isConnected, watched, happened>>
         /\ \/ loops' = loops \ {l} /\ l.active = FALSE /\ UNCHANGED events
            \/ \E new : /\ Takes(l, new) /\ new.at = "pause" /\ Complain
            \/ \E new : /\ Takes(l, new) /\ new.at = "read" /\ l.active
                        /\ new.buffer = <<>> /\ new.transit = <<>> /\ UNCHANGED events
<1>1. LoopShape(l) /\ l.active \in BOOLEAN
  BY DEF LoopsInv
<1>2. Alters([l EXCEPT !.at = "pause"], l, "pause", l.transit, l.buffer)
  BY <1>1, ChangedLoop
<1>3. Alters(Connected(l), l, "read", <<>>, <<>>)
  BY <1>1, ChangedLoop DEF Connected
<1>4. CASE ~l.active
  BY <1>1, <1>4 DEF Connect
<1>5. CASE l.active
  BY <1>2, <1>3, <1>5 DEF Connect, Takes, Alters
<1> QED
  BY <1>4, <1>5

LEMMA PausingDoes ==
  ASSUME LoopsInv, NEW l \in loops, BreakStream(l) \/ EndPause(l)
  PROVE  \E new : /\ Takes(l, new) /\ new.at \in {"pause", "connect"}
                  /\ Complain \/ UNCHANGED events
<1>1. LoopShape(l)
  BY DEF LoopsInv
<1>2. /\ Alters([l EXCEPT !.at = "pause", !.transit = <<>>], l, "pause", <<>>, l.buffer)
      /\ Alters([l EXCEPT !.at = "connect"], l, "connect", l.transit, l.buffer)
  BY <1>1, ChangedLoop
<1> QED
  BY <1>2 DEF BreakStream, EndPause, Takes, Alters

LEMMA ReadDoes ==
  ASSUME LoopsInv, NEW l \in loops, NEW n \in 1..Len(l.transit), ReadChunk(l, n)
  PROVE  LET halves == l.buffer \o SubSeq(l.transit, 1, n)
         IN /\ l.at = "read" /\ events' = Logged(LogEntries(halves))
            /\ \E new : /\ Takes(l, new) /\ new.at = "read" /\ new.buffer = Remainder(halves)
                        /\ new.transit = SubSeq(l.transit, n + 1, Len(l.transit))
<1> DEFINE halves == l.buffer \o SubSeq(l.transit, 1, n)
           rest == SubSeq(l.transit, n + 1, Len(l.transit))
           new == [l EXCEPT !.buffer = Remainder(halves), !.transit = rest]
<1>1. LoopShape(l)
  BY DEF LoopsInv
<1>2. /\ l.at = "read" /\ events' = Logged(LogEntries(halves)) /\ Become(l, new)
      /\ UNCHANGED <<isConnected, watched, happened>>
  BY DEF ReadChunk
<1> HIDE DEF halves, rest
<1>3. Alters(new, l, l.at, rest, Remainder(halves))
  BY <1>1, ChangedLoop
<1> HIDE DEF new
<1> QED
  BY <1>2, <1>3 DEF Takes, Alters, halves, rest

WithEvent(l, m) ==
  IF l.at = "read" /\ l.topic \in {m, Everything}
  THEN [l EXCEPT !.transit = @ \o Halves(happened + 1, m)] ELSE l

Ended(l) == IF l.at = "read" THEN [l EXCEPT !.at = "pause", !.transit = <<>>] ELSE l

LEMMA WithEventShape ==
  ASSUME NEW l, LoopShape(l), NEW m
  PROVE  /\ LoopShape(WithEvent(l, m)) /\ WithEvent(l, m).active = l.active
         /\ WithEvent(l, m).topic = l.topic /\ WithEvent(l, m).at = l.at
         /\ WithEvent(l, m).buffer = l.buffer
         /\ WithEvent(l, m).transit = IF l.at = "read" /\ l.topic \in {m, Everything}
                                 THEN l.transit \o Halves(happened + 1, m) ELSE l.transit
<1> DEFINE t == l.transit \o Halves(happened + 1, m)
<1>1. WithEvent(l, m) = IF l.at = "read" /\ l.topic \in {m, Everything}
                   THEN [l EXCEPT !.transit = t] ELSE l
  BY DEF WithEvent
<1> HIDE DEF t
<1>2. Alters([l EXCEPT !.transit = t], l, l.at, t, l.buffer)
  BY ChangedLoop
<1>3. CASE l.at = "read" /\ l.topic \in {m, Everything}
  BY <1>1, <1>2, <1>3 DEF t, Alters
<1>4. CASE ~(l.at = "read" /\ l.topic \in {m, Everything})
  BY <1>1, <1>4
<1> QED
  BY <1>3, <1>4

LEMMA EndedShape ==
  ASSUME NEW l, LoopShape(l)
  PROVE  /\ LoopShape(Ended(l)) /\ Ended(l).active = l.active /\ Ended(l).topic = l.topic
         /\ Ended(l).at # "read"
<1>1. Alters([l EXCEPT !.at = "pause", !.transit = <<>>], l, "pause", <<>>, l.buffer)
  BY ChangedLoop
<1> QED
  BY <1>1 DEF Ended, Alters

LEMMA LoopsStep ==
  ASSUME LoopsInv, [StreamNext]_streamVars
  PROVE  LoopsInv'
<1>1. ASSUME NEW l \in loops, Connect(l)
      PROVE  LoopsInv'
  <2>1. CASE loops' = loops \ {l} /\ l.active = FALSE
    BY <1>1, <2>1, ConnectDoes DEF LoopsInv, LoopShape
  <2>2. CASE \E new : Takes(l, new) /\ (new.at = "read" => l.active)
    BY <2>2, BecomeLoops DEF Takes
  <2> QED
    BY <1>1, <2>1, <2>2, ConnectDoes
<1>2. ASSUME NEW l \in loops, BreakStream(l) \/ EndPause(l)
      PROVE  LoopsInv'
  BY <1>2, PausingDoes, BecomeLoops DEF Takes
<1>3. ASSUME NEW l \in loops, NEW n \in 1..Len(l.transit), ReadChunk(l, n)
      PROVE  LoopsInv'
  <2>1. \E new : Takes(l, new) /\ l.at = "read"
    BY <1>3, ReadDoes
  <2>2. l.active
    BY <2>1 DEF LoopsInv
  <2> QED
    BY <2>1, <2>2, BecomeLoops DEF Takes
<1>4. ASSUME NEW m \in Watchable, PublishEvent(m)
      PROVE  LoopsInv'
  <2> DEFINE f == [l \in loops |-> WithEvent(l, m)]
  <2>1. loops' = {f[l] : l \in loops} /\ UNCHANGED <<isConnected, watched>>
    BY <1>4 DEF PublishEvent, WithEvent
  <2>2. \A l \in loops : f[l] = WithEvent(l, m)
    OBVIOUS
  <2> HIDE DEF f
  <2>3. \A l \in loops : LoopShape(l)
    BY DEF LoopsInv
  <2> QED
    BY <2>1, <2>2, <2>3, WithEventShape, EachLoops
<1>5. CASE RenewToken
  <2> DEFINE f == [l \in loops |-> Ended(l)]
  <2>1. loops' = {f[l] : l \in loops} /\ UNCHANGED <<isConnected, watched>>
    BY <1>5 DEF RenewToken, Ended
  <2>2. \A l \in loops : f[l] = Ended(l)
    OBVIOUS
  <2> HIDE DEF f
  <2>3. \A l \in loops : LoopShape(l)
    BY DEF LoopsInv
  <2> QED
    BY <2>1, <2>2, <2>3, EndedShape, EachLoops
<1>6. ASSUME NEW m \in Topic, SelectWatched(m)
      PROVE  LoopsInv'
  BY <1>6, ResubscribeLoops DEF SelectWatched, LoopsInv
<1>7. CASE ToggleConnection
  <2>1. watched \in Topic /\ (~isConnected) \in BOOLEAN
    BY DEF LoopsInv
  <2> QED
    BY <1>7, <2>1, ResubscribeLoops DEF ToggleConnection
<1>8. CASE UNCHANGED <<loops, watched, isConnected>>
  BY <1>8 DEF LoopsInv, LoopShape
<1> QED
  BY <1>1, <1>2, <1>3, <1>4, <1>5, <1>6, <1>7, <1>8
     DEF StreamNext, streamVars, ClearEvents, Topic

\* What reads had is as it was, and the log has nothing that comes later.
LEMMA ReadsStay ==
  ASSUME ReadInv, happened \in Nat, UNCHANGED happened,
         \A l \in loops' : l.at = "read" => l \in loops,
         \A nr : LogBefore(events, nr) => LogBefore(events', nr)
  PROVE  ReadInv'
<1> SUFFICES ASSUME NEW l \in loops, l.at = "read"
             PROVE  /\ l.buffer \in Seq(HalfFrames) /\ l.transit \in Seq(HalfFrames)
                    /\ Frames(Coming(l), l.topic) /\ Later(Coming(l), events', happened')
  BY DEF ReadInv, Coming, Frames
<1> QED
  BY DEF ReadInv, Later, Coming

LEMMA ConnectReads ==
  ASSUME StreamInv, NEW l \in loops, Connect(l)
  PROVE  LogInv' /\ ReadInv'
<1> USE DEF StreamInv
<1>1. CASE loops' = loops \ {l} /\ UNCHANGED events
  <2>1. UNCHANGED <<events, happened>>
    BY <1>1, ConnectDoes
  <2> QED
    BY <1>1, <2>1, ReadsStay DEF LogInv
<1>2. CASE \E new : Takes(l, new) /\ new.at = "pause" /\ Complain
  <2>1. UNCHANGED happened /\ \A m \in loops' : m.at = "read" => m \in loops
    BY <1>2 DEF Takes, Become
  <2>2. IsLog(events') /\ \A nr : LogBefore(events, nr) => LogBefore(events', nr)
    BY <1>2, ErrorLog
  <2> QED
    BY <2>1, <2>2, ReadsStay DEF LogInv
<1>3. CASE \E new : /\ Takes(l, new) /\ new.buffer = <<>> /\ new.transit = <<>>
                    /\ UNCHANGED events
  <2>1. PICK new : /\ Takes(l, new) /\ new.buffer = <<>> /\ new.transit = <<>>
                   /\ UNCHANGED events
    BY <1>3
  <2>2. UNCHANGED <<events, happened>> /\ \A m \in loops' : m = new \/ m \in loops
    BY <2>1 DEF Takes, Become
  <2>3. Coming(new) = <<>>
    BY <2>1 DEF Coming
  <2>4. Frames(<<>>, new.topic)
    <3>1. <<>> \in Seq(HalfFrames) /\ Len(<<>>) = 2 * 0
      OBVIOUS
    <3> QED
      BY <3>1 DEF Frames
  <2>5. \A m \in loops : m.at = "read" =>
          /\ m.buffer \in Seq(HalfFrames) /\ m.transit \in Seq(HalfFrames)
          /\ Frames(Coming(m), m.topic) /\ Later(Coming(m), events', happened')
    BY <2>2 DEF ReadInv, Later
  <2>6. Later(<<>>, events', happened')
    BY DEF Later
  <2>7. LogInv'
    BY <2>2 DEF LogInv, IsLog, LogBefore
  <2>8. ASSUME NEW m \in loops', m.at = "read"
        PROVE  /\ m.buffer \in Seq(HalfFrames) /\ m.transit \in Seq(HalfFrames)
               /\ Frames(Coming(m), m.topic) /\ Later(Coming(m), events', happened')
    <3>1. CASE m = new
      <4>1. <<>> \in Seq(HalfFrames)
        OBVIOUS
      <4> QED
        BY <2>1, <2>3, <2>4, <2>6, <3>1, <4>1
    <3>2. CASE m \in loops
      BY <2>5, <2>8, <3>2
    <3> QED
      BY <2>2, <3>1, <3>2
  <2> QED
    BY <2>7, <2>8 DEF ReadInv, Coming, Frames
<1> QED
  BY <1>1, <1>2, <1>3, ConnectDoes

LEMMA ChunkReads ==
  ASSUME StreamInv, NEW l \in loops, NEW n \in 1..Len(l.transit), ReadChunk(l, n)
  PROVE  LogInv' /\ ReadInv'
<1> USE DEF StreamInv
<1> DEFINE halves == l.buffer \o SubSeq(l.transit, 1, n)
           k == Len(halves) \div 2
           s == Coming(l)
           rest == SubSeq(l.transit, n + 1, Len(l.transit))
           r == Remainder(halves) \o rest
<1>1. l.at = "read" /\ events' = Logged(LogEntries(halves)) /\ UNCHANGED happened
  BY ReadDoes DEF Takes
<1>2. PICK new : /\ Takes(l, new) /\ new.at = "read" /\ new.buffer = Remainder(halves)
                 /\ new.transit = rest
  BY ReadDoes
<1>3. /\ l.buffer \in Seq(HalfFrames) /\ l.transit \in Seq(HalfFrames)
      /\ Frames(s, l.topic) /\ Later(s, events, happened) /\ l.topic = watched
  BY <1>1 DEF ReadInv, LoopsInv
<1>4. /\ k \in Nat /\ 2 * k <= Len(s) /\ \A i \in 1..(2 * k) : halves[i] = s[i]
      /\ r \in Seq(HalfFrames) /\ Len(r) = Len(s) - 2 * k
      /\ \A i \in 1..Len(r) : r[i] = s[i + 2 * k]
      /\ Remainder(halves) \in Seq(HalfFrames) /\ rest \in Seq(HalfFrames)
  BY <1>3, ChunkTaken DEF Coming
<1>5. k = Len(halves) \div 2
  OBVIOUS
<1> HIDE DEF halves, k, s, rest, r
<1>6. /\ IsLog(events') /\ LogBefore(events', happened + 1)
      /\ \A i \in (2 * k + 1)..Len(s) : LogBefore(events', s[i][1])
  BY <1>1, <1>3, <1>4, <1>5, ChunkLogged
<1>7. Frames(r, l.topic)
  BY <1>3, <1>4, FramesDropped
<1>8. Later(r, events', happened')
  <2> SUFFICES ASSUME NEW i \in 1..Len(r)
               PROVE  r[i][1] <= happened /\ LogBefore(events', r[i][1])
    BY <1>1 DEF Later, LogBefore
  <2>1. Len(s) \in Nat
    BY <1>3 DEF Frames
  <2>2. i + 2 * k \in (2 * k + 1)..Len(s) /\ i + 2 * k \in 1..Len(s) /\ r[i] = s[i + 2 * k]
    BY <1>4, <2>1
  <2> QED
    BY <1>3, <1>6, <2>2 DEF Later
<1>9. ASSUME NEW m \in loops', m.at = "read"
      PROVE  m = new
  <2>1. m = new \/ m \in loops \ {l}
    BY <1>2 DEF Takes, Become
  <2> QED
    BY <1>1, <1>9, <2>1 DEF LoopsInv
<1>10. Coming(new) = r /\ new.topic = l.topic
  BY <1>2 DEF Coming, Takes, r
<1>11. /\ new.buffer \in Seq(HalfFrames) /\ new.transit \in Seq(HalfFrames)
       /\ Frames(Coming(new), new.topic) /\ Later(Coming(new), events', happened')
  BY <1>2, <1>4, <1>7, <1>8, <1>10
<1>12. \A m \in loops' : m.at = "read" =>
         /\ m.buffer \in Seq(HalfFrames) /\ m.transit \in Seq(HalfFrames)
         /\ Frames(Coming(m), m.topic) /\ Later(Coming(m), events', happened')
  BY <1>9, <1>11
<1>13. ReadInv'
  BY <1>12 DEF ReadInv, Coming, Frames
<1> QED
  BY <1>1, <1>6, <1>13 DEF LogInv

LEMMA JoinedHalves ==
  ASSUME NEW a \in Seq(HalfFrames), NEW b \in Seq(HalfFrames)
  PROVE  /\ a \o b \in Seq(HalfFrames) /\ Len(a \o b) = Len(a) + Len(b)
         /\ \A i \in 1..Len(a \o b) :
              (a \o b)[i] = IF i <= Len(a) THEN a[i] ELSE b[i - Len(a)]
         /\ \A c \in Seq(HalfFrames) : a \o (b \o c) = (a \o b) \o c
BY ConcatProperties, ConcatAssociative

LEMMA PublishReads ==
  ASSUME StreamInv, NEW m \in Watchable, PublishEvent(m)
  PROVE  LogInv' /\ ReadInv'
<1> USE DEF StreamInv
<1>1. /\ happened' = happened + 1 /\ UNCHANGED events
      /\ \A x \in loops' : \E l \in loops : x = WithEvent(l, m)
  BY DEF PublishEvent, WithEvent
<1>2. IsLog(events') /\ LogBefore(events', happened' + 1)
  <2>1. ASSUME NEW i \in DOMAIN events, IsFrame(events[i]), Nr(events[i]) \in Nat
        PROVE  Nr(events[i]) < happened + 2
    BY <2>1 DEF LogInv, LogBefore
  <2>2. \A i \in DOMAIN events : IsFrame(events[i]) => Nr(events[i]) \in Nat
    <3> SUFFICES ASSUME NEW e \in Entries, IsFrame(e)
                 PROVE  Nr(e) \in Nat
      BY DEF LogInv, IsLog
    <3>1. CASE \E w \in Topic : e = ErrorEntry(w)
      BY <3>1 DEF ErrorEntry, IsFrame
    <3>2. CASE \E x \in FirstHalf \X Topic : e = FrameEntry(x[1], x[2])
      BY <3>2 DEF FrameEntry, Nr, FirstHalf
    <3> QED
      BY <3>1, <3>2 DEF Entries
  <2>3. (happened + 1) + 1 = happened + 2
    OBVIOUS
  <2> QED
    BY <1>1, <2>1, <2>2, <2>3 DEF LogInv, LogBefore, IsLog
<1>3. ASSUME NEW l \in loops, l.at = "read"
      PROVE  \A x : x = WithEvent(l, m) =>
               /\ x.buffer \in Seq(HalfFrames) /\ x.transit \in Seq(HalfFrames)
               /\ Frames(Coming(x), x.topic) /\ Later(Coming(x), events', happened')
  <2> SUFFICES ASSUME NEW x, x = WithEvent(l, m)
               PROVE  /\ x.buffer \in Seq(HalfFrames) /\ x.transit \in Seq(HalfFrames)
                      /\ Frames(Coming(x), x.topic) /\ Later(Coming(x), events', happened')
    OBVIOUS
  <2> DEFINE h == Halves(happened + 1, m)
             s == Coming(l)
  <2>1. /\ l.buffer \in Seq(HalfFrames) /\ l.transit \in Seq(HalfFrames)
        /\ Frames(s, l.topic) /\ Later(s, events, happened)
    BY <1>3 DEF ReadInv
  <2>2. LoopShape(l)
    BY DEF LoopsInv
  <2>3. /\ x.topic = l.topic /\ x.buffer = l.buffer
        /\ x.transit = IF l.topic \in {m, Everything} THEN l.transit \o h ELSE l.transit
    BY <1>3, <2>2, WithEventShape
  <2>4. /\ s \in Seq(HalfFrames) /\ Len(s) \in Nat
        /\ \A i \in 1..Len(s) : s[i] \in HalfFrames /\ s[i][1] \in Nat
    BY <2>1 DEF Frames, HalfFrames
  <2>5. \A i \in 1..Len(s) : s[i][1] <= happened + 1 /\ LogBefore(events, s[i][1])
    BY <2>1, <2>4 DEF Later
  <2>6. CASE l.topic \notin {m, Everything}
    BY <1>1, <2>1, <2>3, <2>5, <2>6 DEF Later, LogBefore, Coming
  <2>7. CASE l.topic \in {m, Everything}
    <3>1. h \in Seq(HalfFrames) /\ Len(h) = 2 /\ \A i \in 1..2 : h[i][1] = happened + 1
      BY DEF Halves, HalfFrames
    <3> HIDE DEF h
    <3>2. x.transit = l.transit \o h /\ l.transit \o h \in Seq(HalfFrames)
      BY <2>1, <2>3, <2>7, <3>1
    <3>3. Coming(x) = s \o h
      <4>1. Coming(x) = l.buffer \o (l.transit \o h)
        BY <2>3, <3>2 DEF Coming
      <4>2. l.buffer \o (l.transit \o h) = (l.buffer \o l.transit) \o h
        BY <2>1, <3>1, JoinedHalves, Zenon
      <4>3. s \o h = (l.buffer \o l.transit) \o h
        BY DEF Coming
      <4> QED
        BY <4>1, <4>2, <4>3
    <3> HIDE DEF s
    <3>4. \A i \in 1..Len(s) : s[i][1] < happened + 1
      BY <2>1, <2>4 DEF Later
    <3>5. Frames(s \o h, l.topic)
      BY <2>1, <2>7, <3>4, FramesAdded DEF h
    <3>6. ASSUME NEW i \in 1..Len(s \o h)
          PROVE  (s \o h)[i][1] <= happened + 1 /\ LogBefore(events, (s \o h)[i][1])
      <4>1. /\ Len(s \o h) = Len(s) + 2
            /\ (s \o h)[i] = IF i <= Len(s) THEN s[i] ELSE h[i - Len(s)]
        BY <2>4, <3>1, JoinedHalves
      <4>2. CASE i <= Len(s)
        BY <2>4, <2>5, <4>1, <4>2
      <4>3. CASE ~(i <= Len(s))
        <5>1. (s \o h)[i][1] = happened + 1
          BY <2>4, <3>1, <4>1, <4>3
        <5> QED
          BY <5>1 DEF LogInv
      <4> QED
        BY <4>2, <4>3
    <3> QED
      BY <1>1, <2>1, <2>3, <3>2, <3>3, <3>5, <3>6 DEF Later, LogBefore
  <2> QED
    BY <2>6, <2>7
<1>4. ASSUME NEW x \in loops', x.at = "read"
      PROVE  /\ x.buffer \in Seq(HalfFrames) /\ x.transit \in Seq(HalfFrames)
             /\ Frames(Coming(x), x.topic) /\ Later(Coming(x), events', happened')
  <2>1. PICK l \in loops : x = WithEvent(l, m)
    BY <1>1
  <2>2. l.at = "read"
    BY <1>4, <2>1, WithEventShape DEF LoopsInv
  <2> QED
    BY <1>3, <2>1, <2>2
<1> QED
  BY <1>2, <1>4 DEF LogInv, ReadInv, Coming, Frames

LEMMA StreamInvStep ==
  ASSUME StreamInv, [StreamNext]_streamVars
  PROVE  StreamInv'
<1> USE DEF StreamInv
<1>1. LoopsInv'
  BY LoopsStep
<1>2. ASSUME UNCHANGED <<events, happened>>, \A l \in loops' : l.at = "read" => l \in loops
      PROVE  LogInv' /\ ReadInv' /\ happened' \in Nat
  BY <1>2, ReadsStay DEF LogInv
<1>3. ASSUME NEW l \in loops, Connect(l)
      PROVE  LogInv' /\ ReadInv' /\ happened' \in Nat
  BY <1>3, ConnectReads DEF Connect
<1>4. ASSUME NEW l \in loops, BreakStream(l) \/ EndPause(l)
      PROVE  LogInv' /\ ReadInv' /\ happened' \in Nat
  <2>1. PICK new : /\ Takes(l, new) /\ new.at \in {"pause", "connect"}
                   /\ Complain \/ UNCHANGED events
    BY <1>4, PausingDoes
  <2>2. UNCHANGED happened /\ \A m \in loops' : m.at = "read" => m \in loops
    BY <2>1 DEF Takes, Become
  <2>3. CASE Complain
    BY <2>2, <2>3, ErrorLog, ReadsStay DEF LogInv
  <2> QED
    BY <1>2, <2>1, <2>2, <2>3
<1>5. ASSUME NEW l \in loops, NEW n \in 1..Len(l.transit), ReadChunk(l, n)
      PROVE  LogInv' /\ ReadInv' /\ happened' \in Nat
  BY <1>5, ChunkReads DEF ReadChunk
<1>6. ASSUME NEW m \in Watchable, PublishEvent(m)
      PROVE  LogInv' /\ ReadInv' /\ happened' \in Nat
  <2>1. LogInv' /\ ReadInv'
    BY <1>6, PublishReads
  <2>2. happened' = happened + 1
    BY <1>6 DEF PublishEvent
  <2>3. happened' \in Nat
    BY <2>2
  <2> QED
    BY <2>1, <2>3
<1>7. CASE RenewToken
  <2>1. UNCHANGED <<events, happened>> /\ \A x \in loops' : \E l \in loops : x = Ended(l)
    BY <1>7 DEF RenewToken, Ended
  <2> QED
    BY <1>1, <1>2, <2>1, EndedShape DEF LoopsInv
<1>8. ASSUME NEW m \in Topic, SelectWatched(m)
      PROVE  LogInv' /\ ReadInv' /\ happened' \in Nat
  BY <1>2, <1>8, ResubscribeLoops DEF SelectWatched, LoopsInv
<1>9. CASE ToggleConnection
  <2>1. watched \in Topic /\ (~isConnected) \in BOOLEAN
    BY DEF LoopsInv
  <2> QED
    BY <1>2, <1>9, <2>1, ResubscribeLoops DEF ToggleConnection
<1>10. CASE ClearEvents
  <2>1. events' = <<>> /\ UNCHANGED <<happened, loops>>
    BY <1>10 DEF ClearEvents
  <2>2. IsLog(events') /\ \A nr : LogBefore(events', nr)
    BY <2>1 DEF IsLog, LogBefore
  <2> QED
    BY <1>1, <2>1, <2>2, ReadsStay DEF LogInv
<1>11. CASE UNCHANGED streamVars
  BY <1>1, <1>2, <1>11 DEF streamVars
<1> QED
  BY <1>1, <1>3, <1>4, <1>5, <1>6, <1>7, <1>8, <1>9, <1>10, <1>11 DEF StreamNext, Topic

LEMMA StreamShown ==
  ASSUME StreamInv
  PROVE  LogShowsStream
<1> USE DEF StreamInv
<1>1. OneLoopAlive
  <2> DEFINE alive == {l \in loops : l.active}
  <2>1. CASE isConnected
    <3>1. PICK l \in loops : l.active
      BY <2>1 DEF LoopsInv
    <3>2. alive = {l}
      BY <3>1 DEF LoopsInv
    <3> QED
      BY <2>1, <3>2, FS_Singleton DEF LoopsInv, OneLoopAlive
  <2>2. CASE ~isConnected
    <3>1. alive = {}
      BY <2>2 DEF LoopsInv
    <3> QED
      BY <2>2, <3>1, FS_EmptySet DEF LoopsInv, OneLoopAlive
  <2> QED
    BY <2>1, <2>2
<1>2. ASSUME NEW e \in Entries, ~e.error
      PROVE  /\ e.first[1] = e.second[1] /\ e.first[2] = 1 /\ e.second[2] = 2
             /\ e.under \in {Everything, e.first[3]}
  <2>1. ~\E w \in Topic : e = ErrorEntry(w)
    BY <1>2 DEF ErrorEntry
  <2>2. PICK x \in FirstHalf \X Topic : x[2] \in {Everything, x[1][3]} /\ e = FrameEntry(x[1], x[2])
    BY <2>1 DEF Entries
  <2>3. /\ e.first = x[1] /\ e.second = SecondHalf(x[1]) /\ e.under = x[2] /\ x[1] \in FirstHalf
    BY <2>2 DEF FrameEntry
  <2> QED
    BY <2>2, <2>3 DEF SecondHalf, FirstHalf
<1>3. FramesAreWhole
  BY <1>2 DEF FramesAreWhole, LogInv, IsLog
<1>4. LogInOrder
  <2> SUFFICES ASSUME NEW i \in DOMAIN events, NEW j \in DOMAIN events, i < j,
                      IsFrame(events[i]), IsFrame(events[j])
               PROVE  Nr(events[i]) > Nr(events[j])
    BY DEF LogInOrder, IsFrame, Nr
  <2>1. Nr(events[j]) < Nr(events[i])
    BY DEF LogInv, IsLog
  <2> QED
    BY <2>1
<1> QED
  BY <1>1, <1>3, <1>4 DEF LogShowsStream

\* One loop at most is alive, for what is selected, and the log has the frames of
\* what was watched, whole, newest first and none twice, however the streams were
\* cut, broken and begun again (routes/_auth/realtime, api/moul-live).
THEOREM LogAlwaysShowsStream == StreamSpec => []LogShowsStream
<1>1. StreamInit => StreamInv
  <2> SUFFICES ASSUME StreamInit PROVE StreamInv
    OBVIOUS
  <2>1. /\ loops = {[id |-> 1, topic |-> Everything, token |-> 1, active |-> TRUE,
                     at |-> "connect", transit |-> <<>>, buffer |-> <<>>]}
        /\ watched = Everything /\ isConnected = TRUE /\ events = <<>> /\ happened = 0
    BY DEF StreamInit
  <2>2. LoopsInv
    BY <2>1 DEF LoopsInv, LoopShape, Topic
  <2>3. LogInv
    BY <2>1 DEF LogInv, IsLog, LogBefore
  <2>4. ReadInv
    BY <2>1 DEF ReadInv
  <2> QED BY <2>1, <2>2, <2>3, <2>4 DEF StreamInv
<1>2. StreamInv /\ [StreamNext]_streamVars => StreamInv'
  BY StreamInvStep
<1>3. StreamInv => LogShowsStream
  BY StreamShown
<1> QED BY <1>1, <1>2, <1>3, PTL DEF StreamSpec

=============================================================================
