------------------------------ MODULE RecordsPage ------------------------------
(***************************************************************************)
(* The records page of the dashboard (ui routes/_auth/records/$moulName):  *)
(* the table with its cached pages and its selection, the drawer in which  *)
(* a record is created or edited, the dialogs, and the requests and the    *)
(* uploads in flight, of one administrator among other writers.            *)
(*                                                                         *)
(* A value is told apart by what it was entered for: a record's id, a new  *)
(* record, or nothing; once stored, it is its record's.  A request is      *)
(* sent, carried out and answered in three steps, so answers come in any   *)
(* order; a handler of a component is one step and sees the state of the   *)
(* rendering it was made in, which is what an upload keeps until it ends.  *)
(***************************************************************************)
EXTENDS Integers, FiniteSets

CONSTANTS
  Ids,       \* ids of records, in the order of the table
  RecordFields, \* the fields of the form
  Typed,     \* those validated when they are left: text, number, date, ...
  Uploaded,  \* the file fields; the rest is chosen from a list
  Required,  \* the fields that may not be blank
  Pages,     \* pages of the table, each a query of its own
  PerPage,   \* records on a page
  Kinds,     \* the types of collection: "base", "worker"
  Unborn,    \* ids of records that do not exist at first
  Budgets    \* bounds on the steps of each sort, one of which is chosen

ASSUME RecordsPageAssumption ==
  /\ Ids \subseteq Nat \ {0}
  /\ Typed \subseteq RecordFields
  /\ Uploaded \subseteq RecordFields \ Typed
  /\ Required \subseteq RecordFields
  /\ Pages \subseteq Nat \ {0} /\ 1 \in Pages
  /\ PerPage \in Nat \ {0}
  /\ Kinds \subseteq {"base", "worker"}
  /\ Unborn \subseteq Ids
  /\ Budgets \subseteq [{"opens", "requests", "uploads", "picks", "turns", "faults",
                  "others"} -> Nat]

VARIABLES
  moulType,    \* moul.type
  rows,        \* the table on the server
  cache,       \* the cached answer of each page's query
  fetch,       \* the list request of each page
  pageNr,      \* search.page
  selected,    \* selectedIds
  drawer,      \* isDrawerOpen, isCreating, activeRecord, formData, formErrors, ...
  toDelete,    \* recordToDelete
  batchDialog, \* isBatchDeleteConfirmOpen
  batch,       \* the Promise.all of handleBatchDelete, while isBatchDeleting
  calls,       \* requests in flight
  uploads,     \* uploads in flight, with the closure each will call
  unsure,      \* history: ids written by a request whose answer was a failure
  overtaken,   \* history: pages whose list was under way, out of sight, when a
               \* write was answered
  budget       \* what is left of the bounds

listVars == <<cache, fetch, pageNr, selected, overtaken>>
dialogVars == <<toDelete, batchDialog>>
recordsVars == <<moulType, rows, listVars, drawer, dialogVars, batch, calls, uploads,
                 unsure, budget>>

NoId == 0
NoValue == 0
NewValue == -1
Unused == [unused |-> TRUE]
Deleted == [deleted |-> TRUE]
NoFetch == [idle |-> TRUE]
Sent == [sent |-> TRUE]
NoBatch == [ids |-> {}, waiting |-> {}, nr |-> 0]
EmptyForm == [values |-> [f \in RecordFields |-> NoValue], state |-> "available"]

Live == {i \in Ids : rows[i] \notin {Unused, Deleted}}
Spend(what) == budget[what] > 0 /\ budget' = [budget EXCEPT ![what] = @ - 1]
NoList == [row |-> [i \in {} |-> EmptyForm], misses |-> {}]

-----------------------------------------------------------------------------
(* Validation: of all the rules of utils/fieldValidation, that a required     *)
(* field has a value (FieldForm has the others).                              *)

Invalid(f, v) == f \in Required /\ v = NoValue
InvalidFields(form) == {f \in RecordFields : Invalid(f, form.values[f])}
Validated(errors, f, v) == IF Invalid(f, v) THEN errors \cup {f} ELSE errors \ {f}

(* The drawer.  owner, edited and opening are history: for whom the form's    *)
(* values were loaded or entered, and which opening of the drawer this is;    *)
(* task is the last answer that set the form's state, replaced says that the  *)
(* form was replaced by an answer, and crossed that it was by another form's. *)

Owner == IF drawer.creating THEN NewValue ELSE drawer.id
ClosedDrawer == [open |-> FALSE, creating |-> FALSE, id |-> NoId, row |-> EmptyForm,
                 form |-> EmptyForm, errors |-> {}, touched |-> {}, opening |-> 0,
                 task |-> "none", replaced |-> FALSE, crossed |-> FALSE]
Opened(id, row) == [ClosedDrawer EXCEPT !.open = TRUE, !.creating = id = NoId,
                    !.id = id, !.row = row, !.form = row,
                    !.opening = drawer.opening + 1]
\* Mutant: the drawer for a new record keeps the form of the one seen before.
CreateDrawerKeepsForm == [Opened(NoId, EmptyForm) EXCEPT !.form = drawer.form]

CreateDrawer == Opened(NoId, EmptyForm)

\* What can be reached: dialogs cover the drawer, and both cover the table.
TableReachable == ~drawer.open /\ toDelete = NoId /\ ~batchDialog
DrawerReachable == drawer.open /\ toDelete = NoId
Shown == cache[pageNr].list.row

Pending(k) == \E c \in calls : c.kind = k /\ c.latest

OpenCreate ==
  /\ TableReachable
  /\ Spend("opens")
  /\ drawer' = CreateDrawer
  /\ UNCHANGED <<moulType, rows, listVars, dialogVars, batch, calls, uploads, unsure>>

OpenDetail(i) ==
  /\ TableReachable
  /\ i \in DOMAIN Shown
  /\ Spend("opens")
  /\ drawer' = Opened(i, Shown[i])
  /\ UNCHANGED <<moulType, rows, listVars, dialogVars, batch, calls, uploads, unsure>>

CloseDrawer ==
  /\ DrawerReachable
  /\ drawer' = [drawer EXCEPT !.open = FALSE]
  /\ UNCHANGED <<moulType, rows, listVars, dialogVars, batch, calls, uploads, unsure, budget>>

\* handleFieldChange of a field of text, and handleFieldBlur when it is left.
Type(f, v) ==
  /\ DrawerReachable
  /\ f \in Typed
  /\ drawer' = [drawer EXCEPT !.form.values[f] = v,
                !.errors = IF f \in drawer.touched THEN Validated(@, f, v) ELSE @]
  /\ UNCHANGED <<moulType, rows, listVars, dialogVars, batch, calls, uploads, unsure, budget>>

Leave(f) ==
  /\ DrawerReachable
  /\ f \in Typed
  /\ drawer' = [drawer EXCEPT !.touched = @ \cup {f},
                !.errors = Validated(@, f, drawer.form.values[f])]
  /\ UNCHANGED <<moulType, rows, listVars, dialogVars, batch, calls, uploads, unsure, budget>>

\* The fields that are not typed call both in one event, and the second sees
\* the form as it was before the first.
Chosen(form, f, v) ==
  [drawer EXCEPT !.form = [form EXCEPT !.values[f] = v],
                 !.touched = @ \cup {f},
                 !.errors = Validated(@, f, form.values[f])]

Uploading(f) == \E u \in uploads : u.field = f /\ u.opening = drawer.opening

Choose(f, v) ==
  /\ DrawerReachable
  /\ f \in RecordFields \ Typed
  /\ f \in Uploaded => v = NoValue /\ drawer.form.values[f] # NoValue /\ ~Uploading(f)
  /\ drawer' = Chosen(drawer.form, f, v)
  /\ UNCHANGED <<moulType, rows, listVars, dialogVars, batch, calls, uploads, unsure, budget>>

\* A file may be dropped on the empty field also while another is uploaded.
StartUpload(f) ==
  /\ DrawerReachable
  /\ f \in Uploaded
  /\ drawer.form.values[f] # NoValue => ~Uploading(f)
  /\ Spend("uploads")
  /\ uploads' = uploads \cup {[field |-> f, form |-> drawer.form, owner |-> Owner,
                               touched |-> drawer.touched, opening |-> drawer.opening,
                               crossed |-> drawer.crossed]}
  /\ UNCHANGED <<moulType, rows, listVars, drawer, dialogVars, batch, calls, unsure>>

\* The answer goes to the form through the closure the upload began with,
\* whatever the drawer shows by now.
EndUpload(u) ==
  /\ uploads' = uploads \ {u}
  /\ drawer' = [Chosen(u.form, u.field, u.owner) EXCEPT
                  !.replaced = TRUE, !.task = "none",
                  !.crossed = u.crossed \/ u.owner # Owner]
  /\ UNCHANGED <<moulType, rows, listVars, dialogVars, batch, calls, unsure, budget>>

FailUpload(u) ==
  /\ Spend("faults")
  /\ uploads' = uploads \ {u}
  /\ UNCHANGED <<moulType, rows, listVars, drawer, dialogVars, batch, calls, unsure>>

-----------------------------------------------------------------------------
(* Requests.                                                                  *)

Call(k, ids, data) ==
  [kind |-> k, ids |-> ids, data |-> data, nr |-> batch.nr, answer |-> "none",
   latest |-> TRUE, again |-> FALSE, crossed |-> drawer.crossed]
\* A mutation's isPending is that of its latest call.
With(c) == {[d EXCEPT !.latest = d.latest /\ d.kind # c.kind] : d \in calls} \cup {c}

SaveOffered == ~Pending("create") /\ ~Pending("update")

SaveRecord ==
  /\ DrawerReachable
  /\ SaveOffered
  /\ IF InvalidFields(drawer.form) # {}
     THEN /\ drawer' = [drawer EXCEPT !.errors = InvalidFields(drawer.form),
                                      !.touched = @ \cup InvalidFields(drawer.form),
                                      !.replaced = FALSE]
          /\ UNCHANGED <<calls, budget>>
     ELSE /\ Spend("requests")
          /\ calls' = With(Call(IF drawer.creating THEN "create" ELSE "update",
                                {drawer.id} \ {NoId}, drawer.form))
          /\ UNCHANGED drawer
  /\ UNCHANGED <<moulType, rows, listVars, dialogVars, batch, uploads, unsure>>

AskDelete(i) ==
  /\ \/ TableReachable /\ i \in DOMAIN Shown
     \/ DrawerReachable /\ ~drawer.creating /\ i = drawer.id
  /\ toDelete' = i
  /\ UNCHANGED <<moulType, rows, listVars, drawer, batchDialog, batch, calls, uploads,
                 unsure, budget>>

DismissDelete ==
  /\ toDelete # NoId
  /\ toDelete' = NoId
  /\ UNCHANGED <<moulType, rows, listVars, drawer, batchDialog, batch, calls, uploads,
                 unsure, budget>>

ConfirmDelete ==
  /\ toDelete # NoId
  /\ ~Pending("delete")
  /\ Spend("requests")
  /\ calls' = With(Call("delete", {toDelete}, EmptyForm))
  /\ UNCHANGED <<moulType, rows, listVars, drawer, dialogVars, batch, uploads, unsure>>

\* canRetry of a row; the drawer offers it in every state.
RowRetryOffered(i) ==
  /\ moulType = "worker"
  /\ i \in DOMAIN Shown
  /\ Shown[i].state \in {"discarded", "completed"}
  /\ ~\E c \in calls : c.kind = "retry" /\ c.latest /\ c.ids = {i}
DrawerRetryOffered == moulType = "worker" /\ ~drawer.creating /\ ~Pending("retry")
DiscardOffered ==
  moulType = "worker" /\ ~drawer.creating /\ drawer.row.state # "discarded"
    /\ ~Pending("discard")

RetryTask(i) ==
  /\ \/ TableReachable /\ RowRetryOffered(i)
     \/ DrawerReachable /\ DrawerRetryOffered /\ i = drawer.id
  /\ Spend("requests")
  /\ calls' = With(Call("retry", {i}, EmptyForm))
  /\ UNCHANGED <<moulType, rows, listVars, drawer, dialogVars, batch, uploads, unsure>>

DiscardTask ==
  /\ DrawerReachable
  /\ DiscardOffered
  /\ Spend("requests")
  /\ calls' = With(Call("discard", {drawer.id}, EmptyForm))
  /\ UNCHANGED <<moulType, rows, listVars, drawer, dialogVars, batch, uploads, unsure>>

(* The selection outlives the page it was made on.                            *)

SelectRecord(i) ==
  /\ TableReachable
  /\ i \in DOMAIN Shown
  /\ Spend("picks")
  /\ selected' = IF i \in selected THEN selected \ {i} ELSE selected \cup {i}
  /\ UNCHANGED <<moulType, rows, cache, fetch, pageNr, overtaken, drawer, dialogVars, batch,
                 calls, uploads, unsure>>

SelectAll(on) ==
  /\ TableReachable
  /\ Spend("picks")
  /\ selected' = IF on THEN selected \cup DOMAIN Shown ELSE selected \ DOMAIN Shown
  /\ UNCHANGED <<moulType, rows, cache, fetch, pageNr, overtaken, drawer, dialogVars, batch,
                 calls, uploads, unsure>>

ClearSelection ==
  /\ TableReachable
  /\ selected' = {}
  /\ UNCHANGED <<moulType, rows, cache, fetch, pageNr, overtaken, drawer, dialogVars, batch,
                 calls, uploads, unsure, budget>>

SelectionToolbar == TableReachable /\ selected # {}

AskBatchDelete ==
  /\ SelectionToolbar
  /\ batchDialog' = TRUE
  /\ UNCHANGED <<moulType, rows, listVars, drawer, toDelete, batch, calls, uploads,
                 unsure, budget>>

DismissBatchDelete ==
  /\ batchDialog
  /\ batchDialog' = FALSE
  /\ UNCHANGED <<moulType, rows, listVars, drawer, toDelete, batch, calls, uploads,
                 unsure, budget>>

\* One request for each record; the page waits for all of them.
BatchDelete ==
  /\ batchDialog
  /\ batch.waiting = {}
  /\ Spend("requests")
  /\ batch' = [ids |-> selected, waiting |-> selected, nr |-> batch.nr + 1]
  /\ calls' = calls \cup {[Call("batch", {i}, EmptyForm) EXCEPT !.nr = batch.nr + 1]
                            : i \in selected}
  /\ selected # {}
  /\ UNCHANGED <<moulType, rows, listVars, drawer, dialogVars, uploads, unsure>>

BatchRetry ==
  /\ SelectionToolbar
  /\ moulType = "worker"
  /\ ~Pending("retryAll")
  /\ Spend("requests")
  /\ calls' = With(Call("retryAll", selected, EmptyForm))
  /\ UNCHANGED <<moulType, rows, listVars, drawer, dialogVars, batch, uploads, unsure>>

-----------------------------------------------------------------------------
(* The server carries a request out.                                          *)

\* What is stored in a record is the record's own, whatever it was entered for.
Own(row, i) == [row EXCEPT !.values =
                  [f \in RecordFields |-> IF row.values[f] = NoValue THEN NoValue ELSE i]]

\* What a request makes of the table, given the id of a new record.
Effect(c, new) ==
  [i \in Ids |->
     CASE c.kind = "create" /\ i = new -> Own(c.data, new)
       [] i \in c.ids /\ i \in Live /\ c.kind = "update" -> Own(c.data, i)
       [] i \in c.ids /\ i \in Live /\ c.kind \in {"delete", "batch"} -> Deleted
       [] i \in c.ids /\ i \in Live /\ c.kind \in {"retry", "retryAll"} ->
            [rows[i] EXCEPT !.state = "available"]
       [] i \in c.ids /\ i \in Live /\ c.kind = "discard" ->
            [rows[i] EXCEPT !.state = "discarded"]
       [] OTHER -> rows[i]]

\* Retrying a task that is gone succeeds without doing anything, but for the
\* update that is tried when the retry failed.  A task of a
\* worker is not created from the drawer, which has no field for the name of its
\* worker, but with the form of a task an upload may leave there.
Refused(c) ==
  \/ c.kind \notin {"create", "retry", "retryAll"} /\ ~(c.ids \subseteq Live)
  \/ c.again /\ ~(c.ids \subseteq Live)
  \/ c.kind = "create" /\ moulType = "worker" /\ ~c.crossed

Written(c, new) == IF c.kind = "create" THEN {new} ELSE c.ids \cap Live
Missing(l, ids) == [l EXCEPT !.misses = @ \cup ids]

CarryOut(c) ==
  /\ c.answer = "none"
  /\ IF Refused(c)
     THEN /\ calls' = (calls \ {c}) \cup {[c EXCEPT !.answer = "failed"]}
          /\ UNCHANGED <<rows, cache, fetch>>
     ELSE \E new \in {i \in Ids : c.kind = "create" => rows[i] = Unused} :
            LET ids == Written(c, new) IN
            /\ rows' = Effect(c, new)
            /\ calls' = (calls \ {c}) \cup {[c EXCEPT !.answer = "ok", !.ids = @ \cup ids]}
            /\ cache' = [p \in Pages |-> [cache[p] EXCEPT !.list = Missing(@, ids)]]
            /\ fetch' = [p \in Pages |-> IF fetch[p] \in {NoFetch, Sent} THEN fetch[p]
                                         ELSE Missing(fetch[p], ids)]
  /\ UNCHANGED <<moulType, pageNr, selected, overtaken, drawer, dialogVars, batch, uploads,
                 unsure, budget>>

\* A request, or its answer, is lost.
Lose(c) ==
  /\ c.answer # "failed"
  /\ Spend("faults")
  /\ calls' = (calls \ {c}) \cup {[c EXCEPT !.answer = "failed"]}
  /\ unsure' = IF c.answer = "ok" THEN unsure \cup c.ids ELSE unsure
  /\ UNCHANGED <<moulType, rows, listVars, drawer, dialogVars, batch, uploads>>

\* Another writer: someone deletes a record, an engine takes or ends a task.
OtherDeletes(i) ==
  /\ i \in Live
  /\ Spend("others")
  /\ rows' = [rows EXCEPT ![i] = Deleted]
  /\ UNCHANGED <<moulType, listVars, drawer, dialogVars, batch, calls, uploads, unsure>>

EngineMoves(i) ==
  /\ moulType = "worker"
  /\ i \in Live
  /\ rows[i].state \in {"available", "executing"}
  /\ Spend("others")
  /\ \E to \in (IF rows[i].state = "available" THEN {"executing"}
               ELSE {"completed", "available", "discarded"}) :
       rows' = [rows EXCEPT ![i].state = to]
  /\ UNCHANGED <<moulType, listVars, drawer, dialogVars, batch, calls, uploads, unsure>>

-----------------------------------------------------------------------------
(* The cached list.  An invalidation marks every page of the collection and   *)
(* asks again for the one on the screen, in place of a request under way.     *)

Stale(pages) == [p \in Pages |-> IF p \in pages THEN [cache[p] EXCEPT !.fresh = FALSE]
                                 ELSE cache[p]]
\* Mutant: a list request under way is left to answer for the new one.
InvalidateWithoutCancel ==
  /\ cache' = Stale(Pages)
  /\ fetch' = [fetch EXCEPT ![pageNr] = IF @ = NoFetch THEN Sent ELSE @]
  /\ overtaken' = overtaken \cup {p \in Pages \ {pageNr} : fetch[p] # NoFetch}

Invalidate ==
  /\ cache' = Stale(Pages)
  /\ fetch' = [fetch EXCEPT ![pageNr] = Sent]
  /\ overtaken' = overtaken \cup {p \in Pages \ {pageNr} : fetch[p] # NoFetch}

Rank(i) == Cardinality({j \in Live : j <= i})
OnPage(p) == {i \in Live : (p - 1) * PerPage < Rank(i) /\ Rank(i) <= p * PerPage}

\* A page that is entered or looked at again is asked for when it is stale.
StartFetch ==
  /\ ~cache[pageNr].fresh
  /\ fetch[pageNr] = NoFetch
  /\ fetch' = [fetch EXCEPT ![pageNr] = Sent]
  /\ UNCHANGED <<moulType, rows, cache, pageNr, selected, overtaken, drawer, dialogVars, batch,
                 calls, uploads, unsure, budget>>

ListRecords(p) ==
  /\ fetch[p] = Sent
  /\ fetch' = [fetch EXCEPT ![p] = [row |-> [i \in OnPage(p) |-> rows[i]], misses |-> {}]]
  /\ UNCHANGED <<moulType, rows, cache, pageNr, selected, overtaken, drawer, dialogVars, batch,
                 calls, uploads, unsure, budget>>

EndFetch(p) ==
  /\ fetch[p] \notin {NoFetch, Sent}
  /\ cache' = [cache EXCEPT ![p] = [list |-> fetch[p], fresh |-> TRUE]]
  /\ fetch' = [fetch EXCEPT ![p] = NoFetch]
  /\ UNCHANGED <<moulType, rows, pageNr, selected, overtaken, drawer, dialogVars, batch,
                 calls, uploads, unsure, budget>>

\* The next or the previous page; which are offered depends on an answer that
\* may be old.
Turn(p) ==
  /\ TableReachable
  /\ p \in {pageNr - 1, pageNr + 1}
  /\ Spend("turns")
  /\ pageNr' = p
  /\ UNCHANGED <<moulType, rows, cache, fetch, selected, overtaken, drawer, dialogVars, batch,
                 calls, uploads, unsure>>

-----------------------------------------------------------------------------
(* Answers.  Each handler is the one of the latest rendering.                 *)

Take(c, k) == c.kind = k /\ c.answer = "ok" /\ calls' = calls \ {c}

Created(c) ==
  /\ Take(c, "create")
  /\ Invalidate
  /\ drawer' = [drawer EXCEPT !.open = FALSE]
  /\ UNCHANGED <<moulType, rows, pageNr, selected, dialogVars, batch, uploads, unsure, budget>>

Updated(c) ==
  /\ Take(c, "update")
  /\ Invalidate
  /\ drawer' = [drawer EXCEPT !.open = FALSE, !.row = IF {drawer.id} = c.ids
                                                      THEN Own(c.data, drawer.id) ELSE @]
  /\ UNCHANGED <<moulType, rows, pageNr, selected, dialogVars, batch, uploads, unsure, budget>>

DeleteAnswered(c) ==
  /\ Take(c, "delete")
  /\ Invalidate
  /\ drawer' = [drawer EXCEPT !.open = FALSE]
  /\ selected' = selected \ c.ids
  /\ toDelete' = NoId
  /\ UNCHANGED <<moulType, rows, pageNr, batchDialog, batch, uploads, unsure, budget>>

\* The record's task in the drawer, with its new state, replaces the form.
TaskAnswered(state, ids) ==
  [drawer EXCEPT !.row.state = state, !.form = [drawer.row EXCEPT !.state = state],
                 !.task = state, !.replaced = TRUE, !.crossed = FALSE]

Retried(c) ==
  /\ Take(c, "retry")
  /\ Invalidate
  /\ drawer' = IF {drawer.id} = c.ids THEN TaskAnswered("available", c.ids) ELSE drawer
  /\ UNCHANGED <<moulType, rows, pageNr, selected, dialogVars, batch, uploads, unsure, budget>>

DiscardAnswered(c) ==
  /\ Take(c, "discard")
  /\ Invalidate
  /\ drawer' = IF {drawer.id} = c.ids THEN TaskAnswered("discarded", c.ids) ELSE drawer
  /\ UNCHANGED <<moulType, rows, pageNr, selected, dialogVars, batch, uploads, unsure, budget>>

AllRetried(c) ==
  /\ Take(c, "retryAll")
  /\ Invalidate
  /\ selected' = {}
  /\ UNCHANGED <<moulType, rows, pageNr, drawer, dialogVars, batch, uploads, unsure, budget>>

\* Promise.all ends with the last answer, or with the first failure; what is
\* answered after that concerns nobody.
Awaited(c) == c.kind = "batch" /\ c.nr = batch.nr /\ c.ids \subseteq batch.waiting
\* Mutant: the first answer ends the wait, as Promise.race would.
AnyAwaited(c) == TRUE

LastAwaited(c) == batch.waiting = c.ids

BatchAnswered(c) ==
  /\ Take(c, "batch")
  /\ Awaited(c)
  /\ IF LastAwaited(c)
     THEN /\ Invalidate
          /\ selected' = {}
          /\ batchDialog' = FALSE
          /\ batch' = [batch EXCEPT !.ids = {}, !.waiting = {}]
     ELSE /\ batch' = [batch EXCEPT !.waiting = @ \ c.ids]
          /\ UNCHANGED <<cache, fetch, overtaken, selected, batchDialog>>
  /\ UNCHANGED <<moulType, rows, pageNr, drawer, toDelete, uploads, unsure, budget>>

BatchFailed(c) ==
  /\ c.answer = "failed"
  /\ Awaited(c)
  /\ calls' = calls \ {c}
  /\ batch' = [batch EXCEPT !.ids = {}, !.waiting = {}]
  /\ unsure' = unsure \cup batch.ids
  /\ UNCHANGED <<moulType, rows, listVars, drawer, dialogVars, uploads, budget>>

BatchForgotten(c) ==
  /\ c.kind = "batch" /\ c.answer # "none" /\ ~Awaited(c)
  /\ calls' = calls \ {c}
  /\ UNCHANGED <<moulType, rows, listVars, drawer, dialogVars, batch, uploads, unsure, budget>>

\* A retry that failed is tried once more, as an update of the record.
RetryAgain(c) ==
  /\ c.answer = "failed" /\ c.kind = "retry" /\ ~c.again
  /\ calls' = (calls \ {c}) \cup {[c EXCEPT !.again = TRUE, !.answer = "none"]}
  /\ UNCHANGED <<moulType, rows, listVars, drawer, dialogVars, batch, uploads, unsure, budget>>

\* Every other failure is a message; that of a deletion also ends the dialog.
Failed(c) ==
  /\ c.answer = "failed" /\ c.kind # "batch" /\ (c.kind = "retry" => c.again)
  /\ calls' = calls \ {c}
  /\ toDelete' = IF c.kind = "delete" THEN NoId ELSE toDelete
  /\ UNCHANGED <<moulType, rows, listVars, drawer, batchDialog, batch, uploads, unsure, budget>>

-----------------------------------------------------------------------------

\* The page may be entered with ?create, which opens the drawer.
RecordsInit ==
  /\ moulType \in Kinds
  /\ rows = [i \in Ids |-> IF i \in Unborn THEN Unused
                           ELSE [values |-> [f \in RecordFields |-> i], state |-> "available"]]
  /\ cache = [p \in Pages |-> [list |-> NoList, fresh |-> FALSE]]
  /\ fetch = [p \in Pages |-> NoFetch]
  /\ pageNr = 1
  /\ selected = {}
  /\ toDelete = NoId
  /\ batchDialog = FALSE
  /\ batch = NoBatch
  /\ calls = {}
  /\ uploads = {}
  /\ unsure = {}
  /\ overtaken = {}
  /\ budget \in Budgets
  /\ drawer \in {ClosedDrawer} \cup
       (IF budget["opens"] = 0 THEN {}
        ELSE {[ClosedDrawer EXCEPT !.open = TRUE, !.creating = TRUE]})

UseForm ==
  \/ OpenCreate \/ CloseDrawer \/ SaveRecord \/ DiscardTask
  \/ \E i \in Ids : OpenDetail(i) \/ RetryTask(i)
  \/ \E f \in RecordFields : \/ \E v \in {NoValue, Owner} : Type(f, v) \/ Choose(f, v)
                       \/ Leave(f) \/ StartUpload(f)
  \/ \E u \in uploads : EndUpload(u) \/ FailUpload(u)

UseTable ==
  \/ \E i \in Ids : AskDelete(i) \/ SelectRecord(i)
  \/ \E on \in BOOLEAN : SelectAll(on)
  \/ \E p \in Pages : Turn(p)
  \/ ClearSelection \/ DismissDelete \/ ConfirmDelete
  \/ AskBatchDelete \/ DismissBatchDelete \/ BatchDelete \/ BatchRetry

Serve ==
  \/ \E c \in calls : CarryOut(c) \/ Lose(c)
  \/ \E i \in Ids : OtherDeletes(i) \/ EngineMoves(i)
  \/ \E p \in Pages : ListRecords(p)

Answer ==
  \/ StartFetch
  \/ \E p \in Pages : EndFetch(p)
  \/ \E c \in calls : \/ Created(c) \/ Updated(c) \/ DeleteAnswered(c) \/ Retried(c)
                      \/ DiscardAnswered(c) \/ AllRetried(c) \/ BatchAnswered(c)
                      \/ BatchFailed(c) \/ BatchForgotten(c) \/ RetryAgain(c) \/ Failed(c)

RecordsNext == UseForm \/ UseTable \/ Serve \/ Answer

RecordsSpec == RecordsInit /\ [][RecordsNext]_recordsVars

-----------------------------------------------------------------------------
(* Properties.                                                                *)

\* A record is saved with what was loaded or entered for it, whatever was
\* opened before or answered meanwhile, unless an upload begun in the form of
\* another record ended in this one.
SavesItsOwn ==
  \A c \in calls : c.kind \in {"create", "update"} /\ ~c.crossed =>
    \A f \in RecordFields : c.data.values[f] \in
      {NoValue} \cup (IF c.kind = "create" THEN c.ids \cup {NewValue} ELSE c.ids)

\* Pressing the button again, in this drawer or in the next, cannot save twice
\* at a time: of the creates and updates at most one is in flight.
OneSaveAtATime ==
  Cardinality({c \in calls : c.kind \in {"create", "update"}}) <= 1

\* A task that was retried or discarded from its drawer is not put back by
\* saving the drawer: the form carries the state the last answer gave it.
FormFollowsTask == drawer.task # "none" => drawer.form.state = drawer.task

\* A text field that was left says what is wrong with the value it shows,
\* unless an answer replaced the whole form since the last check.
ErrorsCurrent ==
  drawer.open /\ ~drawer.replaced =>
    \A f \in Typed \cap drawer.touched :
      f \in drawer.errors <=> Invalid(f, drawer.form.values[f])

\* The drawer is right about its record, its task and its errors.
DrawerSound == SavesItsOwn /\ OneSaveAtATime /\ FormFollowsTask /\ ErrorsCurrent

\* A page of the table that counts as fresh lacks no write of this page that
\* was answered; a batch until its last answer, failures, and aside from a page out of
\* sight whose list was under way when the write was answered.
OwnWritesShown ==
  \A p \in Pages \ overtaken : cache[p].fresh =>
    \A i \in cache[p].list.misses : i \in unsure \cup batch.ids \/ \E c \in calls : i \in c.ids

\* The dialog of a batch closes with a success only when every record it
\* named is gone.
BatchAllGone ==
  [][batch.waiting # {} /\ batch'.waiting = {} /\ selected # {} /\ selected' = {} =>
       batch.ids \cap Live = {}]_recordsVars

=============================================================================
