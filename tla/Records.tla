------------------------------ MODULE Records ------------------------------
(***************************************************************************)
(* Records and the relations between them: the create, update and delete   *)
(* requests of internal/handlers/records.go, with the checks on relation   *)
(* fields before a write, the before hooks and webhooks, the write itself, *)
(* its announcement to webhooks, realtime streams and after hooks, and the *)
(* recursion that carries a delete along the CASCADE, SET_NULL and         *)
(* RESTRICT relations that point to the record.                            *)
(*                                                                         *)
(* None of these requests runs in a transaction: one SQL statement is one  *)
(* step, and statements of different requests interleave freely.  Of a     *)
(* record only its id and its relation fields are kept; a request sets one *)
(* relation field and leaves the others as they are (empty in a create).   *)
(* Rules, hooks and webhooks are a choice between going on and refusing.   *)
(***************************************************************************)
EXTENDS Integers, Sequences, FiniteSets

CONSTANTS
  Requests,    \* requests that may be under way at once
  Ids,         \* ids a record may be created with, again after its deletion
  Fields,      \* relation fields of all collections
  MoulOf,      \* the collection of each id
  Holder,      \* the collection that has each field
  Target,      \* the collection each field points to (RelationConfig.TargetMoul)
  Schemas,     \* the RelationConfigs to choose from: [card, onDelete] per field
  InitialLive, \* the rows there may be at first
  NoId,        \* the id of a request that is not under way
  NoField,     \* the field of a request that sets none
  Vetoed,      \* ids whose change a before hook or webhook may refuse
  MaxRequests, \* bound on requests
  MaxFaults    \* bound on failed SQL statements and crashes

Cardinalities == {"1:1", "1:N", "M:N"}
Policies == {"", "CASCADE", "SET_NULL", "RESTRICT"}

ASSUME RecordsAssumption ==
  /\ NoId \notin Ids
  /\ NoField \notin Fields
  /\ Schemas \subseteq [card: [Fields -> Cardinalities], onDelete: [Fields -> Policies]]
  /\ InitialLive \subseteq SUBSET Ids
  /\ Vetoed \subseteq Ids
  /\ MaxRequests \in Nat
  /\ MaxFaults \in Nat

VARIABLES
  schema,     \* the relation configuration of the fields
  live,       \* ids that have a row
  ref,        \* ids each row's relation fields hold ({} without a row)
  op,         \* what each request is doing
  stack,      \* its calls of deleteRecordAndCascade, the innermost last
  held,       \* history: per call, the <<row, field>> that have referenced its record ever since
  kept,       \* history: rows whose cascaded deletion was refused
  owed,       \* history: <<request, id>> of changes not announced yet
  overlapped, \* history: two requests were under way at once
  submitted,  \* requests so far
  faults      \* failed statements and crashes so far

vars == <<schema, live, ref, op, stack, held, kept, owed, overlapped, submitted, faults>>

rows == <<live, ref>>
counts == <<schema, overlapped, submitted>>

-----------------------------------------------------------------------------
(* Relations *)

FieldsOf(m) == {f \in Fields : Holder[f] = m}
Card(f) == schema.card[f]

\* An empty onDelete means SET_NULL.
Policy(f) == IF schema.onDelete[f] = "" THEN "SET_NULL" ELSE schema.onDelete[f]

\* The values a field may be given: one id or none, or a list for M:N. A list's
\* order and repetitions make no difference to what is modelled.
Values(f) == {v \in SUBSET {i \in Ids : MoulOf[i] = Target[f]} :
                Card(f) # "M:N" => Cardinality(v) <= 1}

\* The rows that reference id through f, as a SELECT on f finds them.
Referrers(f, id) == {r \in live : id \in ref[r][f]}

\* The fields of all collections that point to the collection of id.
Pointing(id) == {f \in Fields : Target[f] = MoulOf[id]}

Empty == [f \in Fields |-> {}]

-----------------------------------------------------------------------------
(* Requests *)

Kinds == {"create", "update", "delete"}
OpSteps == {"read", "check", "unique", "before", "write", "fetch", "announce", "cascade"}

Idle == [kind |-> "idle", id |-> NoId, field |-> NoField, value |-> {},
         step |-> "idle", todo |-> {}]

UnderWay == {p \in Requests : op[p] # Idle}

\* One call of deleteRecordAndCascade: the record, what comes next, the fields
\* found pointing to it, those still to look at, and the rows of the present
\* field still to delete, or to rewrite with the rest of their list.
Call(id) == [id |-> id, step |-> "restrict", fields |-> Pointing(id),
             todo |-> {f \in Pointing(id) : Policy(f) = "RESTRICT"},
             via |-> NoField, kids |-> {}]

Top(p) == stack[p][Len(stack[p])]
SetTop(p, c) == stack' = [stack EXCEPT ![p] = SubSeq(@, 1, Len(@) - 1) \o <<c>>]

\* The rows and fields that reference id in the next state.
ReferencesAfter(id) == {x \in Ids \X Fields : x[1] \in live' /\ id \in ref'[x[1]][x[2]]}

\* The history of what has referenced the record of each call since it began.
Track ==
  held' = [p \in Requests |-> [i \in DOMAIN stack'[p] |->
             IF i \in DOMAIN stack[p] THEN held[p][i] \cap ReferencesAfter(stack'[p][i].id)
                                      ELSE ReferencesAfter(stack'[p][i].id)]]

Goto(p, step) == op' = [op EXCEPT ![p].step = step]

\* The request answers, with success or an error. What it has not announced by
\* then it never will; a statement that failed is the excuse.
End(p) == op' = [op EXCEPT ![p] = Idle]

\* What is checked next: the ids the field is to hold, then that no other row
\* shares the id of a 1:1 field.
Checking(o) ==
  [o EXCEPT !.step = IF o.todo # {} THEN "check"
                     ELSE IF o.value # {} /\ Card(o.field) = "1:1" THEN "unique"
                     ELSE "before"]

\* A request arrives. One that its body or the create rule refuses runs no
\* statement and is left out.
Submit(p) ==
  /\ op[p] = Idle
  /\ submitted < MaxRequests
  /\ submitted' = submitted + 1
  /\ overlapped' = (overlapped \/ UnderWay # {})
  /\ \E id \in Ids :
       \/ \E f \in FieldsOf(MoulOf[id]) : \E v \in Values(f) :
            op' = [op EXCEPT ![p] = Checking([kind |-> "create", id |-> id, field |-> f,
                                              value |-> v, step |-> "check", todo |-> v])]
       \/ \E f \in FieldsOf(MoulOf[id]) : \E v \in Values(f) :
            op' = [op EXCEPT ![p] = [kind |-> "update", id |-> id, field |-> f, value |-> v,
                                     step |-> "read", todo |-> v]]
       \/ FieldsOf(MoulOf[id]) = {}
          /\ op' = [op EXCEPT ![p] = [kind |-> "create", id |-> id, field |-> NoField, value |-> {},
                                      step |-> "before", todo |-> {}]]
       \/ op' = [op EXCEPT ![p] = [kind |-> "delete", id |-> id, field |-> NoField, value |-> {},
                                   step |-> "read", todo |-> {}]]
  /\ UNCHANGED <<schema, live, ref, stack, kept, owed, faults>>

\* The row is read and the view, update or delete rule judges it: without a row
\* or against the rule the answer is an error.
Read(p) ==
  /\ op[p].step = "read"
  /\ \/ End(p) /\ UNCHANGED stack
     \/ /\ op[p].id \in live
        /\ op[p].kind = "update"
        /\ op' = [op EXCEPT ![p] = Checking(@)] /\ UNCHANGED stack
     \/ /\ op[p].id \in live
        /\ op[p].kind = "delete"
        /\ Goto(p, "cascade")
        /\ stack' = [stack EXCEPT ![p] = <<Call(op[p].id)>>]
  /\ UNCHANGED <<rows, counts, kept, owed, faults>>

\* One COUNT(*) per id the field is to hold: it must exist.
CheckTarget(p) ==
  /\ op[p].step = "check"
  /\ \E t \in op[p].todo :
       IF t \in live
       THEN op' = [op EXCEPT ![p] = Checking([op[p] EXCEPT !.todo = @ \ {t}])]
       ELSE End(p)
  /\ UNCHANGED <<rows, counts, stack, kept, owed, faults>>

\* Mutant: only a create looks for another row.
CheckUniqueOfCreates(p) ==
  /\ op[p].step = "unique"
  /\ LET taken == \E t \in op[p].value : Referrers(op[p].field, t) # {} IN
     IF taken /\ op[p].kind = "create" THEN End(p) ELSE Goto(p, "before")
  /\ UNCHANGED <<rows, counts, stack, kept, owed, faults>>

\* A 1:1 field may not hold what another row's holds.
CheckUnique(p) ==
  /\ op[p].step = "unique"
  /\ LET taken == \E t \in op[p].value : Referrers(op[p].field, t) \ {op[p].id} # {} IN
     IF taken THEN End(p) ELSE Goto(p, "before")
  /\ UNCHANGED <<rows, counts, stack, kept, owed, faults>>

\* Before hooks and before webhooks: the first that refuses ends the request.
RunBefore(p) ==
  /\ op[p].step = "before"
  /\ \/ Goto(p, "write")
     \/ op[p].id \in Vetoed /\ End(p)
  /\ UNCHANGED <<rows, counts, stack, kept, owed, faults>>

\* INSERT, which a row with that id refuses.
InsertRow(p) ==
  /\ op[p].step = "write" /\ op[p].kind = "create"
  /\ IF op[p].id \in live
     THEN End(p) /\ UNCHANGED <<rows, owed>>
     ELSE /\ live' = live \cup {op[p].id}
          /\ ref' = [ref EXCEPT ![op[p].id] =
                       [f \in Fields |-> IF f = op[p].field THEN op[p].value ELSE {}]]
          /\ owed' = owed \cup {<<p, op[p].id>>}
          /\ Goto(p, "fetch")
  /\ UNCHANGED <<counts, stack, kept, faults>>

\* UPDATE WHERE id: without a row nothing happens and the request goes on.
UpdateRow(p) ==
  /\ op[p].step = "write" /\ op[p].kind = "update"
  /\ IF op[p].id \in live
     THEN /\ ref' = [ref EXCEPT ![op[p].id][op[p].field] = op[p].value]
          /\ owed' = owed \cup {<<p, op[p].id>>}
     ELSE UNCHANGED <<ref, owed>>
  /\ Goto(p, "fetch")
  /\ UNCHANGED <<live, counts, stack, kept, faults>>

\* The row is read back; when it is gone the request ends with an error.
FetchBack(p) ==
  /\ op[p].step = "fetch"
  /\ IF op[p].id \in live THEN Goto(p, "announce") ELSE End(p)
  /\ UNCHANGED <<rows, counts, stack, kept, owed, faults>>

\* After webhooks, the realtime event and after hooks; then the answer.
Announce(p) ==
  /\ op[p].step = "announce"
  /\ owed' = owed \ {<<p, op[p].id>>}
  /\ End(p)
  /\ UNCHANGED <<rows, counts, stack, kept, faults>>

-----------------------------------------------------------------------------
(* deleteRecordAndCascade *)

At(p, step) == stack[p] # <<>> /\ Top(p).step = step

\* The call returns: the innermost one's caller goes on with its next row, the
\* outermost one's request answers.
Return(p) ==
  /\ stack' = [stack EXCEPT ![p] = SubSeq(@, 1, Len(@) - 1)]
  /\ IF Len(stack[p]) = 1 THEN End(p) ELSE UNCHANGED op

\* The call returns an error. In a cascade the error is only logged.
Refuse(p) ==
  /\ Return(p)
  /\ kept' = IF Len(stack[p]) = 1 THEN kept ELSE kept \cup ({Top(p).id} \cap live)

\* Mutant: lists are not searched.
CheckRestrictSingle(p) ==
  /\ At(p, "restrict")
  /\ \E f \in Top(p).todo :
       IF Card(f) # "M:N" /\ Referrers(f, Top(p).id) # {}
       THEN Refuse(p)
       ELSE SetTop(p, [Top(p) EXCEPT !.todo = @ \ {f}]) /\ UNCHANGED <<op, kept>>
  /\ UNCHANGED <<rows, counts, owed, faults>>

\* A RESTRICT field whose SELECT finds a row refuses the deletion.
CheckRestrict(p) ==
  /\ At(p, "restrict")
  /\ \E f \in Top(p).todo :
       IF Referrers(f, Top(p).id) # {}
       THEN Refuse(p)
       ELSE SetTop(p, [Top(p) EXCEPT !.todo = @ \ {f}]) /\ UNCHANGED <<op, kept>>
  /\ UNCHANGED <<rows, counts, owed, faults>>

\* Mutant: what points to the record is followed before the record is deleted.
FollowFirst(p) ==
  /\ At(p, "restrict") /\ Top(p).todo = {}
  /\ SetTop(p, [Top(p) EXCEPT !.step = "follow",
                  !.todo = {f \in Top(p).fields : Policy(f) # "RESTRICT"}])
  /\ UNCHANGED <<rows, op, counts, kept, owed, faults>>

\* Before hooks and the delete:before webhooks, also of a cascaded delete.
BeforeDelete(p) ==
  /\ At(p, "restrict") /\ Top(p).todo = {}
  /\ \/ SetTop(p, [Top(p) EXCEPT !.step = "remove"]) /\ UNCHANGED <<op, kept>>
     \/ Top(p).id \in Vetoed /\ Refuse(p)
  /\ UNCHANGED <<rows, counts, owed, faults>>

\* Mutant: a cascaded deletion is not announced.
RemoveRowSilently(p) ==
  LET id == Top(p).id IN
  /\ At(p, "remove")
  /\ live' = live \ {id}
  /\ ref' = [ref EXCEPT ![id] = Empty]
  /\ kept' = kept \ {id}
  /\ owed' = {x \in owed : x[2] # id} \cup (IF id \in live THEN {<<p, id>>} ELSE {})
  /\ SetTop(p, [Top(p) EXCEPT !.step = IF Len(stack[p]) = 1 THEN "announce" ELSE "follow"])
  /\ UNCHANGED <<op, counts, faults>>

\* DELETE WHERE id, which a missing row does not fail. Changes of the row that
\* were not announced are no longer owed: their fetch-back finds nothing.
RemoveRow(p) ==
  LET id == Top(p).id IN
  /\ At(p, "remove")
  /\ live' = live \ {id}
  /\ ref' = [ref EXCEPT ![id] = Empty]
  /\ kept' = kept \ {id}
  /\ owed' = {x \in owed : x[2] # id} \cup (IF id \in live THEN {<<p, id>>} ELSE {})
  /\ SetTop(p, [Top(p) EXCEPT !.step = "announce"])
  /\ UNCHANGED <<op, counts, faults>>

\* The deletion is announced, before anything that points to the record is
\* looked at.
AnnounceDelete(p) ==
  /\ At(p, "announce")
  /\ owed' = owed \ {<<p, Top(p).id>>}
  /\ SetTop(p, [Top(p) EXCEPT !.step = "follow",
                  !.todo = {f \in Top(p).fields : Policy(f) # "RESTRICT"}])
  /\ UNCHANGED <<rows, op, counts, kept, faults>>

NextField(p, f, kids) ==
  SetTop(p, [Top(p) EXCEPT !.todo = @ \ {f}, !.via = f, !.kids = kids])

\* CASCADE: SELECT the rows that reference the record.
FindChildren(p) ==
  /\ At(p, "follow") /\ Top(p).kids = {}
  /\ \E f \in Top(p).todo :
       /\ Policy(f) = "CASCADE"
       /\ NextField(p, f, {[row |-> r, rest |-> {}] : r \in Referrers(f, Top(p).id)})
  /\ UNCHANGED <<rows, op, counts, kept, owed, faults>>

\* The next of these rows, if it is still there, is deleted in a call of its own.
DeleteChild(p) ==
  /\ At(p, "follow")
  /\ \E k \in Top(p).kids :
       LET rest == [Top(p) EXCEPT !.kids = @ \ {k}] IN
       /\ Policy(Top(p).via) = "CASCADE"
       /\ stack' = [stack EXCEPT ![p] = SubSeq(@, 1, Len(@) - 1) \o <<rest>>
                                         \o (IF k.row \in live THEN <<Call(k.row)>> ELSE <<>>)]
  /\ UNCHANGED <<rows, op, counts, kept, owed, faults>>

\* SET_NULL of a single reference: one UPDATE clears the field in every row.
ClearField(p) ==
  /\ At(p, "follow") /\ Top(p).kids = {}
  /\ \E f \in Top(p).todo :
       /\ Policy(f) = "SET_NULL" /\ Card(f) # "M:N"
       /\ ref' = [r \in Ids |-> IF r \in Referrers(f, Top(p).id)
                                THEN [ref[r] EXCEPT ![f] = {}] ELSE ref[r]]
       /\ NextField(p, f, {})
  /\ UNCHANGED <<live, op, counts, kept, owed, faults>>

\* Mutant: the id is left in the lists.
FindListsWhole(p) ==
  /\ At(p, "follow") /\ Top(p).kids = {}
  /\ \E f \in Top(p).todo :
       /\ Policy(f) = "SET_NULL" /\ Card(f) = "M:N"
       /\ NextField(p, f, {[row |-> r, rest |-> ref[r][f]] : r \in Referrers(f, Top(p).id)})
  /\ UNCHANGED <<rows, op, counts, kept, owed, faults>>

\* SET_NULL of a list: SELECT the rows and their lists.
FindLists(p) ==
  /\ At(p, "follow") /\ Top(p).kids = {}
  /\ \E f \in Top(p).todo :
       /\ Policy(f) = "SET_NULL" /\ Card(f) = "M:N"
       /\ NextField(p, f, {[row |-> r, rest |-> ref[r][f] \ {Top(p).id}] :
                             r \in Referrers(f, Top(p).id)})
  /\ UNCHANGED <<rows, op, counts, kept, owed, faults>>

\* Then one UPDATE per row writes the list that was read, without the id.
RewriteList(p) ==
  /\ At(p, "follow")
  /\ \E k \in Top(p).kids :
       /\ Policy(Top(p).via) = "SET_NULL"
       /\ ref' = IF k.row \in live THEN [ref EXCEPT ![k.row][Top(p).via] = k.rest] ELSE ref
       /\ SetTop(p, [Top(p) EXCEPT !.kids = @ \ {k}])
  /\ UNCHANGED <<live, op, counts, kept, owed, faults>>

Followed(c) == c.step = "follow" /\ c.todo = {} /\ c.kids = {}

Deleted(p) ==
  /\ stack[p] # <<>> /\ Followed(Top(p))
  /\ Return(p)
  /\ UNCHANGED <<rows, counts, kept, owed, faults>>

-----------------------------------------------------------------------------
(* Failures *)

Fault == faults < MaxFaults /\ faults' = faults + 1

\* A statement of a create or update fails: an error answers the request, except
\* that a failed COUNT of the 1:1 check counts as nothing found.
StatementFails(p) ==
  /\ Fault
  /\ \/ op[p].step \in {"read", "write", "fetch"} /\ End(p)
     \/ op[p].step = "check" /\ op[p].todo # {} /\ End(p)
     \/ op[p].step = "unique" /\ Goto(p, "before")
  /\ owed' = owed \ {<<p, op[p].id>>}
  /\ UNCHANGED <<rows, counts, stack, kept>>

\* A statement of a delete fails. Only the DELETE itself reports it: without the
\* collections nothing is checked and nothing followed, a failed SELECT finds
\* nothing, a failed UPDATE is ignored.
DeleteStatementFails(p) ==
  /\ Fault
  /\ LET c == Top(p) IN
     \/ /\ At(p, "restrict") /\ c.todo = {f \in c.fields : Policy(f) = "RESTRICT"}
        /\ SetTop(p, [c EXCEPT !.fields = {}, !.todo = {}]) /\ UNCHANGED <<op, kept>>
     \/ /\ At(p, "restrict")
        /\ \E f \in c.todo : SetTop(p, [c EXCEPT !.todo = @ \ {f}]) /\ UNCHANGED <<op, kept>>
     \/ /\ At(p, "remove")
        /\ Refuse(p)
     \/ /\ At(p, "follow") /\ c.kids = {}
        /\ \E f \in c.todo : NextField(p, f, {}) /\ UNCHANGED <<op, kept>>
     \/ /\ At(p, "follow")
        /\ \E k \in c.kids : SetTop(p, [c EXCEPT !.kids = @ \ {k}]) /\ UNCHANGED <<op, kept>>
  /\ UNCHANGED <<rows, counts, owed>>

\* The process dies: what was committed stays, and nothing carries on.
Crash ==
  /\ Fault
  /\ UnderWay # {}
  /\ op' = [p \in Requests |-> Idle]
  /\ stack' = [p \in Requests |-> <<>>]
  /\ owed' = {}
  /\ UNCHANGED <<rows, counts, kept>>

-----------------------------------------------------------------------------
(* The specification *)

\* Rows as requests leave them that ran one after the other.
Sound(l, r) ==
  /\ \A i \in Ids \ l : r[i] = Empty
  /\ \A i \in l : \A f \in Fields : r[i][f] \subseteq l
  /\ \A f \in Fields : Card(f) = "1:1" =>
       \A i, j \in l : i # j => r[i][f] \cap r[j][f] = {}

Init ==
  /\ schema \in Schemas
  /\ live \in InitialLive
  /\ ref \in [Ids -> {v \in [Fields -> SUBSET Ids] : \A f \in Fields : v[f] \in Values(f)}]
  /\ \A i \in Ids : \A f \in Fields \ FieldsOf(MoulOf[i]) : ref[i][f] = {}
  /\ Sound(live, ref)
  /\ op = [p \in Requests |-> Idle]
  /\ stack = [p \in Requests |-> <<>>]
  /\ held = [p \in Requests |-> <<>>]
  /\ kept = {} /\ owed = {}
  /\ overlapped = FALSE /\ submitted = 0 /\ faults = 0

Write(p) ==
  \/ Read(p) \/ CheckTarget(p) \/ CheckUnique(p) \/ RunBefore(p)
  \/ InsertRow(p) \/ UpdateRow(p) \/ FetchBack(p) \/ Announce(p)

Delete(p) ==
  \/ CheckRestrict(p) \/ BeforeDelete(p) \/ RemoveRow(p) \/ AnnounceDelete(p)
  \/ FindChildren(p) \/ DeleteChild(p) \/ ClearField(p) \/ FindLists(p)
  \/ RewriteList(p) \/ Deleted(p)

Step ==
  \/ \E p \in Requests :
       Submit(p) \/ Write(p) \/ Delete(p) \/ StatementFails(p) \/ DeleteStatementFails(p)
  \/ Crash

Next == Step /\ Track

Spec == Init /\ [][Next]_vars

-----------------------------------------------------------------------------
(* Properties *)

Calls(p) == {stack[p][i] : i \in DOMAIN stack[p]}

TypeOK ==
  /\ schema \in Schemas
  /\ live \subseteq Ids
  /\ DOMAIN ref = Ids
  /\ \A i \in Ids : \A f \in Fields : ref[i][f] \subseteq {t \in Ids : MoulOf[t] = Target[f]}
  /\ \A p \in Requests :
       /\ op[p] = Idle \/ (op[p].kind \in Kinds /\ op[p].step \in OpSteps)
       /\ op[p].todo \subseteq op[p].value
       /\ (op[p].step = "cascade") = (stack[p] # <<>>)
       /\ DOMAIN held[p] = DOMAIN stack[p]
  /\ kept \subseteq live
  /\ owed \subseteq Requests \X Ids
  /\ submitted \in 0..MaxRequests /\ faults \in 0..MaxFaults

\* RESTRICT "rejects deletion of the target record if any child records
\* reference it": a deletion that got past its checks is not one that a row has
\* been referencing through a RESTRICT field since before it was asked for.
RestrictHonoured ==
  faults = 0 => \A p \in Requests : \A n \in DOMAIN stack[p] :
    stack[p][n].step \in {"remove", "announce", "follow"} =>
      \A x \in held[p][n] : Policy(x[2]) # "RESTRICT"

\* When a deletion is done, every row that pointed to the record from its start
\* was deleted, cleared or rewritten, or its own deletion was refused, whatever
\* other requests wrote meanwhile.
FollowedThrough ==
  faults = 0 => \A p \in Requests :
    stack[p] # <<>> /\ Followed(Top(p)) => \A x \in held[p][Len(stack[p])] : x[1] \in kept

\* Requests that come one after the other leave no reference to a missing
\* record, except in a row whose cascaded deletion was refused, and no 1:1 field
\* that two rows share.  Relations may form cycles, but a cascade enters each
\* record once: the row is gone before the rows that point to it are looked for.
SoundWhenAlone ==
  ~overlapped /\ faults = 0 =>
    /\ UnderWay = {} =>
         /\ \A i \in live \ kept : \A f \in Fields : ref[i][f] \subseteq live
         /\ \A f \in Fields : Card(f) = "1:1" =>
              \A i, j \in live : i # j => ref[i][f] \cap ref[j][f] = {}
    /\ \A p \in Requests : \A m, n \in DOMAIN stack[p] :
         m # n => stack[p][m].id # stack[p][n].id

\* Every change reaches the webhooks, streams and after hooks: one that is not
\* announced yet is in the hands of a request that is still about to, or its row
\* was removed in the meantime, by a deletion that is itself announced.
ChangesAnnounced ==
  \A x \in owed : LET p == x[1] IN
    \/ op[p].id = x[2] /\ op[p].step \in {"fetch", "announce"}
    \/ \E c \in Calls(p) : c.id = x[2] /\ c.step = "announce"

\* What the documentation says of CASCADE and a RESTRICT below it breaks.

\* "Deleting the parent record automatically deletes all child records
\* referencing it."
CascadeComplete ==
  UnderWay = {} => \A f \in Fields : Policy(f) = "CASCADE" =>
    \A i \in live : ref[i][f] \subseteq live

============================================================================
