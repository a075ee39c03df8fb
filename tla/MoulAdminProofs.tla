--------------------------- MODULE MoulAdminProofs ---------------------------
(***************************************************************************)
(* Proofs about the administration of collections, for any requests,       *)
(* names, columns, schemas and bounds.                                     *)
(*                                                                         *)
(* A request that nobody joined is alone (AloneInv), so that an update     *)
(* that goes on after its look at the table has made of the table what is  *)
(* gone through of its lists (Progress).  Of the catalogue, the file       *)
(* references and the unique indexes the invariants say what each step of  *)
(* a single request has left behind (AgreeInv, RefsInv, UniqueInv).        *)
(***************************************************************************)
EXTENDS MoulAdmin, TLAPS

Types == {"none", "TEXT", "NUMERIC"}

RequestSet ==
  [kind : {"create", "update", "delete"}, name : Names, target : Names, def : Definitions,
   step : AdminSteps, seen : [Columns -> Types], add : SUBSET Columns, drop : SUBSET Columns,
   index : SUBSET Columns, alone : BOOLEAN]

\* The steps of an update before it has written anything.
FirstSteps == {"load", "checkName", "rename"}

\* The steps at which a request works through its lists.
ListSteps == {"add", "drop", "index"}

\* Which request is at which step, with what in its lists.
Plausible(r) ==
  /\ r.kind # "update" => r.target = r.name
  /\ r.step \in {"checkName", "rename", "moveRefs"} => r.name # r.target
  /\ r.step \in {"checkName", "rename", "moveRefs", "inspect", "add", "drop", "rebuild"} =>
       r.kind = "update"
  /\ r.step \in {"dropTable", "dropRefs"} => r.kind = "delete"
  /\ r.step \in {"createTable", "index"} => r.kind # "delete"
  /\ r.step = "load" => r.kind # "create"
  /\ r.add \subseteq FieldsIn(r.def) /\ r.index \subseteq FieldsIn(r.def)
  /\ r.drop \cap FieldsIn(r.def) = {}
  /\ r.kind = "create" => r.index \subseteq UniqueIn(r.def) /\ r.add = {} /\ r.drop = {}

RequestsTyped ==
  /\ request \in [Admins -> RequestSet \cup {NoRequest}]
  /\ \A p \in Active : Plausible(request[p])

TablesTyped ==
  /\ catalog \in [Names -> Definitions \cup {NoEntry}]
  /\ tables \in [Names -> TableContents \cup {NoTable}]
  /\ indexed \in [Names \X Columns -> Names \cup {NoName}]
  /\ fileRefs \in [Names -> BOOLEAN]

CountsTyped ==
  /\ asked \in 0..MaxAsked /\ failures \in 0..MaxFailures
  /\ concurrent \in BOOLEAN /\ halfDone \in BOOLEAN /\ renamed \in BOOLEAN

\* An index is on a table that exists and has no value twice in its column.
IndexesHold ==
  \A n \in Names : \A c \in Columns : indexed[<<n, c>>] # NoName =>
    Exists(indexed[<<n, c>>]) /\ c \notin tables[indexed[<<n, c>>]].dups

AdminTypes == RequestsTyped /\ TablesTyped /\ CountsTyped

-----------------------------------------------------------------------------
(* The inductive invariants *)

\* A column that had its type when r inspected the table has it still.
AsSeen(r) ==
  \A c \in FieldsIn(r.def) :
    r.seen[c] = SqlType[r.def[c]] => tables[r.target].type[c] = SqlType[r.def[c]]

\* The columns that r has been through are as its schema has them.
Progress(r) ==
  /\ Exists(r.target) /\ AsSeen(r)
  /\ \A c \in FieldsIn(r.def) \ r.add : tables[r.target].type[c] = SqlType[r.def[c]]
  /\ \A c \in Columns \ (FieldsIn(r.def) \cup r.drop) : tables[r.target].type[c] = "none"

UpdateAlone(r) ==
  /\ r.step \in ListSteps => Progress(r)
  /\ r.step = "rebuild" => AsSeen(r)
  /\ r.step = "metadata" => Fits(r.target, r.def)
  /\ r.step = "createTable" => ~Exists(r.target)

AloneInv ==
  /\ ~concurrent => \A p \in Active : request[p].alone
  /\ \A p \in Active : request[p].alone =>
       Active = {p} /\ (request[p].kind = "update" => UpdateAlone(request[p]))

Agrees(n) == IF Catalogued(n) THEN Fits(n, catalog[n]) ELSE ~Exists(n)

\* What a create, a delete and an update have left of the agreement so far.
CreateAgrees(r) ==
  IF Catalogued(r.name) THEN Fits(r.name, catalog[r.name])
  ELSE IF r.step = "createTable" THEN ~Exists(r.name)
  ELSE Fits(r.name, r.def) /\ tables[r.name].dups = {}

DeleteAgrees(r) == IF r.step = "metadata" THEN ~Exists(r.name) ELSE Agrees(r.name)

UpdateAgrees(r) ==
  /\ r.step # "load" => Catalogued(r.name)
  /\ r.step = "rename" => ~Catalogued(r.target)
  /\ r.step \in FirstSteps => Agrees(r.name) /\ Agrees(r.target)
  /\ r.step \notin FirstSteps =>
       Exists(r.target) /\ (r.name # r.target => ~Catalogued(r.target) /\ ~Exists(r.name))

AgreesBut(r) ==
  /\ \A n \in Names \ {r.name, r.target} : Agrees(n)
  /\ r.kind = "create" => CreateAgrees(r)
  /\ r.kind = "delete" => DeleteAgrees(r)
  /\ r.kind = "update" => UpdateAgrees(r)

AgreeInv ==
  Undisturbed =>
    /\ Active = {} => \A n \in Names : Agrees(n)
    /\ \A p \in Active : AgreesBut(request[p])

\* The file references of n wait for r to move or to drop them.
RefsWait(r, n) ==
  /\ n = r.name
  /\ \/ r.step = "moveRefs"
     \/ r.kind = "delete" /\ r.step \in {"metadata", "dropRefs"}

RefsInv ==
  ~concurrent /\ failures = 0 =>
    /\ \A n \in Names : fileRefs[n] => Exists(n) \/ \E p \in Active : RefsWait(request[p], n)
    /\ \A p \in Active : request[p].step = "moveRefs" => Exists(request[p].target)

\* The indexes of n are not those of its row in the catalogue.
Reindexing(r, n) ==
  /\ n = r.name
  /\ \/ r.kind = "update" /\ r.step \notin FirstSteps
     \/ r.kind = "delete" /\ r.step = "metadata"

\* The unique fields that r has indexed.
Indexed(r) == UniqueIn(r.def) \ (IF r.step = "metadata" THEN {} ELSE r.index)

\* Each index is on the table that its name says.
OwnIndexes == \A n \in Names : \A c \in Columns : indexed[<<n, c>>] \in {n, NoName}

RowIndexed(n) == Catalogued(n) => \A c \in UniqueIn(catalog[n]) : indexed[<<n, c>>] = n

RequestIndexed(r) ==
  /\ r.step \notin FirstSteps => r.name = r.target
  /\ r.kind # "delete" /\ r.step \in ListSteps \cup {"metadata"} =>
       \A c \in Indexed(r) : indexed[<<r.target, c>>] = r.target

UniqueInv ==
  Undisturbed /\ ~renamed =>
    /\ OwnIndexes
    /\ \A n \in Names : RowIndexed(n) \/ \E p \in Active : Reindexing(request[p], n)
    /\ \A p \in Active : RequestIndexed(request[p])

AdminInv == AdminTypes /\ IndexesHold /\ AloneInv /\ AgreeInv /\ RefsInv /\ UniqueInv

-----------------------------------------------------------------------------
(* Types *)

LEMMA Absent ==
  /\ NoTable \notin TableContents
  /\ NoEntry \notin Definitions
  /\ NoRequest \notin RequestSet
  /\ \A def \in Definitions : TypesOf(def) \in [Columns -> Types]
  /\ Nothing \in [Columns -> Types]
<1>1. NoTable \notin TableContents
  BY DEF NoTable, TableContents
<1>2. NoEntry \notin Definitions
  BY MoulAdminAssumption DEF NoEntry
<1>3. NoRequest \notin RequestSet
  BY DEF NoRequest, RequestSet, AdminSteps
<1>4. \A def \in Definitions : TypesOf(def) \in [Columns -> Types]
  BY MoulAdminAssumption DEF TypesOf, SqlType, Types, FieldKinds
<1>5. Nothing \in [Columns -> Types]
  BY DEF Nothing, Types
<1> QED
  BY <1>1, <1>2, <1>3, <1>4, <1>5

LEMMA Requested ==
  ASSUME RequestsTyped, NEW p \in Admins
  PROVE  /\ request[p] # NoRequest => p \in Active /\ request[p] \in RequestSet
                                      /\ Plausible(request[p])
         /\ request[p] = NoRequest => p \notin Active
         /\ request[p].step \in AdminSteps => request[p] # NoRequest
BY DEF RequestsTyped, Active, NoRequest, AdminSteps

LEMMA RemainingTyped ==
  ASSUME NEW r \in RequestSet, Plausible(r), r.kind # "delete",
         r.kind = "create" => r.step \in {"createTable", "index"}
  PROVE  /\ Remaining(r) \in RequestSet /\ Plausible(Remaining(r))
         /\ Remaining(r).step \in ListSteps \cup {"metadata"}
         /\ Remaining(r) = [r EXCEPT !.step = Remaining(r).step]
         /\ Remaining(r).step = "metadata" => r.add = {} /\ r.drop = {} /\ r.index = {}
<1>1. PICK s \in ListSteps \cup {"metadata"} :
        /\ Remaining(r) = [r EXCEPT !.step = s]
        /\ s = "metadata" => r.add = {} /\ r.drop = {} /\ r.index = {}
        /\ s = "add" => r.add # {}
        /\ s = "drop" => r.drop # {}
  BY DEF Remaining, ListSteps
<1> DEFINE x == [r EXCEPT !.step = s]
<1>2. x \in RequestSet /\ x.step = s
  BY DEF RequestSet, ListSteps, AdminSteps
<1>3. /\ x.kind = r.kind /\ x.name = r.name /\ x.target = r.target /\ x.def = r.def
      /\ x.add = r.add /\ x.drop = r.drop /\ x.index = r.index /\ r.kind \in {"create", "update"}
  BY DEF RequestSet
<1> HIDE DEF x
<1>4. Plausible(x)
  BY <1>1, <1>2, <1>3 DEF Plausible, ListSteps
<1> QED
  BY <1>1, <1>2, <1>4 DEF x

\* p's request becomes x, or is answered.
Becomes(p, x) ==
  /\ request' = [request EXCEPT ![p] = x]
  /\ x = NoRequest \/ (x \in RequestSet /\ Plausible(x))

LEMMA BecomesTyped ==
  ASSUME RequestsTyped, NEW p \in Admins, NEW x, Becomes(p, x)
  PROVE  RequestsTyped'
<1>1. request' \in [Admins -> RequestSet \cup {NoRequest}]
  BY DEF RequestsTyped, Becomes
<1>2. \A q \in Active' : Plausible(request'[q])
  BY DEF RequestsTyped, Becomes, Active
<1> QED
  BY <1>1, <1>2 DEF RequestsTyped, Plausible

Same(x, r) ==
  /\ x.kind = r.kind /\ x.name = r.name /\ x.target = r.target /\ x.def = r.def
  /\ x.alone = r.alone

Lists(x, r) == x.seen = r.seen /\ x.add = r.add /\ x.drop = r.drop /\ x.index = r.index

\* p's request, still the same, becomes x.
Turns(p, x) == Becomes(p, x) /\ x \in RequestSet /\ Plausible(x) /\ Same(x, request[p])

\* It goes to a step.
Stepped(p, s) == \E x : Turns(p, x) /\ Lists(x, request[p]) /\ x.step = s

\* It goes to the next step of its lists, which are those of r.
Resumed(p, r) ==
  \E x : /\ Turns(p, x) /\ Lists(x, r) /\ x.step \in ListSteps \cup {"metadata"}
         /\ x.step = "metadata" => x.add = {} /\ x.drop = {} /\ x.index = {}

Working(p) == p \in Active /\ request[p] \in RequestSet /\ Plausible(request[p])

LEMMA AnswerBecomes ==
  ASSUME NEW p \in Admins, Answer(p)
  PROVE  Becomes(p, NoRequest)
BY DEF Answer, Becomes

LEMMA StepBecomes ==
  ASSUME RequestsTyped, NEW p \in Admins, NEW s \in AdminSteps, Working(p),
         request' = [request EXCEPT ![p].step = s],
         s \in {"checkName", "rename", "moveRefs"} => request[p].name # request[p].target,
         s \in {"checkName", "rename", "moveRefs", "inspect", "add", "drop", "rebuild"} =>
           request[p].kind = "update",
         s \in {"dropTable", "dropRefs"} => request[p].kind = "delete",
         s \in {"createTable", "index"} => request[p].kind # "delete",
         s # "load"
  PROVE  Stepped(p, s)
<1> DEFINE x == [request[p] EXCEPT !.step = s]
<1>1. request' = [request EXCEPT ![p] = x]
  OBVIOUS
<1>2. x \in RequestSet /\ x.step = s
  BY DEF RequestSet, Working
<1>3. Same(x, request[p]) /\ Lists(x, request[p])
  BY DEF RequestSet, Working, Same, Lists
<1> HIDE DEF x
<1>4. Plausible(x)
  BY <1>2, <1>3 DEF Plausible, Same, Lists, Working
<1> QED
  BY <1>1, <1>2, <1>3, <1>4 DEF Becomes, Turns, Stepped

LEMMA ProceedBecomes ==
  ASSUME RequestsTyped, NEW p \in Admins, NEW s \in AdminSteps, Proceed(p, s), Working(p),
         s \in {"checkName", "rename", "moveRefs"} => request[p].name # request[p].target,
         s \in {"checkName", "rename", "moveRefs", "inspect", "add", "drop", "rebuild"} =>
           request[p].kind = "update",
         s \in {"dropTable", "dropRefs"} => request[p].kind = "delete",
         s \in {"createTable", "index"} => request[p].kind # "delete",
         s # "load"
  PROVE  Stepped(p, s)
BY StepBecomes DEF Proceed

LEMMA ResumeBecomes ==
  ASSUME NEW p \in Admins, NEW r \in RequestSet, Plausible(r), r.kind # "delete",
         r.kind = "create" => r.step \in {"createTable", "index"},
         Same(r, request[p]), Resume(p, r)
  PROVE  Resumed(p, r)
<1> DEFINE x == Remaining(r)
<1>1. /\ x \in RequestSet /\ Plausible(x) /\ x.step \in ListSteps \cup {"metadata"}
      /\ x = [r EXCEPT !.step = x.step]
      /\ x.step = "metadata" => r.add = {} /\ r.drop = {} /\ r.index = {}
  BY RemainingTyped
<1>2. request' = [request EXCEPT ![p] = x]
  BY DEF Resume
<1> HIDE DEF x
<1>3. PICK s : x = [r EXCEPT !.step = s]
  BY <1>1
<1>4. Same(x, r) /\ Lists(x, r)
  BY <1>3 DEF RequestSet, Same, Lists
<1>5. Same(x, request[p])
  BY <1>4 DEF Same
<1>6. x.step = "metadata" => x.add = {} /\ x.drop = {} /\ x.index = {}
  BY <1>1, <1>4 DEF Lists
<1> QED
  BY <1>1, <1>2, <1>4, <1>5, <1>6 DEF Becomes, Turns, Resumed

\* The values of NoRequest.
NoRequestSet ==
  [kind : {"none"}, name : {NoName}, target : {NoName}, def : {Nothing}, step : {"none"},
   seen : {Nothing}, add : {{}}, drop : {{}}, index : {{}}, alone : {FALSE}]

LEMMA NoRequestStays == [NoRequest EXCEPT !.alone = FALSE] = NoRequest
<1>1. NoRequest \in NoRequestSet
  BY DEF NoRequest, NoRequestSet
<1>2. NoRequest.alone = FALSE
  BY DEF NoRequest
<1>3. [NoRequest EXCEPT !.alone = NoRequest.alone] = NoRequest
  BY <1>1 DEF NoRequestSet
<1> QED
  BY <1>2, <1>3

\* What each action makes of its request.
LEMMA AskBecomes ==
  ASSUME AdminTypes, NEW p \in Admins, Ask(p)
  PROVE  \E x \in RequestSet :
           /\ Plausible(x) /\ x.step \in {"createTable", "load"} /\ x.alone = (Active = {})
           /\ x.kind = "create" <=> x.step = "createTable"
           /\ request' = [q \in Admins |-> IF q = p THEN x
                                           ELSE [request[q] EXCEPT !.alone = FALSE]]
<1>1. PICK kind \in {"create", "update", "delete"}, n \in Names, t \in Names,
           def \in Definitions :
        /\ kind # "update" => n = t
        /\ LET r == [NoRequest EXCEPT !.kind = kind, !.name = n, !.target = t, !.def = def,
                       !.step = IF kind = "create" THEN "createTable" ELSE "load",
                       !.alone = (Active = {})]
           IN request' = [q \in Admins |-> IF q = p THEN r
                                           ELSE [request[q] EXCEPT !.alone = FALSE]]
  BY DEF Ask
<1> DEFINE x == [NoRequest EXCEPT !.kind = kind, !.name = n, !.target = t, !.def = def,
                   !.step = IF kind = "create" THEN "createTable" ELSE "load",
                   !.alone = (Active = {})]
<1>2. /\ x.kind = kind /\ x.name = n /\ x.target = t /\ x.def = def
      /\ x.step = (IF kind = "create" THEN "createTable" ELSE "load")
      /\ x.add = {} /\ x.drop = {} /\ x.index = {} /\ x.alone = (Active = {})
  BY DEF NoRequest
<1>3. x \in RequestSet
  <2>1. NoRequest \in NoRequestSet
    BY DEF NoRequest, NoRequestSet
  <2> QED
    BY <2>1, Absent DEF RequestSet, AdminSteps, NoRequestSet
<1>4. request' = [q \in Admins |-> IF q = p THEN x ELSE [request[q] EXCEPT !.alone = FALSE]]
  BY <1>1
<1> HIDE DEF x
<1>5. Plausible(x)
  BY <1>1, <1>2 DEF Plausible
<1> QED
  BY <1>2, <1>3, <1>4, <1>5

LEMMA AskTyped ==
  ASSUME AdminTypes, NEW p \in Admins, Ask(p)
  PROVE  RequestsTyped'
<1>1. PICK x \in RequestSet :
        /\ Plausible(x)
        /\ request' = [q \in Admins |-> IF q = p THEN x
                                        ELSE [request[q] EXCEPT !.alone = FALSE]]
  BY AskBecomes
<1>2. ASSUME NEW q \in Admins, q # p
      PROVE  /\ request'[q] \in RequestSet \cup {NoRequest}
             /\ request'[q] # NoRequest => Plausible(request'[q])
  <2>1. request'[q] = [request[q] EXCEPT !.alone = FALSE]
    BY <1>1, <1>2
  <2>2. CASE request[q] = NoRequest
    BY <2>1, <2>2, NoRequestStays
  <2>3. CASE request[q] # NoRequest
    <3>1. request[q] \in RequestSet /\ Plausible(request[q])
      BY <2>3, Requested DEF AdminTypes
    <3>2. request'[q] \in RequestSet
      BY <2>1, <3>1 DEF RequestSet
    <3>3. Plausible(request'[q])
      BY <2>1, <3>1 DEF RequestSet, Plausible
    <3> QED
      BY <3>2, <3>3
  <2> QED
    BY <2>2, <2>3
<1>3. request' \in [Admins -> RequestSet \cup {NoRequest}]
  BY <1>1, <1>2
<1>4. \A q \in Active' : Plausible(request'[q])
  BY <1>1, <1>2 DEF Active
<1> QED
  BY <1>3, <1>4 DEF RequestsTyped, Plausible

LEMMA WorksAt ==
  ASSUME AdminTypes, NEW p \in Admins, NEW s \in AdminSteps, At(p, s)
  PROVE  Working(p) /\ request[p].step = s
BY Requested, Absent DEF AdminTypes, At, Working, RequestsTyped

LEMMA LoadDoes ==
  ASSUME AdminTypes, NEW p \in Admins, Load(p)
  PROVE  /\ Working(p) /\ At(p, "load")
         /\ \/ Becomes(p, NoRequest) /\ ~Catalogued(request[p].name)
            \/ /\ Catalogued(request[p].name)
               /\ \/ Stepped(p, "dropTable") /\ request[p].kind = "delete"
                  \/ Stepped(p, "checkName") /\ request[p].kind = "update"
                     /\ request[p].name # request[p].target
                  \/ Stepped(p, "inspect") /\ request[p].kind = "update"
                     /\ request[p].name = request[p].target
<1>1. Working(p) /\ At(p, "load")
  BY WorksAt DEF Load, AdminSteps
<1>2. request[p].kind \in {"delete", "update"}
  BY <1>1 DEF Working, At, Plausible, RequestSet
<1>3. CASE ~Catalogued(request[p].name)
  BY <1>1, <1>3, AnswerBecomes DEF Load
<1>4. CASE Catalogued(request[p].name) /\ request[p].kind = "delete"
  <2>1. Proceed(p, "dropTable")
    BY <1>4 DEF Load
  <2>2. Stepped(p, "dropTable")
    BY <1>1, <1>4, <2>1, ProceedBecomes DEF AdminTypes, AdminSteps
  <2> QED
    BY <1>1, <1>4, <2>2
<1>5. CASE /\ Catalogued(request[p].name) /\ request[p].kind = "update"
           /\ request[p].name # request[p].target
  <2>1. Proceed(p, "checkName")
    BY <1>5 DEF Load
  <2>2. Stepped(p, "checkName")
    BY <1>1, <1>5, <2>1, ProceedBecomes DEF AdminTypes, AdminSteps
  <2> QED
    BY <1>1, <1>5, <2>2
<1>6. CASE /\ Catalogued(request[p].name) /\ request[p].kind = "update"
           /\ request[p].name = request[p].target
  <2>1. Proceed(p, "inspect")
    BY <1>6 DEF Load
  <2>2. Stepped(p, "inspect")
    BY <1>1, <1>6, <2>1, ProceedBecomes DEF AdminTypes, AdminSteps
  <2> QED
    BY <1>1, <1>6, <2>2
<1> QED
  BY <1>2, <1>3, <1>4, <1>5, <1>6

LEMMA CheckNameDoes ==
  ASSUME AdminTypes, NEW p \in Admins, CheckName(p)
  PROVE  /\ Working(p) /\ At(p, "checkName")
         /\ \/ Becomes(p, NoRequest) /\ UNCHANGED <<adminHistory, failures>>
            \/ Stepped(p, "rename") /\ UNCHANGED adminHistory
               /\ (failures' = failures => ~Catalogued(request[p].target))
<1>1. Working(p) /\ At(p, "checkName")
  BY WorksAt DEF CheckName, AdminSteps
<1>2. CASE Answer(p) /\ UNCHANGED <<adminHistory, failures>>
  BY <1>1, <1>2, AnswerBecomes
<1>3. CASE Proceed(p, "rename")
           /\ IF Catalogued(request[p].target)
              THEN failures < MaxFailures /\ failures' = failures + 1
              ELSE UNCHANGED failures
  <2>1. request[p].kind = "update" /\ request[p].name # request[p].target
    BY <1>1 DEF Working, At, Plausible
  <2>2. Stepped(p, "rename")
    BY <1>1, <1>3, <2>1, ProceedBecomes DEF AdminTypes, AdminSteps
  <2>3. failures' = failures => ~Catalogued(request[p].target)
    BY <1>3, MoulAdminAssumption DEF AdminTypes, CountsTyped
  <2> QED
    BY <1>1, <1>3, <2>2, <2>3 DEF Proceed
<1> QED
  BY <1>2, <1>3 DEF CheckName

\* The request is given up, which leaves an update half done.
Quits(p) ==
  /\ Becomes(p, NoRequest)
  /\ halfDone' = (halfDone \/ request[p].kind = "update")
  /\ UNCHANGED <<concurrent, renamed>>

LEMMA GiveUpQuits ==
  ASSUME NEW p \in Admins, GiveUp(p)
  PROVE  Quits(p)
BY AnswerBecomes DEF GiveUp, Quits

LEMMA RenameDoes ==
  ASSUME AdminTypes, NEW p \in Admins, RenameTable(p)
  PROVE  /\ Working(p) /\ At(p, "rename")
         /\ request[p].kind = "update" /\ request[p].name # request[p].target
         /\ \/ /\ Stepped(p, "moveRefs") /\ renamed' = TRUE /\ UNCHANGED <<concurrent, halfDone>>
               /\ Exists(request[p].name) /\ ~Exists(request[p].target)
               /\ tables' = [tables EXCEPT ![request[p].name] = NoTable,
                                           ![request[p].target] = tables[request[p].name]]
               /\ indexed' = [i \in Names \X Columns |->
                                IF indexed[i] = request[p].name THEN request[p].target
                                ELSE indexed[i]]
            \/ /\ Quits(p) /\ UNCHANGED <<tables, indexed>>
               /\ ~Exists(request[p].name) \/ Exists(request[p].target)
<1>1. Working(p) /\ At(p, "rename")
  BY WorksAt DEF RenameTable, AdminSteps
<1>2. request[p].kind = "update" /\ request[p].name # request[p].target
  BY <1>1 DEF Working, At, Plausible
<1>3. ASSUME request' = [request EXCEPT ![p].step = "moveRefs"]
      PROVE  Stepped(p, "moveRefs")
  BY <1>1, <1>2, <1>3, StepBecomes DEF AdminTypes, AdminSteps
<1>4. CASE ~Exists(request[p].name) \/ Exists(request[p].target)
  BY <1>1, <1>2, <1>4, GiveUpQuits DEF RenameTable
<1>5. CASE Exists(request[p].name) /\ ~Exists(request[p].target)
  <2>1. /\ tables' = [tables EXCEPT ![request[p].name] = NoTable,
                                    ![request[p].target] = tables[request[p].name]]
        /\ indexed' = [i \in Names \X Columns |->
                         IF indexed[i] = request[p].name THEN request[p].target ELSE indexed[i]]
        /\ request' = [request EXCEPT ![p].step = "moveRefs"]
        /\ renamed' = TRUE /\ UNCHANGED <<concurrent, halfDone>>
    BY <1>5 DEF RenameTable
  <2> QED
    BY <1>1, <1>2, <1>3, <1>5, <2>1
<1> QED
  BY <1>4, <1>5

LEMMA MoveRefsDoes ==
  ASSUME AdminTypes, NEW p \in Admins, MoveRefs(p)
  PROVE  /\ Working(p) /\ At(p, "moveRefs")
         /\ request[p].kind = "update" /\ request[p].name # request[p].target
         /\ Stepped(p, "inspect") /\ UNCHANGED adminHistory
<1>1. Working(p) /\ At(p, "moveRefs") /\ Proceed(p, "inspect")
  BY WorksAt DEF MoveRefs, AdminSteps
<1>2. request[p].kind = "update" /\ request[p].name # request[p].target
  BY <1>1 DEF Working, At, Plausible
<1>3. Stepped(p, "inspect")
  BY <1>1, <1>2, ProceedBecomes DEF AdminTypes, AdminSteps
<1> QED
  BY <1>1, <1>2, <1>3 DEF Proceed

\* The columns that the table of p has.
SeenBy(p) == IF Exists(request[p].target) THEN tables[request[p].target].type ELSE Nothing

LEMMA SeenTyped ==
  ASSUME AdminTypes, NEW p \in Admins, Working(p)
  PROVE  SeenBy(p) \in [Columns -> Types]
BY Absent DEF AdminTypes, TablesTyped, Working, RequestSet, SeenBy, Exists, TableContents, Types

LEMMA InspectDoes ==
  ASSUME AdminTypes, NEW p \in Admins, Inspect(p)
  PROVE  /\ Working(p) /\ At(p, "inspect") /\ request[p].kind = "update"
         /\ UNCHANGED adminHistory
         /\ \/ Stepped(p, "createTable") /\ ~Exists(request[p].target)
            \/ /\ Exists(request[p].target)
               /\ \E x : /\ Turns(p, x) /\ x.step = "rebuild" /\ x.seen = SeenBy(p)
                         /\ x.index = request[p].index
            \/ /\ Exists(request[p].target) /\ ~Changed(SeenBy(p), request[p].def)
               /\ \E r : /\ Resumed(p, r) /\ r.seen = SeenBy(p)
                         /\ r.add = {c \in FieldsIn(request[p].def) : SeenBy(p)[c] = "none"}
                         /\ r.drop = {c \in Columns \ FieldsIn(request[p].def) :
                                        SeenBy(p)[c] # "none"}
                         /\ r.index = FieldsIn(request[p].def)
<1>1. Working(p) /\ At(p, "inspect") /\ request[p].step = "inspect"
  BY WorksAt DEF Inspect, AdminSteps
<1>2. request[p].kind = "update"
  BY <1>1 DEF Working, Plausible
<1>3. request[p] \in RequestSet /\ SeenBy(p) \in [Columns -> Types]
  BY <1>1, SeenTyped DEF Working
<1> DEFINE s == [request[p] EXCEPT !.seen = SeenBy(p)]
<1>4. CASE ~Exists(request[p].target)
  <2>1. Proceed(p, "createTable")
    BY <1>4 DEF Inspect
  <2>2. Stepped(p, "createTable")
    BY <1>1, <1>2, <2>1, ProceedBecomes DEF AdminTypes, AdminSteps
  <2> QED
    BY <1>1, <1>2, <1>4, <2>1, <2>2 DEF Proceed
<1>5. CASE Exists(request[p].target) /\ Changed(SeenBy(p), request[p].def)
  <2> DEFINE x == [s EXCEPT !.step = "rebuild"]
  <2>1. request' = [request EXCEPT ![p] = x] /\ UNCHANGED adminHistory
    BY <1>5 DEF Inspect, SeenBy
  <2>2. x \in RequestSet /\ x.step = "rebuild" /\ x.seen = SeenBy(p) /\ Same(x, request[p])
        /\ x.index = request[p].index /\ x.add = request[p].add /\ x.drop = request[p].drop
    BY <1>3 DEF RequestSet, AdminSteps, Same
  <2> HIDE DEF x
  <2>3. Plausible(x)
    BY <1>1, <1>2, <2>2 DEF Plausible, Working, Same
  <2>4. Turns(p, x)
    BY <2>1, <2>2, <2>3 DEF Turns, Becomes
  <2> QED
    BY <1>1, <1>2, <1>5, <2>1, <2>2, <2>4
<1>6. CASE Exists(request[p].target) /\ ~Changed(SeenBy(p), request[p].def)
  <2> DEFINE r == [s EXCEPT
                     !.add = {c \in FieldsIn(request[p].def) : SeenBy(p)[c] = "none"},
                     !.drop = {c \in Columns \ FieldsIn(request[p].def) : SeenBy(p)[c] # "none"},
                     !.index = FieldsIn(request[p].def)]
  <2>1. Resume(p, r)
    BY <1>6 DEF Inspect, SeenBy
  <2>2. /\ r \in RequestSet /\ r.seen = SeenBy(p) /\ Same(r, request[p])
        /\ r.step = request[p].step
        /\ r.add = {c \in FieldsIn(request[p].def) : SeenBy(p)[c] = "none"}
        /\ r.drop = {c \in Columns \ FieldsIn(request[p].def) : SeenBy(p)[c] # "none"}
        /\ r.index = FieldsIn(request[p].def)
    BY <1>3 DEF RequestSet, FieldsIn, Same
  <2> HIDE DEF r
  <2>3. Plausible(r)
    BY <1>1, <1>2, <2>2 DEF Plausible, Working, Same, FieldsIn
  <2>4. Resumed(p, r)
    BY <1>2, <2>1, <2>2, <2>3, ResumeBecomes DEF Same
  <2> QED
    BY <1>1, <1>2, <1>6, <2>1, <2>2, <2>4 DEF Resume
<1> QED
  BY <1>4, <1>5, <1>6

LEMMA CreateTableDoes ==
  ASSUME AdminTypes, NEW p \in Admins, CreateTable(p)
  PROVE  /\ Working(p) /\ At(p, "createTable") /\ request[p].kind \in {"create", "update"}
         /\ UNCHANGED adminHistory
         /\ tables' = [tables EXCEPT ![request[p].target] =
                         IF Exists(request[p].target) THEN @
                         ELSE [type |-> TypesOf(request[p].def), filled |-> {}, dups |-> {},
                               altered |-> {}]]
         /\ \E r : /\ Resumed(p, r) /\ r.add = request[p].add /\ r.drop = request[p].drop
                   /\ r.index = UniqueIn(request[p].def)
<1>1. Working(p) /\ At(p, "createTable") /\ request[p].step = "createTable"
  BY WorksAt DEF CreateTable, AdminSteps
<1>2. request[p].kind \in {"create", "update"} /\ request[p].kind # "delete"
  BY <1>1 DEF Working, Plausible, RequestSet
<1> DEFINE r == [request[p] EXCEPT !.index = UniqueIn(request[p].def)]
<1>3. Resume(p, r)
  BY DEF CreateTable
<1>4. /\ r \in RequestSet /\ Same(r, request[p]) /\ r.add = request[p].add
      /\ r.drop = request[p].drop /\ r.index = UniqueIn(request[p].def)
      /\ r.step = "createTable"
  BY <1>1 DEF RequestSet, UniqueIn, Same, Working
<1> HIDE DEF r
<1>5. Plausible(r)
  BY <1>1, <1>2, <1>4 DEF Plausible, Working, Same, FieldsIn, UniqueIn
<1>6. Resumed(p, r)
  BY <1>2, <1>3, <1>4, <1>5, ResumeBecomes DEF Same
<1> QED
  BY <1>1, <1>2, <1>3, <1>4, <1>6 DEF CreateTable, Resume

LEMMA AddDoes ==
  ASSUME AdminTypes, NEW p \in Admins, AddColumn(p)
  PROVE  /\ Working(p) /\ At(p, "add") /\ request[p].kind = "update"
         /\ \/ /\ UNCHANGED adminHistory
               /\ \E c \in request[p].add : \E r :
                    /\ Resumed(p, r) /\ r.add = request[p].add \ {c}
                    /\ r.drop = request[p].drop /\ r.index = request[p].index
                    /\ r.seen = request[p].seen
                    /\ Exists(request[p].target)
                    /\ tables' = [tables EXCEPT ![request[p].target].type[c] =
                                    SqlType[request[p].def[c]]]
            \/ Quits(p) /\ UNCHANGED tables
<1>1. Working(p) /\ At(p, "add") /\ request[p].step = "add"
  BY WorksAt DEF AddColumn, AdminSteps
<1>2. request[p].kind = "update"
  BY <1>1 DEF Working, Plausible
<1>3. CASE GiveUp(p) /\ UNCHANGED tables
  BY <1>1, <1>2, <1>3, GiveUpQuits
<1>4. ASSUME NEW c \in request[p].add, Exists(request[p].target),
             tables' = [tables EXCEPT ![request[p].target].type[c] = SqlType[request[p].def[c]]],
             Resume(p, [request[p] EXCEPT !.add = @ \ {c}])
      PROVE  \E r : /\ Resumed(p, r) /\ r.add = request[p].add \ {c}
                    /\ r.drop = request[p].drop /\ r.index = request[p].index
                    /\ r.seen = request[p].seen
  <2> DEFINE r == [request[p] EXCEPT !.add = @ \ {c}]
  <2>1. /\ r \in RequestSet /\ Same(r, request[p]) /\ r.add = request[p].add \ {c}
        /\ r.drop = request[p].drop /\ r.index = request[p].index /\ r.step = "add"
        /\ r.seen = request[p].seen
    BY <1>1 DEF RequestSet, Same, Working
  <2>2. Resume(p, r)
    BY <1>4
  <2> HIDE DEF r
  <2>3. Plausible(r)
    BY <1>1, <1>2, <2>1 DEF Plausible, Working, Same
  <2>4. Resumed(p, r)
    BY <1>2, <2>1, <2>2, <2>3, ResumeBecomes DEF Same
  <2> QED
    BY <2>1, <2>4
<1>5. PICK c \in request[p].add :
        \/ /\ Exists(request[p].target)
           /\ tables' = [tables EXCEPT ![request[p].target].type[c] = SqlType[request[p].def[c]]]
           /\ Resume(p, [request[p] EXCEPT !.add = @ \ {c}])
        \/ GiveUp(p) /\ UNCHANGED tables
  BY DEF AddColumn
<1> QED
  BY <1>1, <1>2, <1>3, <1>4, <1>5 DEF Resume

LEMMA DropDoes ==
  ASSUME AdminTypes, NEW p \in Admins, DropColumn(p)
  PROVE  /\ Working(p) /\ At(p, "drop") /\ request[p].kind = "update"
         /\ UNCHANGED adminHistory
         /\ \E c \in request[p].drop :
              \/ \E r : /\ Resumed(p, r) /\ r.add = request[p].add
                        /\ r.drop = request[p].drop \ {c} /\ r.index = request[p].index
                        /\ r.seen = request[p].seen
                        /\ Has(request[p].target, c) /\ ~IndexedOn(request[p].target, c)
                        /\ tables' = [tables EXCEPT ![request[p].target] =
                                        [tables[request[p].target] EXCEPT
                                           !.type[c] = "none", !.filled = @ \ {c},
                                           !.dups = @ \ {c}, !.altered = @ \ {c}]]
              \/ Stepped(p, "rebuild") /\ UNCHANGED tables
<1>1. Working(p) /\ At(p, "drop") /\ request[p].step = "drop"
  BY WorksAt DEF DropColumn, AdminSteps
<1>2. request[p].kind = "update"
  BY <1>1 DEF Working, Plausible
<1>3. PICK c \in request[p].drop :
        \/ /\ Has(request[p].target, c) /\ ~IndexedOn(request[p].target, c)
           /\ tables' = [tables EXCEPT ![request[p].target] =
                           [tables[request[p].target] EXCEPT
                              !.type[c] = "none", !.filled = @ \ {c}, !.dups = @ \ {c},
                              !.altered = @ \ {c}]]
           /\ Resume(p, [request[p] EXCEPT !.drop = @ \ {c}])
        \/ Proceed(p, "rebuild") /\ UNCHANGED tables
  BY DEF DropColumn
<1>4. CASE Proceed(p, "rebuild") /\ UNCHANGED tables
  <2>1. Stepped(p, "rebuild")
    BY <1>1, <1>2, <1>4, ProceedBecomes DEF AdminTypes, AdminSteps
  <2> QED
    BY <1>1, <1>2, <1>4, <2>1 DEF Proceed
<1>5. CASE /\ Has(request[p].target, c) /\ ~IndexedOn(request[p].target, c)
           /\ tables' = [tables EXCEPT ![request[p].target] =
                           [tables[request[p].target] EXCEPT
                              !.type[c] = "none", !.filled = @ \ {c}, !.dups = @ \ {c},
                              !.altered = @ \ {c}]]
           /\ Resume(p, [request[p] EXCEPT !.drop = @ \ {c}])
  <2> DEFINE r == [request[p] EXCEPT !.drop = @ \ {c}]
  <2>1. /\ r \in RequestSet /\ Same(r, request[p]) /\ r.drop = request[p].drop \ {c}
        /\ r.add = request[p].add /\ r.index = request[p].index /\ r.step = "drop"
        /\ r.seen = request[p].seen
    BY <1>1 DEF RequestSet, Same, Working
  <2>2. Resume(p, r) /\ UNCHANGED adminHistory
    BY <1>5 DEF Resume
  <2> HIDE DEF r
  <2>3. Plausible(r)
    BY <1>1, <1>2, <2>1 DEF Plausible, Working, Same
  <2>4. Resumed(p, r)
    BY <1>2, <2>1, <2>2, <2>3, ResumeBecomes DEF Same
  <2> QED
    BY <1>1, <1>2, <1>5, <2>1, <2>2, <2>4
<1> QED
  BY <1>3, <1>4, <1>5

\* The columns that a rebuild finds and copies, and what it indexes.
Present(p) == {c \in Copied(request[p]) : Has(request[p].target, c)}
ToIndex(p) ==
  {c \in UniqueIn(request[p].def) : ~TakenAfterDrop(request[p].target, c, request[p].target)}

LEMMA RebuildDoes ==
  ASSUME AdminTypes, NEW p \in Admins, Rebuild(p)
  PROVE  /\ Working(p) /\ At(p, "rebuild") /\ request[p].kind = "update"
         /\ \/ /\ Stepped(p, "metadata") /\ UNCHANGED adminHistory
               /\ Exists(request[p].target) /\ Present(p) = Copied(request[p])
               /\ \E dups, altered \in SUBSET Columns :
                    /\ dups \cap ToIndex(p) = {}
                    /\ \A c \in altered : \/ c \in tables[request[p].target].altered
                                           \/ Cast(request[p], request[p].target, c)
                    /\ tables' = [tables EXCEPT ![request[p].target] =
                                    [type |-> TypesOf(request[p].def),
                                     filled |-> tables[request[p].target].filled \cap Present(p),
                                     dups |-> dups, altered |-> altered]]
               /\ indexed' = [i \in Names \X Columns |->
                                IF i \in {request[p].target} \X ToIndex(p) THEN request[p].target
                                ELSE IF indexed[i] = request[p].target THEN NoName ELSE indexed[i]]
            \/ Quits(p) /\ UNCHANGED <<tables, indexed>>
<1>1. Working(p) /\ At(p, "rebuild") /\ request[p].step = "rebuild"
  BY WorksAt DEF Rebuild, AdminSteps
<1>2. request[p].kind = "update"
  BY <1>1 DEF Working, Plausible
<1>3. CASE GiveUp(p) /\ UNCHANGED <<tables, indexed>>
  BY <1>1, <1>2, <1>3, GiveUpQuits
<1> DEFINE t == request[p].target
           cast == {c \in Present(p) \cap tables[t].filled : Cast(request[p], t, c)}
           filled == tables[t].filled \cap Present(p)
           dups(equal) == (tables[t].dups \cap Present(p)) \cup equal
           altered(changed) == (tables[t].altered \cap Present(p)) \cup changed
           Rebuilt(changed, equal) ==
             /\ dups(equal) \cap ToIndex(p) = {}
             /\ tables' = [tables EXCEPT ![t] =
                             [type |-> TypesOf(request[p].def), filled |-> filled,
                              dups |-> dups(equal), altered |-> altered(changed)]]
             /\ indexed' = [i \in Names \X Columns |->
                              IF i \in {t} \X ToIndex(p) THEN t
                              ELSE IF indexed[i] = t THEN NoName ELSE indexed[i]]
             /\ Proceed(p, "metadata")
<1>4. \/ GiveUp(p) /\ UNCHANGED <<tables, indexed>>
      \/ /\ Exists(t) /\ Present(p) = Copied(request[p])
         /\ \E changed \in SUBSET cast : \E equal \in SUBSET changed : Rebuilt(changed, equal)
  <2>1. \/ GiveUp(p) /\ UNCHANGED <<tables, indexed>>
        \/ /\ Exists(t) /\ Present(p) = Copied(request[p])
           /\ \E changed \in SUBSET cast : \E equal \in SUBSET changed :
                IF dups(equal) \cap ToIndex(p) = {}
                THEN /\ tables' = [tables EXCEPT ![t] =
                                    [type |-> TypesOf(request[p].def), filled |-> filled,
                                     dups |-> dups(equal), altered |-> altered(changed)]]
                     /\ indexed' = [i \in Names \X Columns |->
                                      IF i \in {t} \X ToIndex(p) THEN t
                                      ELSE IF indexed[i] = t THEN NoName ELSE indexed[i]]
                     /\ Proceed(p, "metadata")
                ELSE GiveUp(p) /\ UNCHANGED <<tables, indexed>>
    BY Zenon DEF Rebuild, Present, ToIndex
  <2> QED
    BY <2>1
<1>5. ASSUME NEW changed \in SUBSET cast, NEW equal, equal \subseteq changed
      PROVE  /\ dups(equal) \in SUBSET Columns /\ altered(changed) \in SUBSET Columns
             /\ \A c \in altered(changed) : c \in tables[t].altered \/ Cast(request[p], t, c)
  <2>1. Present(p) \subseteq Columns
    BY DEF Present, Copied, FieldsIn
  <2>2. cast \subseteq Present(p) /\ \A c \in changed : Cast(request[p], t, c)
    OBVIOUS
  <2> QED
    BY <1>5, <2>1, <2>2
<1>6. ASSUME Proceed(p, "metadata")
      PROVE  Stepped(p, "metadata") /\ UNCHANGED adminHistory
  BY <1>1, <1>2, <1>6, ProceedBecomes DEF AdminTypes, AdminSteps, Proceed
<1>7. CASE ~(GiveUp(p) /\ UNCHANGED <<tables, indexed>>)
  <2>1. PICK changed \in SUBSET cast, equal \in SUBSET cast :
          equal \subseteq changed /\ Rebuilt(changed, equal)
    BY <1>4, <1>7
  <2>2. /\ dups(equal) \in SUBSET Columns /\ altered(changed) \in SUBSET Columns
        /\ \A c \in altered(changed) : c \in tables[t].altered \/ Cast(request[p], t, c)
    BY <1>5
  <2> QED
    BY <1>1, <1>2, <1>4, <1>6, <1>7, <2>1, <2>2
<1> QED
  BY <1>3, <1>7

LEMMA SyncIndexDoes ==
  ASSUME AdminTypes, NEW p \in Admins, SyncIndex(p)
  PROVE  /\ Working(p) /\ At(p, "index") /\ request[p].kind \in {"create", "update"}
         /\ \E c \in request[p].index :
              \/ /\ UNCHANGED adminHistory
                 /\ \E r : /\ Resumed(p, r) /\ r.add = request[p].add /\ r.drop = request[p].drop
                           /\ r.index = request[p].index \ {c} /\ r.seen = request[p].seen
                 /\ \/ /\ c \notin UniqueIn(request[p].def)
                       /\ indexed' = [indexed EXCEPT ![<<request[p].target, c>>] = NoName]
                    \/ /\ c \in UniqueIn(request[p].def)
                       /\ indexed[<<request[p].target, c>>] # NoName
                       /\ UNCHANGED indexed
                    \/ /\ c \in UniqueIn(request[p].def) /\ Exists(request[p].target)
                       /\ c \notin tables[request[p].target].dups
                       /\ indexed' = [indexed EXCEPT ![<<request[p].target, c>>] =
                                        request[p].target]
              \/ /\ Quits(p) /\ UNCHANGED indexed /\ c \in UniqueIn(request[p].def)
                 /\ \/ ~Exists(request[p].target) \/ ~Has(request[p].target, c)
                    \/ c \in tables[request[p].target].dups
<1>1. Working(p) /\ At(p, "index") /\ request[p].step = "index"
  BY WorksAt DEF SyncIndex, AdminSteps
<1>2. request[p].kind \in {"create", "update"} /\ request[p].kind # "delete"
      /\ request[p].index \subseteq Columns
  BY <1>1 DEF Working, Plausible, RequestSet
<1> DEFINE t == request[p].target
           unique(c) == request[p].def[c] = "unique"
           taken(c) == indexed[<<t, c>>] # NoName
           possible(c) == Exists(t) /\ (taken(c) \/ (Has(t, c) /\ c \notin Dups(t)))
<1>3. PICK c \in request[p].index :
         \/ /\ unique(c) => possible(c)
            /\ indexed' = [indexed EXCEPT ![<<t, c>>] =
                             IF ~unique(c) THEN NoName ELSE IF taken(c) THEN @ ELSE t]
            /\ Resume(p, [request[p] EXCEPT !.index = @ \ {c}])
         \/ unique(c) /\ ~possible(c) /\ GiveUp(p) /\ UNCHANGED indexed
  BY DEF SyncIndex
<1>4. c \in Columns /\ (unique(c) <=> c \in UniqueIn(request[p].def))
  BY <1>2 DEF UniqueIn
<1>5. CASE unique(c) /\ ~possible(c) /\ GiveUp(p) /\ UNCHANGED indexed
  BY <1>1, <1>2, <1>4, <1>5, GiveUpQuits DEF Dups
<1>6. CASE /\ unique(c) => possible(c)
           /\ indexed' = [indexed EXCEPT ![<<t, c>>] =
                             IF ~unique(c) THEN NoName ELSE IF taken(c) THEN @ ELSE t]
           /\ Resume(p, [request[p] EXCEPT !.index = @ \ {c}])
  <2> DEFINE r == [request[p] EXCEPT !.index = @ \ {c}]
  <2>1. /\ r \in RequestSet /\ Same(r, request[p]) /\ r.drop = request[p].drop
        /\ r.add = request[p].add /\ r.index = request[p].index \ {c} /\ r.step = "index"
        /\ r.seen = request[p].seen
    BY <1>1 DEF RequestSet, Same, Working
  <2>2. Resume(p, r) /\ UNCHANGED adminHistory
    BY <1>6 DEF Resume
  <2> HIDE DEF r
  <2>3. Plausible(r)
    BY <1>1, <1>2, <2>1 DEF Plausible, Working, Same
  <2>4. Resumed(p, r)
    BY <1>2, <2>1, <2>2, <2>3, ResumeBecomes DEF Same
  <2>5. \/ /\ ~unique(c)
           /\ indexed' = [indexed EXCEPT ![<<t, c>>] = NoName]
        \/ unique(c) /\ taken(c) /\ UNCHANGED indexed
        \/ /\ unique(c) /\ Exists(t) /\ c \notin tables[t].dups
           /\ indexed' = [indexed EXCEPT ![<<t, c>>] = t]
    <3>1. CASE ~unique(c)
      BY <1>6, <3>1
    <3>2. CASE unique(c) /\ taken(c)
      BY <1>6, <3>2 DEF AdminTypes, TablesTyped
    <3>3. CASE unique(c) /\ ~taken(c)
      BY <1>6, <3>3 DEF Dups
    <3> QED
      BY <3>1, <3>2, <3>3
  <2> QED
    BY <1>1, <1>2, <1>4, <2>1, <2>2, <2>4, <2>5
<1> QED
  BY <1>3, <1>5, <1>6

LEMMA SaveDoes ==
  ASSUME AdminTypes, NEW p \in Admins, SaveMetadata(p)
  PROVE  /\ Working(p) /\ At(p, "metadata") /\ request[p].kind = "create"
         /\ \/ /\ Becomes(p, NoRequest) /\ UNCHANGED adminHistory /\ ~Catalogued(request[p].name)
               /\ catalog' = [catalog EXCEPT ![request[p].name] = request[p].def]
            \/ Quits(p) /\ Catalogued(request[p].name) /\ UNCHANGED catalog
<1>1. Working(p) /\ At(p, "metadata")
  BY WorksAt DEF SaveMetadata, AdminSteps
<1> QED
  BY <1>1, AnswerBecomes, GiveUpQuits DEF SaveMetadata

LEMMA UpdateMetadataDoes ==
  ASSUME AdminTypes, NEW p \in Admins, UpdateMetadata(p)
  PROVE  /\ Working(p) /\ At(p, "metadata") /\ request[p].kind = "update"
         /\ \/ /\ Becomes(p, NoRequest) /\ UNCHANGED adminHistory
               /\ catalog' = IF ~Catalogued(request[p].name) THEN catalog
                             ELSE [n \in Names |-> IF n = request[p].target THEN request[p].def
                                                   ELSE IF n = request[p].name THEN NoEntry
                                                   ELSE catalog[n]]
            \/ /\ Quits(p) /\ UNCHANGED catalog /\ request[p].target # request[p].name
               /\ Catalogued(request[p].target)
<1>1. Working(p) /\ At(p, "metadata")
  BY WorksAt DEF UpdateMetadata, AdminSteps
<1> QED
  BY <1>1, AnswerBecomes, GiveUpQuits DEF UpdateMetadata

LEMMA DeleteMetadataDoes ==
  ASSUME AdminTypes, NEW p \in Admins, DeleteMetadata(p)
  PROVE  /\ Working(p) /\ At(p, "metadata") /\ request[p].kind = "delete"
         /\ Stepped(p, "dropRefs") /\ UNCHANGED adminHistory
<1>1. Working(p) /\ At(p, "metadata") /\ request[p].kind = "delete" /\ Proceed(p, "dropRefs")
  BY WorksAt DEF DeleteMetadata, AdminSteps
<1>2. Stepped(p, "dropRefs")
  BY <1>1, ProceedBecomes DEF AdminTypes, AdminSteps
<1> QED
  BY <1>1, <1>2 DEF Proceed

LEMMA DropTableDoes ==
  ASSUME AdminTypes, NEW p \in Admins, DropTable(p)
  PROVE  /\ Working(p) /\ At(p, "dropTable") /\ request[p].kind = "delete"
         /\ Stepped(p, "metadata") /\ UNCHANGED adminHistory
         /\ tables' = [tables EXCEPT ![request[p].name] = NoTable]
         /\ indexed' = [i \in Names \X Columns |->
                          IF indexed[i] = request[p].name THEN NoName ELSE indexed[i]]
<1>1. Working(p) /\ At(p, "dropTable") /\ request[p].step = "dropTable" /\ Proceed(p, "metadata")
  BY WorksAt DEF DropTable, AdminSteps
<1>2. request[p].kind = "delete"
  BY <1>1 DEF Working, Plausible
<1>3. Stepped(p, "metadata")
  BY <1>1, <1>2, ProceedBecomes DEF AdminTypes, AdminSteps
<1> QED
  BY <1>1, <1>2, <1>3 DEF DropTable, Proceed

LEMMA DropRefsDoes ==
  ASSUME AdminTypes, NEW p \in Admins, DropRefs(p)
  PROVE  /\ Working(p) /\ At(p, "dropRefs") /\ request[p].kind = "delete"
         /\ Becomes(p, NoRequest) /\ UNCHANGED adminHistory
<1>1. Working(p) /\ At(p, "dropRefs") /\ request[p].step = "dropRefs"
  BY WorksAt DEF DropRefs, AdminSteps
<1> QED
  BY <1>1, AnswerBecomes DEF DropRefs, Working, Plausible

LEMMA FailureDoes ==
  ASSUME AdminTypes, NEW p \in Admins, AdminStatementFails(p)
  PROVE  Working(p) /\ Quits(p)
BY Requested, GiveUpQuits DEF AdminStatementFails, AdminTypes, Working

\* A step of p other than its arrival goes on with p's request, or ends it.
LEMMA StepTurns ==
  ASSUME AdminTypes, NEW p \in Admins, AdminStep(p), ~Ask(p)
  PROVE  Working(p) /\ (Becomes(p, NoRequest) \/ \E x : Turns(p, x))
<1> USE DEF Stepped, Resumed, Quits
<1>1. CASE Load(p)
  BY <1>1, LoadDoes
<1>2. CASE CheckName(p)
  BY <1>2, CheckNameDoes
<1>3. CASE RenameTable(p)
  BY <1>3, RenameDoes
<1>4. CASE MoveRefs(p)
  BY <1>4, MoveRefsDoes
<1>5. CASE Inspect(p)
  BY <1>5, InspectDoes
<1>6. CASE CreateTable(p)
  BY <1>6, CreateTableDoes
<1>7. CASE AddColumn(p)
  BY <1>7, AddDoes
<1>8. CASE DropColumn(p)
  BY <1>8, DropDoes
<1>9. CASE Rebuild(p)
  BY <1>9, RebuildDoes
<1>10. CASE SyncIndex(p)
  BY <1>10, SyncIndexDoes
<1>11. CASE SaveMetadata(p)
  BY <1>11, SaveDoes
<1>12. CASE UpdateMetadata(p)
  BY <1>12, UpdateMetadataDoes
<1>13. CASE DeleteMetadata(p)
  BY <1>13, DeleteMetadataDoes
<1>14. CASE DropTable(p)
  BY <1>14, DropTableDoes
<1>15. CASE DropRefs(p)
  BY <1>15, DropRefsDoes
<1>16. CASE AdminStatementFails(p)
  BY <1>16, FailureDoes
<1> QED
  BY <1>1, <1>2, <1>3, <1>4, <1>5, <1>6, <1>7, <1>8, <1>9, <1>10, <1>11, <1>12, <1>13, <1>14,
     <1>15, <1>16 DEF AdminStep

LEMMA RequestsTypedStep ==
  ASSUME AdminTypes, [AdminNext]_adminVars
  PROVE  RequestsTyped'
<1>1. ASSUME NEW p \in Admins, AdminStep(p), ~Ask(p)
      PROVE  RequestsTyped'
  <2>1. PICK x : Becomes(p, x)
    BY <1>1, StepTurns DEF Turns
  <2> QED
    BY <2>1, BecomesTyped DEF AdminTypes
<1>2. CASE UNCHANGED request
  BY <1>2 DEF AdminTypes, RequestsTyped, Active, Plausible
<1>3. CASE AdminCrash
  BY <1>3 DEF AdminCrash, RequestsTyped, Active, AdminTypes
<1> QED
  BY <1>1, <1>2, <1>3, AskTyped
     DEF AdminNext, adminVars, WriteRecords, ReferToFile

LEMMA CountsTypedStep ==
  ASSUME AdminTypes, [AdminNext]_adminVars
  PROVE  /\ CountsTyped'
         /\ failures' = 0 => failures = 0
         /\ halfDone => halfDone'
         /\ concurrent => concurrent'
         /\ renamed => renamed'
<1> USE MoulAdminAssumption DEF AdminTypes, CountsTyped
<1>1. CASE UNCHANGED <<asked, failures, concurrent, halfDone, renamed>>
  BY <1>1
<1>2. ASSUME NEW p \in Admins, AdminStep(p)
      PROVE  /\ asked' \in 0..MaxAsked /\ failures' \in 0..MaxFailures
             /\ failures' = 0 => failures = 0
  <2>1. CASE Ask(p)
    <3>1. asked < MaxAsked /\ asked' = asked + 1 /\ failures' = failures
      BY <2>1 DEF Ask
    <3> QED
      BY <3>1
  <2>2. CASE CheckName(p)
    BY <2>2 DEF CheckName
  <2>3. CASE DropColumn(p)
    BY <2>3 DEF DropColumn
  <2>4. CASE DropRefs(p)
    BY <2>4 DEF DropRefs
  <2>5. CASE AdminStatementFails(p)
    BY <2>5 DEF AdminStatementFails
  <2>6. CASE UNCHANGED <<asked, failures>>
    BY <2>6
  <2>7. CASE Load(p) \/ RenameTable(p) \/ MoveRefs(p) \/ Inspect(p) \/ CreateTable(p)
    <3>1. UNCHANGED <<asked, failures>>
      <4>1. CASE Load(p)
        BY <4>1 DEF Load
      <4>2. CASE RenameTable(p)
        BY <4>2 DEF RenameTable
      <4>3. CASE MoveRefs(p)
        BY <4>3 DEF MoveRefs
      <4>4. CASE Inspect(p)
        BY <4>4 DEF Inspect
      <4>5. CASE CreateTable(p)
        BY <4>5 DEF CreateTable
      <4> QED
        BY <2>7, <4>1, <4>2, <4>3, <4>4, <4>5
    <3> QED
      BY <2>6, <3>1
  <2>8. CASE AddColumn(p) \/ Rebuild(p) \/ SyncIndex(p)
    <3>1. UNCHANGED <<asked, failures>>
      BY <2>8 DEF AddColumn, Rebuild, SyncIndex
    <3> QED
      BY <2>6, <3>1
  <2>9. CASE SaveMetadata(p) \/ UpdateMetadata(p) \/ DeleteMetadata(p) \/ DropTable(p)
    <3>1. UNCHANGED <<asked, failures>>
      BY <2>9 DEF SaveMetadata, UpdateMetadata, DeleteMetadata, DropTable
    <3> QED
      BY <2>6, <3>1
  <2> QED
    BY <1>2, <2>1, <2>2, <2>3, <2>4, <2>5, <2>7, <2>8, <2>9 DEF AdminStep
<1>3. ASSUME NEW p \in Admins, AdminStep(p)
      PROVE  /\ concurrent' \in BOOLEAN /\ halfDone' \in BOOLEAN /\ renamed' \in BOOLEAN
             /\ (halfDone => halfDone') /\ (concurrent => concurrent') /\ (renamed => renamed')
  <2>1. CASE Ask(p)
    BY <2>1 DEF Ask
  <2>2. CASE UNCHANGED adminHistory
    BY <2>2 DEF adminHistory
  <2>3. CASE Quits(p)
    BY <2>3 DEF Quits
  <2>4. CASE RenameTable(p)
    BY <2>3, <2>4, RenameDoes
  <2> QED
    BY <1>3, <2>1, <2>2, <2>3, <2>4, CheckNameDoes, MoveRefsDoes, InspectDoes,
       CreateTableDoes, AddDoes, DropDoes, RebuildDoes, SyncIndexDoes, SaveDoes,
       UpdateMetadataDoes, DeleteMetadataDoes, DropTableDoes, DropRefsDoes, FailureDoes
       DEF AdminStep, Load, Proceed
<1>4. CASE AdminCrash
  BY <1>4 DEF AdminCrash
<1> QED
  BY <1>1, <1>2, <1>3, <1>4
     DEF AdminNext, adminVars, adminHistory, WriteRecords, ReferToFile

\* Which steps change what.
LEMMA StepFrame ==
  ASSUME NEW p \in Admins, AdminStep(p)
  PROVE  /\ UNCHANGED catalog \/ SaveMetadata(p) \/ UpdateMetadata(p) \/ DeleteMetadata(p)
         /\ UNCHANGED tables \/ RenameTable(p) \/ CreateTable(p) \/ AddColumn(p)
              \/ DropColumn(p) \/ Rebuild(p) \/ DropTable(p)
         /\ UNCHANGED indexed \/ RenameTable(p) \/ Rebuild(p) \/ SyncIndex(p) \/ DropTable(p)
         /\ UNCHANGED fileRefs \/ MoveRefs(p) \/ DropRefs(p)
<1>1. CASE Ask(p)
  BY <1>1 DEF Ask
<1>2. CASE Load(p)
  BY <1>2 DEF Load
<1>3. CASE CheckName(p)
  BY <1>3 DEF CheckName
<1>4. CASE RenameTable(p)
  BY <1>4 DEF RenameTable
<1>5. CASE MoveRefs(p)
  BY <1>5 DEF MoveRefs
<1>6. CASE Inspect(p)
  BY <1>6 DEF Inspect
<1>7. CASE CreateTable(p)
  BY <1>7 DEF CreateTable
<1>8. CASE AddColumn(p)
  BY <1>8 DEF AddColumn
<1>9. CASE DropColumn(p)
  BY <1>9 DEF DropColumn
<1>10. CASE Rebuild(p)
  BY <1>10 DEF Rebuild
<1>11. CASE SyncIndex(p)
  BY <1>11 DEF SyncIndex
<1>12. CASE SaveMetadata(p)
  BY <1>12 DEF SaveMetadata
<1>13. CASE UpdateMetadata(p)
  BY <1>13 DEF UpdateMetadata
<1>14. CASE DeleteMetadata(p)
  BY <1>14 DEF DeleteMetadata
<1>15. CASE DropTable(p)
  BY <1>15 DEF DropTable
<1>16. CASE DropRefs(p)
  BY <1>16 DEF DropRefs
<1>17. CASE AdminStatementFails(p)
  BY <1>17 DEF AdminStatementFails
<1> QED
  BY <1>1, <1>2, <1>3, <1>4, <1>5, <1>6, <1>7, <1>8, <1>9, <1>10, <1>11, <1>12, <1>13, <1>14,
     <1>15, <1>16, <1>17 DEF AdminStep

LEMMA WriteDoes ==
  ASSUME AdminTypes, NEW n \in Names, WriteRecords(n)
  PROVE  /\ Catalogued(n) /\ Exists(n)
         /\ UNCHANGED <<catalog, indexed, fileRefs, request, asked, failures, adminHistory>>
         /\ \E c \in Columns, t \in TableContents :
              /\ tables' = [tables EXCEPT ![n] = t]
              /\ t.type = tables[n].type
              /\ tables[n].filled \subseteq t.filled
              /\ t.dups \subseteq tables[n].dups \cup {c}
              /\ IndexedOn(n, c) => c \notin t.dups
<1>1. PICK c \in FieldsIn(catalog[n]), twice \in BOOLEAN :
        /\ twice => ~IndexedOn(n, c)
        /\ tables' = [tables EXCEPT ![n] = [tables[n] EXCEPT !.filled = @ \cup {c},
                        !.dups = IF twice THEN @ \cup {c} ELSE @ \ {c}]]
  BY DEF WriteRecords
<1>2. c \in Columns /\ tables[n] \in TableContents
  BY DEF FieldsIn, WriteRecords, Exists, AdminTypes, TablesTyped
<1> DEFINE t == [tables[n] EXCEPT !.filled = @ \cup {c},
                   !.dups = IF twice THEN @ \cup {c} ELSE @ \ {c}]
<1>3. t \in TableContents
  BY <1>2 DEF TableContents
<1>4. /\ t.type = tables[n].type /\ tables[n].filled \subseteq t.filled
      /\ t.dups \subseteq tables[n].dups \cup {c}
      /\ IndexedOn(n, c) => c \notin t.dups
  BY <1>1, <1>2 DEF TableContents
<1>5. tables' = [tables EXCEPT ![n] = t]
  BY <1>1
<1> HIDE DEF t
<1> QED
  BY <1>2, <1>3, <1>4, <1>5 DEF WriteRecords

LEMMA TablesTypedStep ==
  ASSUME AdminTypes, [AdminNext]_adminVars
  PROVE  TablesTyped'
<1> USE DEF AdminTypes, TablesTyped
<1>1. catalog' \in [Names -> Definitions \cup {NoEntry}]
  <2>1. CASE UNCHANGED catalog
    BY <2>1
  <2>2. ASSUME NEW p \in Admins, SaveMetadata(p)
        PROVE  catalog' \in [Names -> Definitions \cup {NoEntry}]
    BY <2>2, SaveDoes DEF Working, RequestSet
  <2>3. ASSUME NEW p \in Admins, UpdateMetadata(p)
        PROVE  catalog' \in [Names -> Definitions \cup {NoEntry}]
    BY <2>3, UpdateMetadataDoes DEF Working, RequestSet
  <2>4. ASSUME NEW p \in Admins, DeleteMetadata(p)
        PROVE  catalog' \in [Names -> Definitions \cup {NoEntry}]
    BY <2>4 DEF DeleteMetadata
  <2> QED
    BY <2>1, <2>2, <2>3, <2>4, StepFrame
       DEF AdminNext, adminVars, WriteRecords, ReferToFile, AdminCrash
<1>2. tables' \in [Names -> TableContents \cup {NoTable}]
  <2> DEFINE Goal == tables' \in [Names -> TableContents \cup {NoTable}]
  <2>1. CASE UNCHANGED tables
    BY <2>1
  <2>2. ASSUME NEW p \in Admins, RenameTable(p)
        PROVE  Goal
    <3>1. CASE UNCHANGED tables
      BY <3>1
    <3>2. CASE ~UNCHANGED tables
      <4>1. tables' = [tables EXCEPT ![request[p].name] = NoTable,
                                     ![request[p].target] = tables[request[p].name]]
        BY <2>2, <3>2, RenameDoes
      <4>2. request[p].name \in Names
        BY <2>2, RenameDoes DEF Working, RequestSet
      <4> QED
        BY <4>1, <4>2
    <3> QED
      BY <3>1, <3>2
  <2>3. ASSUME NEW p \in Admins, CreateTable(p)
        PROVE  Goal
    <3> DEFINE fresh == [type |-> TypesOf(request[p].def), filled |-> {}, dups |-> {},
                         altered |-> {}]
    <3>1. request[p] \in RequestSet
      BY <2>3, CreateTableDoes DEF Working
    <3>2. fresh \in TableContents
      BY <3>1, Absent DEF RequestSet, TableContents, Types
    <3>3. tables' = [tables EXCEPT ![request[p].target] =
                       IF Exists(request[p].target) THEN @ ELSE fresh]
      BY <2>3, CreateTableDoes
    <3> QED
      BY <3>2, <3>3
  <2>4. ASSUME NEW p \in Admins, AddColumn(p)
        PROVE  Goal
    <3>1. CASE UNCHANGED tables
      BY <3>1
    <3>2. CASE ~UNCHANGED tables
      <4>1. PICK c \in request[p].add :
              /\ Exists(request[p].target)
              /\ tables' = [tables EXCEPT ![request[p].target].type[c] =
                              SqlType[request[p].def[c]]]
        BY <2>4, <3>2, AddDoes
      <4>2. request[p].target \in Names /\ c \in Columns /\ request[p].def \in Definitions
        BY <2>4, AddDoes DEF Working, RequestSet
      <4>3. SqlType[request[p].def[c]] \in Types
        BY <4>2, MoulAdminAssumption DEF SqlType, Types, FieldKinds
      <4>4. tables[request[p].target] \in TableContents
        BY <4>1, <4>2 DEF Exists
      <4> QED
        BY <4>1, <4>2, <4>3, <4>4 DEF TableContents, Types
    <3> QED
      BY <3>1, <3>2
  <2>5. ASSUME NEW p \in Admins, DropColumn(p)
        PROVE  Goal
    <3>1. CASE UNCHANGED tables
      BY <3>1
    <3>2. CASE ~UNCHANGED tables
      <4>1. PICK c \in request[p].drop :
              /\ Has(request[p].target, c)
              /\ tables' = [tables EXCEPT ![request[p].target] =
                              [tables[request[p].target] EXCEPT
                                 !.type[c] = "none", !.filled = @ \ {c}, !.dups = @ \ {c},
                                 !.altered = @ \ {c}]]
        BY <2>5, <3>2, DropDoes
      <4>2. request[p].target \in Names
        BY <2>5, DropDoes DEF Working, RequestSet
      <4>3. tables[request[p].target] \in TableContents
        BY <4>1, <4>2 DEF Exists, Has
      <4>4. [tables[request[p].target] EXCEPT
               !.type[c] = "none", !.filled = @ \ {c}, !.dups = @ \ {c},
               !.altered = @ \ {c}] \in TableContents
        BY <4>3 DEF TableContents
      <4> QED
        BY <4>1, <4>2, <4>4
    <3> QED
      BY <3>1, <3>2
  <2>6. ASSUME NEW p \in Admins, Rebuild(p)
        PROVE  Goal
    <3>1. CASE UNCHANGED tables
      BY <3>1
    <3>2. CASE ~UNCHANGED tables
      <4>1. PICK dups, altered \in SUBSET Columns :
              tables' = [tables EXCEPT ![request[p].target] =
                           [type |-> TypesOf(request[p].def),
                            filled |-> tables[request[p].target].filled \cap Present(p),
                            dups |-> dups, altered |-> altered]]
        BY <2>6, <3>2, RebuildDoes
      <4>2. request[p].target \in Names /\ request[p].def \in Definitions
        BY <2>6, RebuildDoes DEF Working, RequestSet
      <4>3. [type |-> TypesOf(request[p].def),
             filled |-> tables[request[p].target].filled \cap Present(p),
             dups |-> dups, altered |-> altered]
            \in TableContents
        BY <4>2, Absent DEF TableContents, Types, Present, Copied, FieldsIn
      <4> QED
        BY <4>1, <4>2, <4>3
    <3> QED
      BY <3>1, <3>2
  <2>7. ASSUME NEW p \in Admins, DropTable(p)
        PROVE  Goal
    BY <2>7 DEF DropTable
  <2>8. ASSUME NEW n \in Names, WriteRecords(n)
        PROVE  Goal
    BY <2>8, WriteDoes
  <2> QED
    BY <2>1, <2>2, <2>3, <2>4, <2>5, <2>6, <2>7, <2>8, StepFrame
       DEF AdminNext, adminVars, ReferToFile, AdminCrash
<1>3. indexed' \in [Names \X Columns -> Names \cup {NoName}]
  <2> DEFINE Goal == indexed' \in [Names \X Columns -> Names \cup {NoName}]
  <2>1. CASE UNCHANGED indexed
    BY <2>1
  <2>2. ASSUME NEW p \in Admins, RenameTable(p)
        PROVE  Goal
    BY <2>2, RenameDoes DEF Working, RequestSet
  <2>3. ASSUME NEW p \in Admins, Rebuild(p)
        PROVE  Goal
    BY <2>3, RebuildDoes DEF Working, RequestSet
  <2>4. ASSUME NEW p \in Admins, SyncIndex(p)
        PROVE  Goal
    BY <2>4, SyncIndexDoes DEF Working, RequestSet
  <2>5. ASSUME NEW p \in Admins, DropTable(p)
        PROVE  Goal
    BY <2>5, DropTableDoes DEF Working, RequestSet
  <2> QED
    BY <2>1, <2>2, <2>3, <2>4, <2>5, StepFrame
       DEF AdminNext, adminVars, WriteRecords, ReferToFile, AdminCrash
<1>4. fileRefs' \in [Names -> BOOLEAN]
  <2>1. CASE UNCHANGED fileRefs
    BY <2>1
  <2>2. ASSUME NEW p \in Admins, MoveRefs(p) \/ DropRefs(p)
        PROVE  fileRefs' \in [Names -> BOOLEAN]
    BY <2>2 DEF MoveRefs, DropRefs
  <2>3. ASSUME NEW n \in Names, ReferToFile(n)
        PROVE  fileRefs' \in [Names -> BOOLEAN]
    BY <2>3 DEF ReferToFile
  <2> QED
    BY <2>1, <2>2, <2>3, StepFrame DEF AdminNext, adminVars, WriteRecords, AdminCrash
<1> QED
  BY <1>1, <1>2, <1>3, <1>4

LEMMA AdminTypesStep ==
  ASSUME AdminTypes, [AdminNext]_adminVars
  PROVE  AdminTypes'
BY RequestsTypedStep, TablesTypedStep, CountsTypedStep DEF AdminTypes

LEMMA AdminTypesInit ==
  ASSUME AdminInit
  PROVE  AdminTypes /\ IndexesHold
<1>1. RequestsTyped
  BY DEF AdminInit, RequestsTyped, Active
<1>2. TablesTyped
  BY DEF AdminInit, TablesTyped
<1>3. CountsTyped
  <2>1. asked \in 0..MaxAsked /\ failures \in 0..MaxFailures
    BY MoulAdminAssumption DEF AdminInit
  <2>2. concurrent \in BOOLEAN /\ halfDone \in BOOLEAN /\ renamed \in BOOLEAN
    BY DEF AdminInit
  <2> QED
    BY <2>1, <2>2 DEF CountsTyped
<1>4. IndexesHold
  BY DEF AdminInit, IndexesHold
<1> QED
  BY <1>1, <1>2, <1>3, <1>4 DEF AdminTypes

-----------------------------------------------------------------------------
(* The indexes *)

LEMMA IndexesHoldStep ==
  ASSUME AdminTypes, AdminTypes', IndexesHold, [AdminNext]_adminVars
  PROVE  IndexesHold'
<1> SUFFICES ASSUME NEW n \in Names, NEW c \in Columns, indexed'[<<n, c>>] # NoName
             PROVE  /\ tables'[indexed'[<<n, c>>]] # NoTable
                    /\ c \notin tables'[indexed'[<<n, c>>]].dups
  BY DEF IndexesHold, Exists
<1> USE DEF AdminTypes, TablesTyped
<1> DEFINE Goal == /\ tables'[indexed'[<<n, c>>]] # NoTable
                   /\ c \notin tables'[indexed'[<<n, c>>]].dups
<1>1. indexed[<<n, c>>] # NoName =>
        /\ indexed[<<n, c>>] \in Names
        /\ tables[indexed[<<n, c>>]] # NoTable /\ c \notin tables[indexed[<<n, c>>]].dups
  BY DEF IndexesHold, Exists
<1>2. CASE UNCHANGED <<tables, indexed>>
  BY <1>1, <1>2
\* A table changes, the indexes do not.
<1>3. ASSUME NEW t \in Names, NEW x \in TableContents, tables' = [tables EXCEPT ![t] = x],
             UNCHANGED indexed, indexed[<<n, c>>] = t => c \notin x.dups
      PROVE  Goal
  BY <1>1, <1>3, Absent
<1>4. ASSUME NEW p \in Admins, RenameTable(p)
      PROVE  Goal
  <2>1. CASE UNCHANGED <<tables, indexed>>
    BY <1>2, <2>1
  <2>2. CASE ~UNCHANGED <<tables, indexed>>
    <3>1. /\ ~Exists(request[p].target)
          /\ tables' = [tables EXCEPT ![request[p].name] = NoTable,
                                      ![request[p].target] = tables[request[p].name]]
          /\ indexed' = [i \in Names \X Columns |->
                           IF indexed[i] = request[p].name THEN request[p].target
                           ELSE indexed[i]]
      BY <1>4, <2>2, RenameDoes
    <3>2. /\ request[p].name \in Names /\ request[p].target \in Names
          /\ request[p].name # request[p].target
      BY <1>4, RenameDoes DEF Working, RequestSet
    <3>3. indexed'[<<n, c>>] = IF indexed[<<n, c>>] = request[p].name THEN request[p].target
                               ELSE indexed[<<n, c>>]
      BY <3>1
    <3> QED
      BY <1>1, <3>1, <3>2, <3>3, MoulAdminAssumption DEF Exists
  <2> QED
    BY <2>1, <2>2
<1>5. ASSUME NEW p \in Admins, CreateTable(p)
      PROVE  Goal
  <2>1. CASE Exists(request[p].target)
    BY <1>2, <1>5, <2>1 DEF CreateTable
  <2>2. CASE ~Exists(request[p].target)
    <3>1. request[p].target \in Names
      BY <1>5, CreateTableDoes DEF Working, RequestSet
    <3>2. tables' = [tables EXCEPT ![request[p].target] =
                       [type |-> TypesOf(request[p].def), filled |-> {}, dups |-> {},
                        altered |-> {}]]
      BY <2>2, <1>5, CreateTableDoes
    <3>3. UNCHANGED indexed
      BY <1>5 DEF CreateTable
    <3>4. indexed[<<n, c>>] # request[p].target
      BY <1>1, <2>2, <3>1, MoulAdminAssumption DEF Exists
    <3> QED
      BY <1>1, <3>1, <3>2, <3>3, <3>4
  <2> QED
    BY <2>1, <2>2
<1>6. ASSUME NEW p \in Admins, AddColumn(p)
      PROVE  Goal
  <2>1. UNCHANGED indexed
    BY <1>6 DEF AddColumn
  <2>2. CASE UNCHANGED tables
    BY <1>2, <2>1, <2>2
  <2>3. CASE ~UNCHANGED tables
    <3>1. PICK d \in request[p].add :
            /\ Exists(request[p].target)
            /\ tables' = [tables EXCEPT ![request[p].target].type[d] =
                            SqlType[request[p].def[d]]]
      BY <1>6, <2>3, AddDoes
    <3>2. request[p].target \in Names
      BY <1>6, AddDoes DEF Working, RequestSet
    <3>3. tables[request[p].target] \in TableContents
      BY <3>1, <3>2 DEF Exists
    <3>4. tables'[request[p].target].dups = tables[request[p].target].dups
      BY <3>1, <3>2, <3>3 DEF TableContents
    <3>5. tables'[request[p].target] \in TableContents
      <4>1. d \in Columns /\ request[p].def \in Definitions
        BY <1>6, AddDoes DEF Working, RequestSet
      <4>2. SqlType[request[p].def[d]] \in Types
        BY <4>1, MoulAdminAssumption DEF SqlType, Types, FieldKinds
      <4> QED
        BY <3>1, <3>2, <3>3, <4>2 DEF TableContents, Types
    <3> QED
      BY <1>1, <2>1, <3>1, <3>4, <3>5, Absent
  <2> QED
    BY <2>2, <2>3
<1>7. ASSUME NEW p \in Admins, DropColumn(p)
      PROVE  Goal
  <2>1. UNCHANGED indexed
    BY <1>7 DEF DropColumn
  <2>2. CASE UNCHANGED tables
    BY <1>2, <2>1, <2>2
  <2>3. CASE ~UNCHANGED tables
    <3>1. PICK d \in request[p].drop :
            /\ Has(request[p].target, d)
            /\ tables' = [tables EXCEPT ![request[p].target] =
                            [tables[request[p].target] EXCEPT
                               !.type[d] = "none", !.filled = @ \ {d}, !.dups = @ \ {d},
                               !.altered = @ \ {d}]]
      BY <1>7, <2>3, DropDoes
    <3>2. request[p].target \in Names
      BY <1>7, DropDoes DEF Working, RequestSet
    <3> DEFINE x == [tables[request[p].target] EXCEPT
                       !.type[d] = "none", !.filled = @ \ {d}, !.dups = @ \ {d},
                       !.altered = @ \ {d}]
    <3>3. tables[request[p].target] \in TableContents
      BY <3>1, <3>2 DEF Exists, Has
    <3>4. x \in TableContents /\ x.dups \subseteq tables[request[p].target].dups
      BY <3>3 DEF TableContents
    <3>5. tables' = [tables EXCEPT ![request[p].target] = x]
      BY <3>1
    <3> HIDE DEF x
    <3> QED
      BY <1>1, <1>3, <2>1, <3>2, <3>4, <3>5
  <2> QED
    BY <2>2, <2>3
<1>8. ASSUME NEW p \in Admins, Rebuild(p)
      PROVE  Goal
  <2>1. CASE UNCHANGED <<tables, indexed>>
    BY <1>2, <2>1
  <2>2. CASE ~UNCHANGED <<tables, indexed>>
    <3>1. PICK dups, altered \in SUBSET Columns :
            /\ dups \cap ToIndex(p) = {}
            /\ tables' = [tables EXCEPT ![request[p].target] =
                            [type |-> TypesOf(request[p].def),
                             filled |-> tables[request[p].target].filled \cap Present(p),
                             dups |-> dups, altered |-> altered]]
      BY <1>8, <2>2, RebuildDoes
    <3>2. indexed' = [i \in Names \X Columns |->
                        IF i \in {request[p].target} \X ToIndex(p) THEN request[p].target
                        ELSE IF indexed[i] = request[p].target THEN NoName ELSE indexed[i]]
      BY <1>8, <2>2, RebuildDoes
    <3>3. request[p].target \in Names
      BY <1>8, RebuildDoes DEF Working, RequestSet
    <3>4. /\ tables'[request[p].target].dups = dups
          /\ tables'[request[p].target] # NoTable
      BY <3>1, <3>3, Absent DEF TableContents, NoTable
    <3>5. indexed'[<<n, c>>] =
            IF n = request[p].target /\ c \in ToIndex(p) THEN request[p].target
            ELSE IF indexed[<<n, c>>] = request[p].target THEN NoName ELSE indexed[<<n, c>>]
      BY <3>2
    <3>6. CASE n = request[p].target /\ c \in ToIndex(p)
      BY <3>1, <3>4, <3>5, <3>6
    <3>7. CASE ~(n = request[p].target /\ c \in ToIndex(p))
      <4>1. indexed'[<<n, c>>] = indexed[<<n, c>>] /\ indexed[<<n, c>>] # request[p].target
        BY <3>5, <3>7
      <4>2. tables'[indexed[<<n, c>>]] = tables[indexed[<<n, c>>]]
        BY <1>1, <3>1, <4>1
      <4> QED
        BY <1>1, <4>1, <4>2
    <3> QED
      BY <3>6, <3>7
  <2> QED
    BY <2>1, <2>2
<1>9. ASSUME NEW p \in Admins, SyncIndex(p)
      PROVE  Goal
  <2>1. UNCHANGED tables
    BY <1>9 DEF SyncIndex
  <2>2. CASE UNCHANGED indexed
    BY <1>2, <2>1, <2>2
  <2>3. CASE ~UNCHANGED indexed
    <3>1. PICK d \in request[p].index :
            \/ indexed' = [indexed EXCEPT ![<<request[p].target, d>>] = NoName]
            \/ /\ Exists(request[p].target) /\ d \notin tables[request[p].target].dups
               /\ indexed' = [indexed EXCEPT ![<<request[p].target, d>>] = request[p].target]
      BY <1>9, <2>3, SyncIndexDoes
    <3> QED
      BY <1>1, <2>1, <3>1 DEF Exists
  <2> QED
    BY <2>2, <2>3
<1>10. ASSUME NEW p \in Admins, DropTable(p)
       PROVE  Goal
  <2>1. /\ tables' = [tables EXCEPT ![request[p].name] = NoTable]
        /\ indexed' = [i \in Names \X Columns |->
                         IF indexed[i] = request[p].name THEN NoName ELSE indexed[i]]
    BY <1>10, DropTableDoes
  <2>2. indexed'[<<n, c>>] = IF indexed[<<n, c>>] = request[p].name THEN NoName
                             ELSE indexed[<<n, c>>]
    BY <2>1
  <2> QED
    BY <1>1, <2>1, <2>2
<1>11. ASSUME NEW t \in Names, WriteRecords(t)
       PROVE  Goal
  <2>1. PICK d \in Columns, x \in TableContents :
          /\ tables' = [tables EXCEPT ![t] = x]
          /\ x.dups \subseteq tables[t].dups \cup {d}
          /\ IndexedOn(t, d) => d \notin x.dups
    BY <1>11, WriteDoes
  <2>2. UNCHANGED indexed
    BY <1>11, WriteDoes
  <2>3. indexed[<<n, c>>] = t => c \notin x.dups
    BY <1>1, <2>1, MoulAdminAssumption DEF IndexedOn
  <2> QED
    BY <1>3, <2>1, <2>2, <2>3
<1> QED
  BY <1>2, <1>4, <1>5, <1>6, <1>7, <1>8, <1>9, <1>10, <1>11, StepFrame
     DEF AdminNext, adminVars, ReferToFile, AdminCrash

LEMMA AdminTypesOK ==
  ASSUME AdminTypes, IndexesHold
  PROVE  AdminTypeOK
BY Requested DEF AdminTypes, TablesTyped, CountsTyped, RequestsTyped, RequestSet, IndexesHold,
                 AdminTypeOK

-----------------------------------------------------------------------------
(* Requests that nobody joined *)

LEMMA BecomesActive ==
  ASSUME AdminTypes, NEW p \in Admins, NEW x, Becomes(p, x)
  PROVE  /\ request'[p] = x
         /\ \A q \in Admins \ {p} : request'[q] = request[q]
         /\ x = NoRequest => Active' = Active \ {p}
         /\ x \in RequestSet => Active' = Active \cup {p}
BY Absent DEF Becomes, Active, AdminTypes, RequestsTyped

LEMMA AskJoins ==
  ASSUME AdminTypes, NEW p \in Admins, Ask(p)
  PROVE  /\ request[p] = NoRequest /\ concurrent' = (concurrent \/ Active # {})
         /\ UNCHANGED <<catalog, tables, indexed, fileRefs, failures, halfDone, renamed>>
         /\ \A q \in Admins \ {p} : request'[q].alone = FALSE
         /\ Active' = Active \cup {p}
         /\ \E x \in RequestSet :
              /\ request'[p] = x
              /\ Plausible(x) /\ x.step \in {"createTable", "load"} /\ x.alone = (Active = {})
              /\ x.kind = "create" <=> x.step = "createTable"
<1>1. PICK x \in RequestSet :
        /\ Plausible(x) /\ x.step \in {"createTable", "load"} /\ x.alone = (Active = {})
        /\ x.kind = "create" <=> x.step = "createTable"
        /\ request' = [q \in Admins |-> IF q = p THEN x
                                        ELSE [request[q] EXCEPT !.alone = FALSE]]
  BY AskBecomes
<1>2. ASSUME NEW q \in Admins, q # p
      PROVE  request'[q].alone = FALSE /\ (request'[q] = NoRequest <=> request[q] = NoRequest)
  <2>1. request'[q] = [request[q] EXCEPT !.alone = FALSE]
    BY <1>1, <1>2
  <2>2. CASE request[q] = NoRequest
    BY <2>1, <2>2, NoRequestStays DEF NoRequest
  <2>3. CASE request[q] \in RequestSet
    <3>1. request'[q] \in RequestSet
      BY <2>1, <2>3 DEF RequestSet
    <3>2. request'[q].alone = FALSE
      BY <2>1, <2>3 DEF RequestSet
    <3> QED
      BY <2>3, <3>1, <3>2, Absent
  <2> QED
    BY <2>2, <2>3 DEF AdminTypes, RequestsTyped
<1>3. request'[p] = x
  BY <1>1
<1>4. Active' = Active \cup {p}
  BY <1>2, <1>3, Absent DEF Active
<1> QED
  BY <1>1, <1>2, <1>3, <1>4 DEF Ask

LEMMA ListsDone ==
  ASSUME TablesTyped', NEW x \in RequestSet, Progress(x)', x.add = {}, x.drop = {}
  PROVE  Fits(x.target, x.def)'
<1>1. tables'[x.target] \in TableContents /\ tables'[x.target] # NoTable
  BY DEF TablesTyped, RequestSet, Progress, Exists
<1>2. \A c \in Columns : tables'[x.target].type[c] = SqlType[x.def[c]]
  BY DEF Progress, FieldsIn, SqlType, RequestSet
<1>3. tables'[x.target].type = TypesOf(x.def)
  BY <1>1, <1>2 DEF TypesOf, TableContents
<1> QED
  BY <1>1, <1>3 DEF Fits, Exists, TypesOf

\* An update that goes on with its lists.
Listed(x) ==
  /\ x.step \in ListSteps \cup {"metadata"}
  /\ x.step = "metadata" => x.add = {} /\ x.drop = {} /\ x.index = {}

LEMMA ListedAlone ==
  ASSUME TablesTyped', NEW x \in RequestSet, Progress(x)', Listed(x)
  PROVE  UpdateAlone(x)'
<1>1. x.step = "metadata" => Fits(x.target, x.def)'
  BY ListsDone DEF Listed
<1> QED
  BY <1>1 DEF UpdateAlone, Listed, ListSteps

\* What each step makes of an update that is alone.
LEMMA UpdateStep ==
  ASSUME AdminTypes, AdminTypes', NEW p \in Admins, AdminStep(p), ~Ask(p),
         UpdateAlone(request[p]), NEW x \in RequestSet, Turns(p, x), x.kind = "update"
  PROVE  UpdateAlone(x)'
<1> USE DEF AdminTypes
<1>1. request'[p] = x /\ Same(x, request[p]) /\ TablesTyped'
  BY BecomesActive DEF Turns
<1>2. Working(p) /\ request[p].target = x.target /\ request[p].def = x.def
      /\ request[p].kind = "update"
  BY <1>1, StepTurns DEF Same
<1>3. ~Becomes(p, NoRequest)
  BY <1>1, BecomesActive, Absent
<1>4. ASSUME NEW s \in AdminSteps \ (ListSteps \cup {"metadata", "createTable", "rebuild"}),
             Stepped(p, s)
      PROVE  UpdateAlone(x)'
  <2>1. x.step = s
    BY <1>1, <1>4, BecomesActive DEF Stepped, Turns
  <2> QED
    BY <2>1 DEF UpdateAlone
\* The lists of r, at which it goes on.
<1>5. ASSUME NEW r, Resumed(p, r)
      PROVE  Listed(x) /\ Lists(x, r)
  BY <1>1, <1>5, BecomesActive DEF Resumed, Turns, Listed
<1>6. /\ x.target \in Names /\ x.def \in Definitions /\ x.add \subseteq Columns
      /\ x.drop \subseteq Columns
  BY DEF RequestSet
<1>7. CASE Load(p) \/ CheckName(p) \/ RenameTable(p) \/ MoveRefs(p)
  BY <1>3, <1>4, <1>7, LoadDoes, CheckNameDoes, RenameDoes, MoveRefsDoes
     DEF AdminSteps, ListSteps, Quits
<1>8. CASE Inspect(p)
  <2>1. UNCHANGED tables
    BY <1>8 DEF Inspect
  <2>2. CASE Stepped(p, "createTable") /\ ~Exists(request[p].target)
    <3>1. x.step = "createTable"
      BY <1>1, <2>2, BecomesActive DEF Stepped, Turns
    <3> QED
      BY <1>2, <2>1, <2>2, <3>1 DEF UpdateAlone, ListSteps, Exists
  <2>3. CASE /\ Exists(request[p].target)
             /\ \E y : Turns(p, y) /\ y.step = "rebuild" /\ y.seen = SeenBy(p)
    <3>1. x.step = "rebuild" /\ x.seen = tables[x.target].type
      BY <1>1, <1>2, <2>3, BecomesActive DEF Turns, SeenBy
    <3>2. AsSeen(x)'
      BY <2>1, <3>1 DEF AsSeen
    <3> QED
      BY <3>1, <3>2 DEF UpdateAlone, ListSteps
  <2>4. ASSUME NEW r, Resumed(p, r), r.seen = SeenBy(p), Exists(x.target),
               r.add = {c \in FieldsIn(x.def) : SeenBy(p)[c] = "none"},
               r.drop = {c \in Columns \ FieldsIn(x.def) : SeenBy(p)[c] # "none"},
               ~Changed(SeenBy(p), x.def)
        PROVE  UpdateAlone(x)'
    <3>1. Listed(x) /\ x.add = r.add /\ x.drop = r.drop /\ x.seen = r.seen
      BY <1>5, <2>4 DEF Lists
    <3>2. SeenBy(p) = tables[x.target].type
      BY <1>2, <2>4 DEF SeenBy
    <3>3. \A c \in FieldsIn(x.def) \ x.add : tables[x.target].type[c] = SqlType[x.def[c]]
      BY <2>4, <3>1, <3>2 DEF Changed
    <3>4. \A c \in Columns \ (FieldsIn(x.def) \cup x.drop) : tables[x.target].type[c] = "none"
      BY <2>4, <3>1, <3>2
    <3>5. Progress(x)'
      BY <2>1, <2>4, <3>1, <3>2, <3>3, <3>4 DEF Progress, Exists, AsSeen
    <3> QED
      BY <1>1, <3>1, <3>5, ListedAlone
  <2> QED
    BY <1>2, <1>8, <2>2, <2>3, <2>4, InspectDoes
<1>9. CASE CreateTable(p)
  <2>1. ~Exists(x.target)
    BY <1>2, <1>9, CreateTableDoes DEF UpdateAlone, At
  <2>2. tables' = [tables EXCEPT ![x.target] =
                     [type |-> TypesOf(x.def), filled |-> {}, dups |-> {}, altered |-> {}]]
    BY <1>2, <1>9, <2>1, CreateTableDoes
  <2>3. Listed(x)
    BY <1>5, <1>9, CreateTableDoes
  <2>4. tables'[x.target].type = TypesOf(x.def) /\ tables'[x.target] # NoTable
    BY <1>6, <2>2 DEF NoTable, TablesTyped
  <2>5. Progress(x)'
    BY <2>4 DEF Progress, Exists, TypesOf, FieldsIn, SqlType, AsSeen
  <2> QED
    BY <1>1, <2>3, <2>5, ListedAlone
<1>10. CASE AddColumn(p)
  <2>0. PICK c \in request[p].add : \E r :
          /\ Resumed(p, r) /\ r.add = request[p].add \ {c} /\ r.drop = request[p].drop
          /\ r.seen = request[p].seen /\ Exists(x.target)
          /\ tables' = [tables EXCEPT ![x.target].type[c] = SqlType[x.def[c]]]
    BY <1>2, <1>3, <1>10, AddDoes DEF Quits
  <2>1. PICK r :
          /\ Resumed(p, r) /\ r.add = request[p].add \ {c} /\ r.drop = request[p].drop
          /\ r.seen = request[p].seen /\ Exists(x.target)
          /\ tables' = [tables EXCEPT ![x.target].type[c] = SqlType[x.def[c]]]
    BY <2>0
  <2>2. Listed(x) /\ x.add = request[p].add \ {c} /\ x.drop = request[p].drop
        /\ x.seen = request[p].seen
    BY <1>5, <2>1 DEF Lists
  <2>3. Progress(request[p])
    BY <1>10, AddDoes DEF UpdateAlone, At, ListSteps
  <2>4. tables[x.target] \in TableContents /\ tables'[x.target] # NoTable
    <3>1. tables[x.target] \in TableContents
      BY <1>6, <2>1 DEF Exists, TablesTyped
    <3> QED
      BY <1>6, <2>1, <3>1, Absent DEF TableContents, TablesTyped, NoTable
  <2>5. c \in Columns /\ c \in FieldsIn(x.def)
    BY <1>2 DEF Working, RequestSet, Plausible
  <2>6. \A d \in Columns : tables'[x.target].type[d] =
                             IF d = c THEN SqlType[x.def[c]] ELSE tables[x.target].type[d]
    BY <1>6, <2>1, <2>4, <2>5 DEF TableContents, TablesTyped
  <2>7. Progress(x)'
    BY <1>2, <2>2, <2>3, <2>4, <2>5, <2>6 DEF Progress, Exists, FieldsIn, AsSeen
  <2> QED
    BY <1>1, <2>2, <2>7, ListedAlone
<1>11. CASE DropColumn(p)
  <2>1. CASE Stepped(p, "rebuild") /\ UNCHANGED tables
    <3>1. x.step = "rebuild" /\ x.seen = request[p].seen /\ UNCHANGED tables
      BY <1>1, <2>1, BecomesActive DEF Stepped, Turns, Lists
    <3>2. AsSeen(request[p])
      BY <1>11, DropDoes DEF UpdateAlone, At, ListSteps, Progress
    <3>3. AsSeen(x)'
      BY <1>2, <3>1, <3>2 DEF AsSeen
    <3> QED
      BY <3>1, <3>3 DEF UpdateAlone, ListSteps
  <2>2. CASE ~(Stepped(p, "rebuild") /\ UNCHANGED tables)
    <3>0. PICK c \in request[p].drop : \E r :
            /\ Resumed(p, r) /\ r.add = request[p].add /\ r.drop = request[p].drop \ {c}
            /\ r.seen = request[p].seen /\ Has(x.target, c)
            /\ tables' = [tables EXCEPT ![x.target] =
                            [tables[x.target] EXCEPT !.type[c] = "none", !.filled = @ \ {c},
                                                     !.dups = @ \ {c}, !.altered = @ \ {c}]]
      BY <1>2, <1>11, <2>2, DropDoes
    <3>1. PICK r :
            /\ Resumed(p, r) /\ r.add = request[p].add /\ r.drop = request[p].drop \ {c}
            /\ r.seen = request[p].seen /\ Has(x.target, c)
            /\ tables' = [tables EXCEPT ![x.target] =
                            [tables[x.target] EXCEPT !.type[c] = "none", !.filled = @ \ {c},
                                                     !.dups = @ \ {c}, !.altered = @ \ {c}]]
      BY <3>0
    <3>2. Listed(x) /\ x.add = request[p].add /\ x.drop = request[p].drop \ {c}
          /\ x.seen = request[p].seen
      BY <1>5, <3>1 DEF Lists
    <3>3. Progress(request[p])
      BY <1>11, DropDoes DEF UpdateAlone, At, ListSteps
    <3> DEFINE t == [tables[x.target] EXCEPT !.type[c] = "none", !.filled = @ \ {c},
                                             !.dups = @ \ {c}, !.altered = @ \ {c}]
    <3>4. tables[x.target] \in TableContents
      BY <1>6, <3>1 DEF Has, Exists, TablesTyped
    <3>5. t \in TableContents
          /\ \A d \in Columns : t.type[d] = IF d = c THEN "none" ELSE tables[x.target].type[d]
      BY <3>4 DEF TableContents
    <3>6. tables'[x.target] = t
      BY <1>6, <3>1 DEF TablesTyped
    <3>7. c \notin FieldsIn(x.def)
      BY <1>2 DEF Working, Plausible
    <3> HIDE DEF t
    <3>8. Progress(x)'
      BY <1>2, <3>2, <3>3, <3>5, <3>6, <3>7, Absent
         DEF Progress, Exists, FieldsIn, AsSeen
    <3> QED
      BY <1>1, <3>2, <3>8, ListedAlone
  <2> QED
    BY <2>1, <2>2
<1>12. CASE Rebuild(p)
  <2>1. PICK dups, altered \in SUBSET Columns :
          tables' = [tables EXCEPT ![x.target] =
                       [type |-> TypesOf(x.def),
                        filled |-> tables[x.target].filled \cap Present(p),
                        dups |-> dups, altered |-> altered]]
    BY <1>2, <1>3, <1>12, RebuildDoes DEF Quits
  <2>2. Stepped(p, "metadata")
    BY <1>3, <1>12, RebuildDoes DEF Quits
  <2>3. x.step = "metadata"
    BY <1>1, <2>2, BecomesActive DEF Stepped, Turns
  <2>4. tables'[x.target].type = TypesOf(x.def) /\ tables'[x.target] # NoTable
    BY <1>6, <2>1 DEF NoTable, TablesTyped
  <2> QED
    BY <2>3, <2>4 DEF UpdateAlone, ListSteps, Fits, Exists, TypesOf
<1>13. CASE SyncIndex(p)
  <2>1. PICK r : /\ Resumed(p, r) /\ r.add = request[p].add /\ r.drop = request[p].drop
                 /\ r.seen = request[p].seen
    BY <1>3, <1>13, SyncIndexDoes DEF Quits
  <2>2. Listed(x) /\ x.add = request[p].add /\ x.drop = request[p].drop
        /\ x.seen = request[p].seen
    BY <1>5, <2>1 DEF Lists
  <2>3. Progress(request[p]) /\ UNCHANGED tables
    BY <1>13, SyncIndexDoes DEF UpdateAlone, At, ListSteps, SyncIndex
  <2>4. Progress(x)'
    BY <1>2, <2>2, <2>3 DEF Progress, Exists, FieldsIn, AsSeen
  <2> QED
    BY <1>1, <2>2, <2>4, ListedAlone
<1>14. CASE \/ SaveMetadata(p) \/ UpdateMetadata(p) \/ DeleteMetadata(p) \/ DropTable(p)
            \/ DropRefs(p) \/ AdminStatementFails(p)
  BY <1>2, <1>3, <1>14, SaveDoes, UpdateMetadataDoes, DeleteMetadataDoes, DropTableDoes,
     DropRefsDoes, FailureDoes DEF Quits
<1> QED
  BY <1>7, <1>8, <1>9, <1>10, <1>11, <1>12, <1>13, <1>14 DEF AdminStep

\* Records are written: what is said of the columns stays.
LEMMA WriteKeeps ==
  ASSUME AdminTypes, NEW n \in Names, WriteRecords(n)
  PROVE  \A m \in Names : /\ Exists(m)' = Exists(m)
                          /\ Exists(m) => tables'[m].type = tables[m].type
                                          /\ tables[m].filled \subseteq tables'[m].filled
<1>1. PICK t \in TableContents : /\ tables' = [tables EXCEPT ![n] = t]
                                 /\ t.type = tables[n].type
                                 /\ tables[n].filled \subseteq t.filled
  BY WriteDoes
<1>2. Exists(n) /\ t # NoTable
  BY Absent, WriteDoes
<1> QED
  BY <1>1, <1>2 DEF AdminTypes, TablesTyped, Exists

LEMMA AloneStep ==
  ASSUME AdminTypes, AdminTypes', AloneInv, [AdminNext]_adminVars
  PROVE  AloneInv'
<1>1. ASSUME NEW p \in Admins, Ask(p)
      PROVE  AloneInv'
  <2>1. PICK x \in RequestSet :
          /\ request'[p] = x
          /\ x.step \in {"createTable", "load"} /\ x.alone = (Active = {})
          /\ x.kind = "create" <=> x.step = "createTable"
    BY <1>1, AskJoins
  <2>2. /\ Active' = Active \cup {p} /\ \A q \in Admins \ {p} : request'[q].alone = FALSE
        /\ concurrent' = (concurrent \/ Active # {}) /\ Active \subseteq Admins
    BY <1>1, AskJoins DEF Active
  <2>3. x.kind = "update" => UpdateAlone(x)'
    BY <2>1 DEF UpdateAlone, ListSteps
  <2>4. x.kind = "update" => UpdateAlone(request[p])'
    BY <2>1, <2>3 DEF UpdateAlone, Progress, Fits, Exists, AsSeen
  <2> QED
    BY <2>1, <2>2, <2>4 DEF AloneInv
<1>2. ASSUME NEW p \in Admins, AdminStep(p), ~Ask(p)
      PROVE  AloneInv'
  <2>1. Working(p)
    BY <1>2, StepTurns
  <2>2. CASE Becomes(p, NoRequest)
    <3>1. /\ Active' = Active \ {p} /\ \A q \in Active' : request'[q] = request[q]
          /\ concurrent => concurrent'
      BY <1>2, <2>2, BecomesActive, CountsTypedStep DEF Active, AdminNext
    <3> QED
      BY <2>1, <3>1 DEF AloneInv, Working
  <2>3. CASE \E x : Turns(p, x)
    <3>1. PICK x : Turns(p, x)
      BY <2>3
    <3>2. /\ request'[p] = x /\ x \in RequestSet /\ Same(x, request[p]) /\ Active' = Active
          /\ \A q \in Active \ {p} : request'[q] = request[q]
          /\ concurrent => concurrent'
      BY <1>2, <2>1, <3>1, BecomesActive, CountsTypedStep DEF Turns, Active, AdminNext, Working
    <3>3. ASSUME x.alone, x.kind = "update"
          PROVE  UpdateAlone(request[p])'
      <4>1. UpdateAlone(request[p])
        BY <2>1, <3>2, <3>3 DEF AloneInv, Working, Same
      <4>2. UpdateAlone(x)'
        BY <1>2, <3>1, <3>2, <3>3, <4>1, UpdateStep
      <4> QED
        BY <3>2, <4>2 DEF UpdateAlone, Progress, Fits, Exists, AsSeen
    <3>4. ASSUME NEW q \in Active', request'[q].alone
          PROVE  q = p
      BY <2>1, <3>2, <3>4 DEF AloneInv, Working
    <3> QED
      BY <2>1, <3>2, <3>3, <3>4 DEF AloneInv, Same, Working
  <2> QED
    BY <1>2, <2>2, <2>3, StepTurns
<1>3. ASSUME UNCHANGED <<request, concurrent>>,
             \A m \in Names : /\ Exists(m)' = Exists(m)
                              /\ Exists(m) => tables'[m].type = tables[m].type
      PROVE  AloneInv'
  <2>1. Active' = Active
    BY <1>3 DEF Active
  <2>2. ASSUME NEW p \in Active, UpdateAlone(request[p])
        PROVE  UpdateAlone(request[p])'
    <3>1. request[p].target \in Names
      BY Requested DEF Active, AdminTypes, RequestSet
    <3> QED
      BY <1>3, <2>2, <3>1 DEF UpdateAlone, Progress, Fits, Exists, AsSeen
  <2> QED
    BY <1>3, <2>1, <2>2 DEF AloneInv
<1>4. ASSUME NEW n \in Names, WriteRecords(n)
      PROVE  AloneInv'
  BY <1>3, <1>4, WriteKeeps, WriteDoes DEF adminHistory
<1>5. CASE UNCHANGED <<request, concurrent, tables>>
  BY <1>3, <1>5 DEF Exists
<1>6. CASE AdminCrash
  <2>1. Active' = {}
    BY <1>6 DEF AdminCrash, Active
  <2> QED
    BY <2>1 DEF AloneInv
<1> QED
  BY <1>1, <1>2, <1>4, <1>5, <1>6 DEF AdminNext, adminVars, ReferToFile, adminHistory

-----------------------------------------------------------------------------
(* What an update leaves *)

\* The values of n that r keeps are in a table of its afterwards, as they were unless
\* their type changes.
ValuesStay(r, n) ==
  \A c \in tables[n].filled \cap Kept(r) :
    \E m \in {r.name, r.target} :
      /\ Held(m, c)
      /\ c \in tables'[m].altered => c \in tables[n].altered \cup Converted(r)

LEMMA UpdateKeepsValues ==
  ASSUME AdminTypes, NEW p \in Admins, AdminStep(p), ~Ask(p), request[p].kind = "update",
         UpdateAlone(request[p]),
         NEW n \in {request[p].name, request[p].target}, Exists(n)
  PROVE  ValuesStay(request[p], n)
<1> USE DEF AdminTypes
<1>1. /\ Working(p) /\ request[p].name \in Names /\ request[p].target \in Names
      /\ tables[n] \in TableContents
  BY StepTurns DEF Working, RequestSet, Exists, TablesTyped
<1>2. CASE UNCHANGED tables
  BY <1>2 DEF ValuesStay, Exists, Held
<1>3. ASSUME NEW m \in {request[p].name, request[p].target}, tables'[m] # NoTable,
             \A c \in tables[n].filled \cap Kept(request[p]) :
               /\ c \in tables'[m].filled
               /\ c \in tables'[m].altered => c \in tables[n].altered \cup Converted(request[p])
      PROVE  ValuesStay(request[p], n)
  BY <1>3 DEF ValuesStay, Held
<1>4. CASE RenameTable(p) /\ ~UNCHANGED tables
  <2>1. /\ ~Exists(request[p].target) /\ request[p].name # request[p].target
        /\ tables' = [tables EXCEPT ![request[p].name] = NoTable,
                                    ![request[p].target] = tables[request[p].name]]
    BY <1>4, RenameDoes
  <2>2. n = request[p].name
    BY <2>1
  <2>3. tables'[request[p].target] = tables[n]
    BY <1>1, <2>1, <2>2 DEF TablesTyped
  <2> QED
    BY <1>3, <2>3 DEF Exists
<1>5. CASE CreateTable(p)
  <2>1. tables'[n] = tables[n]
    <3> DEFINE fresh == [type |-> TypesOf(request[p].def), filled |-> {}, dups |-> {},
                         altered |-> {}]
    <3>1. tables' = [tables EXCEPT ![request[p].target] =
                       IF Exists(request[p].target) THEN tables[request[p].target] ELSE fresh]
      BY <1>5, CreateTableDoes
    <3> HIDE DEF fresh
    <3> QED
      BY <1>1, <3>1 DEF TablesTyped
  <2> QED
    BY <1>3, <2>1 DEF Exists
<1>6. CASE AddColumn(p) /\ ~UNCHANGED tables
  <2>1. PICK c \in request[p].add :
          /\ Exists(request[p].target)
          /\ tables' = [tables EXCEPT ![request[p].target].type[c] = SqlType[request[p].def[c]]]
    BY <1>6, AddDoes
  <2>2. tables[request[p].target] \in TableContents
    BY <1>1, <2>1 DEF TablesTyped, Exists
  <2>3. tables'[n].filled = tables[n].filled /\ tables'[n].altered = tables[n].altered
    BY <1>1, <2>1, <2>2 DEF TablesTyped, TableContents
  <2>4. tables'[n] # NoTable
    BY <1>1, <2>1, <2>2 DEF TablesTyped, TableContents, NoTable
  <2> QED
    BY <1>3, <2>3, <2>4
<1>7. CASE DropColumn(p) /\ ~UNCHANGED tables
  <2>1. PICK c \in request[p].drop :
          /\ Has(request[p].target, c)
          /\ tables' = [tables EXCEPT ![request[p].target] =
                          [tables[request[p].target] EXCEPT
                             !.type[c] = "none", !.filled = @ \ {c}, !.dups = @ \ {c},
                             !.altered = @ \ {c}]]
    BY <1>7, DropDoes
  <2>2. tables[request[p].target] \in TableContents
    BY <1>1, <2>1 DEF TablesTyped, Exists, Has
  <2> DEFINE t == [tables[request[p].target] EXCEPT
                     !.type[c] = "none", !.filled = @ \ {c}, !.dups = @ \ {c},
                     !.altered = @ \ {c}]
  <2>3. t \in TableContents /\ t.filled = tables[request[p].target].filled \ {c}
        /\ t.altered = tables[request[p].target].altered \ {c}
    BY <2>2 DEF TableContents
  <2>4. tables' = [tables EXCEPT ![request[p].target] = t]
    BY <2>1
  <2> HIDE DEF t
  <2>5. c \notin Kept(request[p])
    BY <1>1 DEF Working, Plausible, Kept
  <2>6. /\ tables'[n] # NoTable /\ tables[n].filled \ {c} \subseteq tables'[n].filled
        /\ tables'[n].altered \subseteq tables[n].altered
    BY <1>1, <2>3, <2>4, Absent DEF TablesTyped
  <2> QED
    BY <1>3, <2>5, <2>6
<1>8. CASE Rebuild(p) /\ ~UNCHANGED tables
  <2>1. PICK dups, altered \in SUBSET Columns :
          /\ \A c \in altered : \/ c \in tables[request[p].target].altered
                                 \/ Cast(request[p], request[p].target, c)
          /\ tables' = [tables EXCEPT ![request[p].target] =
                          [type |-> TypesOf(request[p].def),
                           filled |-> tables[request[p].target].filled \cap Present(p),
                           dups |-> dups, altered |-> altered]]
    BY <1>8, RebuildDoes
  <2>2. Present(p) = Copied(request[p]) /\ request[p].step = "rebuild"
    BY <1>8, RebuildDoes DEF At
  <2>3. Kept(request[p]) = Present(p)
    BY <2>2 DEF Kept, Copied
  <2>4. CASE n = request[p].target
    <3>1. /\ tables'[n].filled = tables[n].filled \cap Present(p) /\ tables'[n] # NoTable
          /\ tables'[n].altered = altered
      BY <1>1, <2>1, <2>4 DEF TablesTyped, NoTable
    <3>2. ASSUME NEW c \in Kept(request[p]), Cast(request[p], n, c)
          PROVE  c \in Converted(request[p])
      BY <2>2, <2>4, <3>2 DEF UpdateAlone, AsSeen, Cast, Converted, Kept
    <3> QED
      BY <1>3, <2>1, <2>3, <2>4, <3>1, <3>2
  <2>5. CASE n # request[p].target
    <3>1. tables'[n] = tables[n]
      BY <1>1, <2>1, <2>5 DEF TablesTyped
    <3> QED
      BY <1>3, <3>1 DEF Exists
  <2> QED
    BY <2>4, <2>5
<1>9. CASE DropTable(p)
  BY <1>9, DropTableDoes
<1> QED
  BY <1>2, <1>4, <1>5, <1>6, <1>7, <1>8, <1>9, StepFrame

\* UpdateRepairs, of one step.
Repairs ==
  \A p \in Admins : LET r == request[p] IN
    r.kind = "update" /\ r.alone /\ request'[p] # r =>
      /\ At(p, "metadata") => Fits(r.target, r.def)
      /\ \A n \in {m \in {r.name, r.target} : Exists(m)} : ValuesStay(r, n)

LEMMA RepairsStep ==
  ASSUME AdminTypes, AloneInv, AdminNext
  PROVE  Repairs
<1> SUFFICES ASSUME NEW p \in Admins, request[p].kind = "update", request[p].alone,
                    request'[p] # request[p]
             PROVE  /\ At(p, "metadata") => Fits(request[p].target, request[p].def)
                    /\ \A n \in {m \in {request[p].name, request[p].target} : Exists(m)} :
                         ValuesStay(request[p], n)
  BY DEF Repairs
<1>1. p \in Active /\ UpdateAlone(request[p])
  <2>1. p \in Active
    BY DEF Active, NoRequest
  <2> QED
    BY <2>1 DEF AloneInv
<1>2. At(p, "metadata") => Fits(request[p].target, request[p].def)
  BY <1>1 DEF UpdateAlone, At
<1>3. CASE UNCHANGED tables
  BY <1>2, <1>3 DEF ValuesStay, Exists, Held
<1>4. CASE \E q \in Admins : Ask(q)
  BY <1>3, <1>4, AskJoins
<1>5. CASE AdminStep(p) /\ ~Ask(p)
  BY <1>1, <1>2, <1>5, UpdateKeepsValues
<1>6. CASE \E q \in Admins : AdminStep(q) /\ ~Ask(q) /\ q # p
  <2>1. PICK q \in Admins : AdminStep(q) /\ ~Ask(q) /\ q # p
    BY <1>6
  <2>2. PICK x : Becomes(q, x)
    BY <2>1, StepTurns DEF Turns
  <2> QED
    BY <2>1, <2>2, BecomesActive
<1> QED
  BY <1>3, <1>4, <1>5, <1>6 DEF AdminNext, AdminCrash, WriteRecords, ReferToFile

-----------------------------------------------------------------------------
(* The catalogue and the tables *)

\* A step of p leaves the catalogue and the tables as its request says.
AgreesNext(p) ==
  \/ Becomes(p, NoRequest) /\ \A n \in Names : Agrees(n)'
  \/ \E x : Turns(p, x) /\ AgreesBut(x)'

LEMMA AgreesSame ==
  ASSUME NEW n, catalog'[n] = catalog[n],
         Exists(n)' = Exists(n), Exists(n) => tables'[n].type = tables[n].type, Agrees(n)
  PROVE  Agrees(n)'
BY DEF Agrees, Catalogued, Exists, Fits, TypesOf

\* Steps that change neither.
LEMMA AgreeUnchanged ==
  ASSUME NEW r, UNCHANGED <<catalog, tables>>
  PROVE  /\ \A n : Agrees(n)' <=> Agrees(n)
         /\ AgreesBut(r)' <=> AgreesBut(r)
BY DEF Agrees, Catalogued, Exists, Fits, TypesOf, AgreesBut, CreateAgrees, DeleteAgrees,
       UpdateAgrees

\* While no statement fails, an update is not given up.
LEMMA UpdatesStay ==
  ASSUME AdminTypes, NEW p \in Admins, Undisturbed', request[p].kind = "update"
  PROVE  ~Quits(p)
BY DEF Quits, Undisturbed

LEMMA AgreeFirst ==
  ASSUME AdminTypes, NEW p \in Admins, Load(p) \/ CheckName(p) \/ RenameTable(p) \/ MoveRefs(p),
         Undisturbed, Undisturbed', AgreesBut(request[p])
  PROVE  AgreesNext(p)
<1> USE DEF AdminTypes, TablesTyped
<1>1. CASE Load(p)
  <2>1. Working(p) /\ request[p].step = "load" /\ UNCHANGED <<catalog, tables>>
    BY <1>1, LoadDoes DEF Load, At
  <2>2. request[p].kind \in {"update", "delete"} /\ request[p].name \in Names
        /\ (request[p].kind = "delete" => request[p].name = request[p].target)
    BY <2>1 DEF Working, RequestSet, Plausible
  <2>3. \A n \in Names : Agrees(n)
    BY <2>1, <2>2 DEF AgreesBut, DeleteAgrees, UpdateAgrees, FirstSteps
  <2>4. \A n \in Names : Agrees(n)'
    BY <2>1, <2>3, AgreeUnchanged
  <2>5. ASSUME NEW s, Stepped(p, s), Catalogued(request[p].name),
               \/ s = "dropTable" /\ request[p].kind = "delete"
               \/ s = "checkName" /\ request[p].kind = "update"
               \/ /\ s = "inspect" /\ request[p].kind = "update"
                  /\ request[p].name = request[p].target
        PROVE  AgreesNext(p)
    <3>1. PICK x : Turns(p, x) /\ x.step = s
      BY <2>5 DEF Stepped
    <3>2. /\ x.name = request[p].name /\ x.target = request[p].target /\ x.kind = request[p].kind
          /\ x.name \in Names /\ x.target \in Names
      BY <3>1 DEF Turns, Same, RequestSet
    <3>3. AgreesBut(x)
      BY <2>3, <2>5, <3>1, <3>2
         DEF AgreesBut, DeleteAgrees, UpdateAgrees, FirstSteps, Agrees, Fits
    <3> QED
      BY <2>1, <3>1, <3>3, AgreeUnchanged DEF AgreesNext
  <2> QED
    BY <1>1, <2>4, <2>5, LoadDoes DEF AgreesNext
<1>2. CASE CheckName(p)
  <2>1. Working(p) /\ request[p].step = "checkName" /\ UNCHANGED <<catalog, tables>>
    BY <1>2, CheckNameDoes DEF CheckName, At
  <2>2. request[p].kind = "update" /\ request[p].name \in Names /\ request[p].target \in Names
    BY <2>1 DEF Working, RequestSet, Plausible
  <2>3. (\A n \in Names : Agrees(n)) /\ Catalogued(request[p].name)
    BY <2>1, <2>2 DEF AgreesBut, UpdateAgrees, FirstSteps
  <2>4. CASE Becomes(p, NoRequest)
    BY <2>1, <2>3, <2>4, AgreeUnchanged DEF AgreesNext
  <2>5. CASE Stepped(p, "rename") /\ (failures' = failures => ~Catalogued(request[p].target))
    <3>1. PICK x : Turns(p, x) /\ x.step = "rename"
      BY <2>5 DEF Stepped
    <3>2. /\ x.name = request[p].name /\ x.target = request[p].target /\ x.kind = "update"
      BY <2>2, <3>1 DEF Turns, Same
    <3>3. ~Catalogued(x.target)
      BY <2>5, <3>2 DEF Undisturbed
    <3>4. AgreesBut(x)
      BY <2>2, <2>3, <3>1, <3>2, <3>3 DEF AgreesBut, UpdateAgrees, FirstSteps
    <3> QED
      BY <2>1, <3>1, <3>4, AgreeUnchanged DEF AgreesNext
  <2> QED
    BY <1>2, <2>4, <2>5, CheckNameDoes
<1>3. CASE RenameTable(p)
  <2>1. /\ Working(p) /\ request[p].step = "rename" /\ UNCHANGED catalog
        /\ request[p].kind = "update" /\ request[p].name # request[p].target
    BY <1>3, RenameDoes DEF RenameTable, At
  <2>2. /\ Stepped(p, "moveRefs")
        /\ Exists(request[p].name)
        /\ tables' = [tables EXCEPT ![request[p].name] = NoTable,
                                    ![request[p].target] = tables[request[p].name]]
    BY <1>3, <2>1, UpdatesStay, RenameDoes
  <2>3. PICK x : Turns(p, x) /\ x.step = "moveRefs"
    BY <2>2 DEF Stepped
  <2>4. /\ x.name = request[p].name /\ x.target = request[p].target /\ x.kind = "update"
        /\ x.name \in Names /\ x.target \in Names
    BY <2>1, <2>3 DEF Turns, Same, RequestSet
  <2>5. Catalogued(x.name) /\ ~Catalogued(x.target)
    BY <2>1, <2>4 DEF AgreesBut, UpdateAgrees
  <2>6. tables'[x.name] = NoTable /\ tables'[x.target] # NoTable
    BY <2>1, <2>2, <2>4 DEF Exists
  <2>7. \A n \in Names \ {x.name, x.target} : Agrees(n)'
    <3> SUFFICES ASSUME NEW n \in Names \ {x.name, x.target}
                 PROVE  Agrees(n)'
      OBVIOUS
    <3>1. tables'[n] = tables[n] /\ catalog'[n] = catalog[n] /\ Agrees(n)
      BY <2>1, <2>2, <2>4 DEF AgreesBut
    <3> QED
      BY <3>1, AgreesSame DEF Exists
  <2>8. AgreesBut(x)'
    BY <2>1, <2>3, <2>4, <2>5, <2>6, <2>7
       DEF AgreesBut, UpdateAgrees, FirstSteps, Exists, Catalogued
  <2> QED
    BY <2>3, <2>8 DEF AgreesNext
<1>4. CASE MoveRefs(p)
  <2>1. /\ Working(p) /\ request[p].step = "moveRefs" /\ UNCHANGED <<catalog, tables>>
        /\ request[p].kind = "update" /\ Stepped(p, "inspect")
    BY <1>4, MoveRefsDoes DEF MoveRefs, At
  <2>2. PICK x : Turns(p, x) /\ x.step = "inspect"
    BY <2>1 DEF Stepped
  <2>3. x.name = request[p].name /\ x.target = request[p].target /\ x.kind = "update"
    BY <2>1, <2>2 DEF Turns, Same
  <2>4. AgreesBut(x)
    BY <2>1, <2>2, <2>3 DEF AgreesBut, UpdateAgrees, FirstSteps
  <2> QED
    BY <2>1, <2>2, <2>4, AgreeUnchanged DEF AgreesNext
<1> QED
  BY <1>1, <1>2, <1>3, <1>4

\* Single changes and a rebuild keep the table.
LEMMA ChangedTable ==
  ASSUME AdminTypes, NEW p \in Admins, AddColumn(p) \/ DropColumn(p) \/ Rebuild(p),
         ~UNCHANGED tables
  PROVE  /\ tables'[request[p].target] # NoTable
         /\ \A n \in Names : n # request[p].target => tables'[n] = tables[n]
<1> USE DEF AdminTypes, TablesTyped
<1>1. request[p].target \in Names
  BY AddDoes, DropDoes, RebuildDoes DEF Working, RequestSet
<1>2. CASE AddColumn(p)
  <2>1. PICK c \in request[p].add :
          /\ Exists(request[p].target)
          /\ tables' = [tables EXCEPT ![request[p].target].type[c] = SqlType[request[p].def[c]]]
    BY <1>2, AddDoes
  <2>2. tables[request[p].target] \in TableContents
    BY <1>1, <2>1 DEF Exists
  <2>3. tables'[request[p].target] # NoTable
    BY <1>1, <2>1, <2>2 DEF TableContents, NoTable
  <2> QED
    BY <1>1, <2>1, <2>3
<1>3. CASE DropColumn(p)
  <2>1. PICK c \in request[p].drop :
          /\ Has(request[p].target, c)
          /\ tables' = [tables EXCEPT ![request[p].target] =
                          [tables[request[p].target] EXCEPT
                             !.type[c] = "none", !.filled = @ \ {c}, !.dups = @ \ {c},
                             !.altered = @ \ {c}]]
    BY <1>3, DropDoes
  <2> DEFINE t == [tables[request[p].target] EXCEPT
                     !.type[c] = "none", !.filled = @ \ {c}, !.dups = @ \ {c},
                     !.altered = @ \ {c}]
  <2>2. tables[request[p].target] \in TableContents
    BY <1>1, <2>1 DEF Has, Exists
  <2>3. t \in TableContents
    BY <2>2 DEF TableContents
  <2>4. tables' = [tables EXCEPT ![request[p].target] = t]
    BY <2>1
  <2> HIDE DEF t
  <2> QED
    BY <1>1, <2>3, <2>4, Absent
<1>4. CASE Rebuild(p)
  <2>1. PICK dups, altered \in SUBSET Columns :
          tables' = [tables EXCEPT ![request[p].target] =
                       [type |-> TypesOf(request[p].def),
                        filled |-> tables[request[p].target].filled \cap Present(p),
                        dups |-> dups, altered |-> altered]]
    BY <1>4, RebuildDoes
  <2> QED
    BY <1>1, <2>1 DEF NoTable
<1> QED
  BY <1>2, <1>3, <1>4

\* An update that has begun to write keeps to its own table.
LEMMA AgreeUpdate ==
  ASSUME AdminTypes, NEW p \in Admins, Working(p), request[p].kind = "update",
         request[p].step \notin FirstSteps, AgreesBut(request[p]), UNCHANGED catalog,
         tables'[request[p].target] # NoTable,
         \A n \in Names : n # request[p].target => tables'[n] = tables[n],
         NEW x, Turns(p, x), x.step \notin FirstSteps
  PROVE  AgreesNext(p)
<1>1. /\ x.name = request[p].name /\ x.target = request[p].target /\ x.kind = "update"
      /\ x.name \in Names /\ x.target \in Names
  BY DEF Turns, Same, RequestSet
<1>2. /\ Catalogued(x.name)
      /\ x.name # x.target => ~Catalogued(x.target) /\ ~Exists(x.name)
  BY <1>1 DEF AgreesBut, UpdateAgrees, FirstSteps
<1>3. \A n \in Names \ {x.name, x.target} : Agrees(n)'
  <2> SUFFICES ASSUME NEW n \in Names \ {x.name, x.target}
               PROVE  Agrees(n)'
    OBVIOUS
  <2>1. tables'[n] = tables[n] /\ catalog'[n] = catalog[n] /\ Agrees(n)
    BY <1>1 DEF AgreesBut
  <2> QED
    BY <2>1, AgreesSame DEF Exists
<1>4. UpdateAgrees(x)'
  BY <1>1, <1>2 DEF UpdateAgrees, FirstSteps, Catalogued, Exists
<1>5. AgreesBut(x)'
  BY <1>1, <1>3, <1>4 DEF AgreesBut
<1> QED
  BY <1>5 DEF AgreesNext

LEMMA AgreeTable ==
  ASSUME AdminTypes, NEW p \in Admins, Inspect(p) \/ AddColumn(p) \/ DropColumn(p) \/ Rebuild(p),
         Undisturbed, Undisturbed', AgreesBut(request[p])
  PROVE  AgreesNext(p)
<1> USE DEF AdminTypes, TablesTyped
<1>1. /\ Working(p) /\ request[p].kind = "update" /\ UNCHANGED catalog
      /\ request[p].step \in {"inspect", "add", "drop", "rebuild"}
  BY InspectDoes, AddDoes, DropDoes, RebuildDoes DEF At, Inspect, AddColumn, DropColumn, Rebuild
<1>2. request[p].step \notin FirstSteps /\ request[p].target \in Names
  BY <1>1 DEF FirstSteps, Working, RequestSet
<1>3. Exists(request[p].target) /\ ~Quits(p)
  BY <1>1, <1>2, UpdatesStay DEF AgreesBut, UpdateAgrees
<1>5. PICK x : Turns(p, x) /\ x.step \notin FirstSteps
  BY <1>3, InspectDoes, AddDoes, DropDoes, RebuildDoes
     DEF Stepped, Resumed, FirstSteps, ListSteps
<1>6. CASE UNCHANGED tables
  BY <1>1, <1>2, <1>3, <1>5, <1>6, AgreeUpdate DEF Exists
<1>7. CASE ~UNCHANGED tables
  BY <1>1, <1>2, <1>5, <1>7, AgreeUpdate, ChangedTable DEF Inspect
<1> QED
  BY <1>6, <1>7

\* Of a create, that of which the name was free.
LEMMA AgreeCreate ==
  ASSUME AdminTypes, NEW p \in Admins, CreateTable(p) \/ SyncIndex(p),
         Undisturbed, Undisturbed', AgreesBut(request[p]),
         request[p].kind = "update" => UpdateAlone(request[p])
  PROVE  AgreesNext(p)
<1> USE DEF AdminTypes, TablesTyped
<1>1. /\ Working(p) /\ UNCHANGED catalog /\ request[p].kind \in {"create", "update"}
      /\ request[p].step \in {"createTable", "index"} /\ request[p].target \in Names
      /\ request[p].name \in Names /\ request[p].def \in Definitions
  BY CreateTableDoes, SyncIndexDoes DEF At, CreateTable, SyncIndex, Working, RequestSet
<1>2. CASE request[p].kind = "update"
  <2>1. Exists(request[p].target) /\ request[p].step \notin FirstSteps /\ ~Quits(p)
    BY <1>1, <1>2, UpdatesStay DEF AgreesBut, UpdateAgrees, FirstSteps
  <2>2. SyncIndex(p)
    BY <1>1, <1>2, <2>1, CreateTableDoes DEF UpdateAlone, At
  <2>3. PICK x : Turns(p, x) /\ x.step \in ListSteps \cup {"metadata"}
    BY <2>1, <2>2, SyncIndexDoes DEF Resumed
  <2>4. UNCHANGED tables /\ x.step \notin FirstSteps
    BY <2>2, <2>3 DEF SyncIndex, FirstSteps, ListSteps
  <2> QED
    BY <1>1, <1>2, <2>1, <2>3, <2>4, AgreeUpdate DEF Exists
<1>3. CASE request[p].kind = "create"
  <2>1. request[p].target = request[p].name /\ CreateAgrees(request[p])
    BY <1>1, <1>3 DEF Working, Plausible, AgreesBut
  <2>2. \A n \in Names \ {request[p].name} : Agrees(n)
    BY <2>1 DEF AgreesBut
  <2>3. ASSUME NEW x, Turns(p, x), x.step \in ListSteps \cup {"metadata"},
               \A n \in Names \ {x.name} : tables'[n] = tables[n],
               IF Catalogued(x.name) THEN Fits(x.name, catalog[x.name])'
               ELSE Fits(x.name, x.def)' /\ tables'[x.name].dups = {}
        PROVE  AgreesNext(p)
    <3>1. x.name = request[p].name /\ x.target = request[p].name /\ x.kind = "create"
      BY <1>3, <2>1, <2>3 DEF Turns, Same
    <3>2. \A n \in Names \ {x.name} : Agrees(n)'
      <4> SUFFICES ASSUME NEW n \in Names \ {x.name}
                   PROVE  Agrees(n)'
        OBVIOUS
      <4>1. tables'[n] = tables[n] /\ catalog'[n] = catalog[n] /\ Agrees(n)
        BY <1>1, <2>2, <2>3, <3>1
      <4> QED
        BY <4>1, AgreesSame DEF Exists
    <3>3. CreateAgrees(x)'
      BY <1>1, <2>3 DEF CreateAgrees, Catalogued, Fits, ListSteps
    <3> QED
      BY <2>3, <3>1, <3>2, <3>3 DEF AgreesNext, AgreesBut
  <2>4. CASE CreateTable(p)
    <3>1. PICK x : Turns(p, x) /\ x.step \in ListSteps \cup {"metadata"}
      BY <2>4, CreateTableDoes DEF Resumed
    <3>2. x.name = request[p].name /\ x.def = request[p].def
      BY <3>1 DEF Turns, Same
    <3> DEFINE fresh == [type |-> TypesOf(x.def), filled |-> {}, dups |-> {}, altered |-> {}]
    <3>3. tables' = [tables EXCEPT ![x.name] = IF Exists(x.name) THEN tables[x.name] ELSE fresh]
      BY <2>1, <2>4, <3>2, CreateTableDoes
    <3>4. fresh # NoTable /\ fresh.type = TypesOf(x.def) /\ fresh.dups = {}
      BY DEF NoTable
    <3> HIDE DEF fresh
    <3>5. CASE Catalogued(x.name)
      <4>1. Fits(x.name, catalog[x.name])
        BY <2>1, <3>2, <3>5 DEF CreateAgrees
      <4>2. UNCHANGED tables
        BY <3>3, <4>1 DEF Fits
      <4>3. Fits(x.name, catalog[x.name])'
        BY <1>1, <4>1, <4>2 DEF Fits, Exists, TypesOf
      <4> QED
        BY <2>3, <3>1, <3>5, <4>2, <4>3
    <3>6. CASE ~Catalogued(x.name)
      <4>1. ~Exists(x.name)
        BY <2>1, <2>4, <3>2, <3>6, CreateTableDoes DEF CreateAgrees, At
      <4>2. tables'[x.name] = fresh /\ \A n \in Names \ {x.name} : tables'[n] = tables[n]
        BY <1>1, <3>2, <3>3, <4>1
      <4>3. Fits(x.name, x.def)' /\ tables'[x.name].dups = {}
        BY <3>4, <4>2 DEF Fits, Exists, TypesOf
      <4> QED
        BY <2>3, <3>1, <3>6, <4>2, <4>3
    <3> QED
      BY <3>5, <3>6
  <2>5. CASE SyncIndex(p)
    <3>1. UNCHANGED tables /\ request[p].step = "index"
      BY <2>5, SyncIndexDoes DEF SyncIndex, At
    <3>2. CASE Catalogued(request[p].name)
      <4>1. Fits(request[p].name, catalog[request[p].name])
        BY <2>1, <3>2 DEF CreateAgrees
      <4>2. CASE Becomes(p, NoRequest)
        <5>1. \A n \in Names : Agrees(n)
          BY <2>2, <3>2, <4>1 DEF Agrees
        <5> QED
          BY <1>1, <3>1, <4>2, <5>1, AgreeUnchanged DEF AgreesNext
      <4>3. CASE \E r : Resumed(p, r)
        <5>1. PICK x : Turns(p, x) /\ x.step \in ListSteps \cup {"metadata"}
          BY <4>3 DEF Resumed
        <5>2. x.name = request[p].name
          BY <5>1 DEF Turns, Same
        <5>3. Fits(x.name, catalog[x.name])'
          BY <1>1, <3>1, <4>1, <5>2 DEF Fits, Exists, TypesOf
        <5> QED
          BY <2>3, <3>1, <3>2, <5>1, <5>2, <5>3
      <4> QED
        BY <2>5, <4>2, <4>3, SyncIndexDoes DEF Quits
    <3>3. CASE ~Catalogued(request[p].name)
      <4>1. Fits(request[p].name, request[p].def) /\ tables[request[p].name].dups = {}
        BY <2>1, <3>1, <3>3 DEF CreateAgrees
      <4>2. \A c \in UniqueIn(request[p].def) : Has(request[p].target, c)
        BY <2>1, <4>1 DEF Fits, Has, UniqueIn, TypesOf, SqlType
      <4>3. PICK r : Resumed(p, r)
        BY <2>1, <2>5, <4>1, <4>2, SyncIndexDoes DEF Fits
      <4>4. PICK x : Turns(p, x) /\ x.step \in ListSteps \cup {"metadata"}
        BY <4>3 DEF Resumed
      <4>5. x.name = request[p].name /\ x.def = request[p].def
        BY <4>4 DEF Turns, Same
      <4>6. Fits(x.name, x.def)' /\ tables'[x.name].dups = {}
        BY <3>1, <4>1, <4>5 DEF Fits, Exists, TypesOf
      <4> QED
        BY <2>3, <3>1, <3>3, <4>4, <4>5, <4>6
    <3> QED
      BY <3>2, <3>3
  <2> QED
    BY <2>4, <2>5
<1> QED
  BY <1>1, <1>2, <1>3

LEMMA AgreeCatalog ==
  ASSUME AdminTypes, NEW p \in Admins,
         \/ SaveMetadata(p) \/ UpdateMetadata(p) \/ DeleteMetadata(p) \/ DropTable(p)
         \/ DropRefs(p),
         Undisturbed, Undisturbed', AgreesBut(request[p]),
         request[p].kind = "update" => UpdateAlone(request[p])
  PROVE  AgreesNext(p)
<1> USE DEF AdminTypes, TablesTyped
<1>1. /\ Working(p) /\ request[p].name \in Names /\ request[p].target \in Names
      /\ request[p].def \in Definitions
      /\ request[p].kind # "update" => request[p].target = request[p].name
      /\ request[p].def # NoEntry
  BY SaveDoes, UpdateMetadataDoes, DeleteMetadataDoes, DropTableDoes, DropRefsDoes, Absent
     DEF Working, RequestSet, Plausible
<1>2. CASE SaveMetadata(p)
  <2>1. /\ request[p].kind = "create" /\ request[p].step = "metadata" /\ UNCHANGED tables
        /\ CreateAgrees(request[p])
    BY <1>1, <1>2, SaveDoes DEF At, SaveMetadata, AgreesBut
  <2>2. \A n \in Names \ {request[p].name} : Agrees(n)
    BY <1>1, <2>1 DEF AgreesBut
  <2>3. CASE Catalogued(request[p].name)
    <3>1. \A n \in Names : Agrees(n)
      BY <2>1, <2>2, <2>3 DEF CreateAgrees, Agrees
    <3>2. Becomes(p, NoRequest) /\ UNCHANGED catalog
      BY <1>2, <2>3, SaveDoes DEF Quits
    <3> QED
      BY <2>1, <3>1, <3>2, AgreeUnchanged DEF AgreesNext
  <2>4. CASE ~Catalogued(request[p].name)
    <3>1. Becomes(p, NoRequest)
          /\ catalog' = [catalog EXCEPT ![request[p].name] = request[p].def]
      BY <1>2, <2>4, SaveDoes
    <3>2. Fits(request[p].name, request[p].def)
      BY <2>1, <2>4 DEF CreateAgrees
    <3>3. ASSUME NEW n \in Names
          PROVE  Agrees(n)'
      <4>1. CASE n = request[p].name
        BY <1>1, <2>1, <3>1, <3>2, <4>1 DEF Agrees, Catalogued, Fits, Exists, TypesOf
      <4>2. CASE n # request[p].name
        BY <2>1, <2>2, <3>1, <4>2, AgreesSame DEF Exists
      <4> QED
        BY <4>1, <4>2
    <3> QED
      BY <3>1, <3>3 DEF AgreesNext
  <2> QED
    BY <2>3, <2>4
<1>3. CASE UpdateMetadata(p)
  <2>1. /\ request[p].kind = "update" /\ request[p].step = "metadata" /\ UNCHANGED tables
        /\ Fits(request[p].target, request[p].def) /\ UpdateAgrees(request[p])
    BY <1>3, UpdateMetadataDoes DEF At, UpdateMetadata, AgreesBut, UpdateAlone
  <2>2. /\ Catalogued(request[p].name)
        /\ request[p].name # request[p].target => ~Exists(request[p].name)
    BY <2>1 DEF UpdateAgrees, FirstSteps
  <2>3. /\ Becomes(p, NoRequest)
        /\ catalog' = [n \in Names |-> IF n = request[p].target THEN request[p].def
                                       ELSE IF n = request[p].name THEN NoEntry ELSE catalog[n]]
    BY <1>3, <2>1, <2>2, UpdatesStay, UpdateMetadataDoes
  <2>4. ASSUME NEW n \in Names
        PROVE  Agrees(n)'
    <3>1. CASE n = request[p].target
      <4>1. catalog'[n] = request[p].def
        BY <2>3, <3>1
      <4> QED
        BY <1>1, <2>1, <3>1, <4>1 DEF Agrees, Catalogued, Fits, Exists, TypesOf
    <3>2. CASE n # request[p].target /\ n = request[p].name
      <4>1. catalog'[n] = NoEntry
        BY <2>3, <3>2
      <4> QED
        BY <2>1, <2>2, <3>2, <4>1 DEF Agrees, Catalogued, Exists
    <3>3. CASE n \notin {request[p].name, request[p].target}
      <4>1. catalog'[n] = catalog[n] /\ Agrees(n)
        BY <2>3, <3>3 DEF AgreesBut
      <4> QED
        BY <2>1, <4>1, AgreesSame DEF Exists
    <3> QED
      BY <3>1, <3>2, <3>3
  <2> QED
    BY <2>3, <2>4 DEF AgreesNext
<1>4. ASSUME request[p].kind = "delete", NEW s, Stepped(p, s), NEW m, m = request[p].name,
             \A n \in Names \ {m} : catalog'[n] = catalog[n] /\ tables'[n] = tables[n],
             IF s = "metadata" THEN ~Exists(m)' ELSE Agrees(m)'
      PROVE  AgreesNext(p)
  <2>1. PICK x : Turns(p, x) /\ x.step = s
    BY <1>4 DEF Stepped
  <2>2. x.kind = "delete" /\ x.name = m /\ x.target = m
    BY <1>1, <1>4, <2>1 DEF Turns, Same
  <2>3. \A n \in Names \ {x.name, x.target} : Agrees(n)'
    <3> SUFFICES ASSUME NEW n \in Names \ {x.name, x.target}
                 PROVE  Agrees(n)'
      OBVIOUS
    <3>1. tables'[n] = tables[n] /\ catalog'[n] = catalog[n] /\ Agrees(n)
      BY <1>1, <1>4, <2>2 DEF AgreesBut
    <3> QED
      BY <3>1, AgreesSame DEF Exists
  <2>4. DeleteAgrees(x)'
    BY <1>4, <2>1, <2>2 DEF DeleteAgrees, Agrees, Exists, Catalogued, Fits
  <2> QED
    BY <2>1, <2>2, <2>3, <2>4 DEF AgreesNext, AgreesBut
<1>5. CASE DeleteMetadata(p)
  <2> PICK m : m = request[p].name
    OBVIOUS
  <2>1. /\ request[p].kind = "delete" /\ request[p].step = "metadata" /\ UNCHANGED tables
        /\ catalog' = [catalog EXCEPT ![request[p].name] = NoEntry] /\ Stepped(p, "dropRefs")
    BY <1>5, DeleteMetadataDoes DEF At, DeleteMetadata
  <2>2. ~Exists(request[p].name)
    BY <2>1 DEF AgreesBut, DeleteAgrees
  <2>3. Agrees(m)'
    BY <1>1, <2>1, <2>2 DEF Agrees, Catalogued, Exists
  <2> QED
    BY <1>4, <2>1, <2>3
<1>6. CASE DropTable(p)
  <2> PICK m : m = request[p].name
    OBVIOUS
  <2>1. /\ request[p].kind = "delete" /\ UNCHANGED catalog /\ Stepped(p, "metadata")
        /\ tables' = [tables EXCEPT ![request[p].name] = NoTable]
    BY <1>6, DropTableDoes DEF DropTable
  <2>2. ~Exists(m)'
    BY <1>1, <2>1 DEF Exists
  <2> QED
    BY <1>4, <2>1, <2>2
<1>7. CASE DropRefs(p)
  <2>1. /\ request[p].kind = "delete" /\ request[p].step = "dropRefs"
        /\ UNCHANGED <<catalog, tables>> /\ Becomes(p, NoRequest)
    BY <1>7, DropRefsDoes DEF DropRefs, At
  <2>2. \A n \in Names : Agrees(n)
    BY <1>1, <2>1 DEF AgreesBut, DeleteAgrees
  <2> QED
    BY <2>1, <2>2, AgreeUnchanged DEF AgreesNext
<1> QED
  BY <1>2, <1>3, <1>5, <1>6, <1>7

LEMMA AgreeStep ==
  ASSUME AdminTypes, AdminTypes', AloneInv, AgreeInv, [AdminNext]_adminVars
  PROVE  AgreeInv'
<1> SUFFICES ASSUME Undisturbed'
             PROVE  /\ Active' = {} => \A n \in Names : Agrees(n)'
                    /\ \A p \in Active' : AgreesBut(request[p])'
  BY DEF AgreeInv
<1>1. Undisturbed
  BY CountsTypedStep DEF Undisturbed, AdminTypes, CountsTyped
<1>2. /\ Active = {} => \A n \in Names : Agrees(n)
      /\ \A p \in Active : AgreesBut(request[p])
  BY <1>1 DEF AgreeInv
<1>3. ASSUME NEW p \in Admins, Ask(p)
      PROVE  AgreeInv'
  <2>1. Active = {} /\ Active' = {p} /\ UNCHANGED <<catalog, tables>>
    BY <1>3, AskJoins DEF Undisturbed
  <2>2. PICK x \in RequestSet :
          /\ request'[p] = x /\ x.step \in {"createTable", "load"}
          /\ x.kind = "create" <=> x.step = "createTable"
    BY <1>3, AskJoins
  <2>3. x.name \in Names /\ x.target \in Names
    BY <2>2 DEF RequestSet
  <2>4. \A n \in Names : Agrees(n)
    BY <1>2, <2>1
  <2>5. AgreesBut(x)
    BY <2>2, <2>3, <2>4
       DEF AgreesBut, CreateAgrees, DeleteAgrees, UpdateAgrees, Agrees, FirstSteps
  <2>6. AgreesBut(x)'
    BY <2>1, <2>5, AgreeUnchanged
  <2>7. AgreesBut(request[p])'
    BY <2>2, <2>6 DEF AgreesBut, CreateAgrees, DeleteAgrees, UpdateAgrees
  <2> QED
    BY <2>1, <2>7 DEF AgreeInv
<1>4. ASSUME NEW p \in Admins, AdminStep(p), ~Ask(p)
      PROVE  AgreeInv'
  <2>1. Working(p) /\ request[p].alone
    BY <1>1, <1>4, StepTurns DEF AloneInv, Undisturbed, Working
  <2>2. /\ Active = {p} /\ AgreesBut(request[p])
        /\ request[p].kind = "update" => UpdateAlone(request[p])
    BY <1>2, <2>1 DEF AloneInv, Working
  <2>3. ~AdminStatementFails(p)
    BY <1>1 DEF AdminStatementFails, Undisturbed, AdminTypes, CountsTyped
  <2>4. AgreesNext(p)
    BY <1>1, <1>4, <2>2, <2>3, AgreeFirst, AgreeTable, AgreeCreate, AgreeCatalog DEF AdminStep
  <2>5. CASE Becomes(p, NoRequest) /\ \A n \in Names : Agrees(n)'
    <3>1. Active' = {}
      BY <2>2, <2>5, BecomesActive
    <3> QED
      BY <2>5, <3>1 DEF AgreeInv
  <2>6. ASSUME NEW x, Turns(p, x), AgreesBut(x)'
        PROVE  AgreeInv'
    <3>1. Active' = {p} /\ request'[p] = x
      BY <2>2, <2>6, BecomesActive DEF Turns
    <3>2. AgreesBut(request[p])'
      BY <2>6, <3>1 DEF AgreesBut, CreateAgrees, DeleteAgrees, UpdateAgrees
    <3> QED
      BY <3>1, <3>2 DEF AgreeInv
  <2> QED
    BY <2>4, <2>5, <2>6 DEF AgreesNext
<1>5. CASE UNCHANGED <<catalog, tables, request>>
  <2>1. Active' = Active
    BY <1>5 DEF Active
  <2> QED
    BY <1>2, <1>5, <2>1, AgreeUnchanged
       DEF AgreeInv, AgreesBut, CreateAgrees, DeleteAgrees, UpdateAgrees, Agrees, Fits,
           Catalogued, Exists
<1>6. ASSUME NEW n \in Names, WriteRecords(n)
      PROVE  AgreeInv'
  <2>1. Active' = Active /\ UNCHANGED <<catalog, request>>
    BY <1>6, WriteDoes DEF Active
  <2>2. \A m \in Names : Agrees(m) <=> Agrees(m)'
    <3> SUFFICES ASSUME NEW m \in Names
                 PROVE  Agrees(m) <=> Agrees(m)'
      OBVIOUS
    <3>1. Exists(m)' = Exists(m) /\ (Exists(m) => tables'[m].type = tables[m].type)
      BY <1>6, WriteKeeps
    <3> QED
      BY <2>1, <3>1 DEF Agrees, Exists, Catalogued, Fits
  <2>3. \A m \in Names : ~Catalogued(m) => tables'[m] = tables[m]
    BY <1>6, WriteDoes DEF AdminTypes, TablesTyped
  <2>4. ASSUME NEW p \in Active
        PROVE  AgreesBut(request[p])'
    <3>1. /\ request[p].name \in Names /\ request[p].target \in Names
          /\ request'[p] = request[p]
      BY <2>1, <2>4, Requested DEF Active, AdminTypes, RequestSet
    <3>2. AgreesBut(request[p])
      BY <1>2
    <3>3. \A m \in Names : Exists(m)' = Exists(m) /\ Catalogued(m)' = Catalogued(m)
                           /\ (Exists(m) => tables'[m].type = tables[m].type)
      BY <1>6, <2>1, WriteKeeps DEF Catalogued
    <3>4. request[p].kind = "create" => CreateAgrees(request[p])'
      BY <2>1, <2>3, <3>1, <3>2, <3>3 DEF AgreesBut, CreateAgrees, Fits
    <3>5. request[p].kind = "delete" => DeleteAgrees(request[p])'
      BY <2>2, <3>1, <3>2, <3>3 DEF AgreesBut, DeleteAgrees
    <3>6. request[p].kind = "update" => UpdateAgrees(request[p])'
      BY <2>2, <3>1, <3>2, <3>3 DEF AgreesBut, UpdateAgrees
    <3> QED
      BY <2>2, <3>1, <3>2, <3>4, <3>5, <3>6 DEF AgreesBut
  <2> QED
    BY <1>2, <2>1, <2>2, <2>4 DEF AgreeInv
<1>7. ~AdminCrash
  BY <1>1 DEF AdminCrash, Undisturbed, AdminTypes, CountsTyped
<1> QED
  BY <1>3, <1>4, <1>5, <1>6, <1>7 DEF AdminNext, adminVars, ReferToFile, AgreeInv

-----------------------------------------------------------------------------
(* File references *)

LEMMA TablesStay ==
  ASSUME AdminTypes, NEW p \in Admins, AdminStep(p), ~RenameTable(p), ~DropTable(p)
  PROVE  \A n \in Names : Exists(n) => Exists(n)'
<1>1. CASE UNCHANGED tables
  BY <1>1 DEF Exists
<1>2. CASE CreateTable(p)
  <2> DEFINE fresh == [type |-> TypesOf(request[p].def), filled |-> {}, dups |-> {}, altered |-> {}]
  <2>1. tables' = [tables EXCEPT ![request[p].target] =
                     IF Exists(request[p].target) THEN tables[request[p].target] ELSE fresh]
    BY <1>2, CreateTableDoes
  <2>2. fresh # NoTable
    BY DEF NoTable
  <2> HIDE DEF fresh
  <2> QED
    BY <2>1, <2>2 DEF AdminTypes, TablesTyped, Exists
<1>3. CASE (AddColumn(p) \/ DropColumn(p) \/ Rebuild(p)) /\ ~UNCHANGED tables
  BY <1>3, ChangedTable DEF Exists
<1> QED
  BY <1>1, <1>2, <1>3, StepFrame

\* A step of the only request.
LEMMA RefsAlone ==
  ASSUME AdminTypes, NEW p \in Admins, AdminStep(p), ~Ask(p), Active = {p}, RefsInv,
         ~concurrent, failures = 0, failures' = 0
  PROVE  RefsInv'
<1> USE DEF AdminTypes, TablesTyped
<1>1. /\ \A n \in Names : fileRefs[n] => Exists(n) \/ RefsWait(request[p], n)
      /\ request[p].step = "moveRefs" => Exists(request[p].target)
  BY DEF RefsInv
<1>2. Working(p) /\ request[p].name \in Names /\ request[p].target \in Names
  BY StepTurns DEF Working, RequestSet
\* p's request ends.
<1>3. ASSUME Becomes(p, NoRequest), \A n \in Names : fileRefs'[n] => Exists(n)'
      PROVE  RefsInv'
  <2>1. Active' = {}
    BY <1>3, BecomesActive
  <2> QED
    BY <1>3, <2>1 DEF RefsInv
<1>4. ASSUME NEW x, Turns(p, x), x.step = "moveRefs" => Exists(x.target)',
             \A n \in Names : fileRefs'[n] => Exists(n)' \/ RefsWait(x, n)
      PROVE  RefsInv'
  <2>1. Active' = {p} /\ request'[p] = x
    BY <1>4, BecomesActive DEF Turns
  <2> QED
    BY <1>4, <2>1 DEF RefsInv, RefsWait, Exists
<1>5. CASE RenameTable(p)
  <2>1. UNCHANGED fileRefs /\ request[p].step = "rename" /\ request[p].kind = "update"
    BY <1>5, RenameDoes DEF RenameTable, At
  <2>2. \A n \in Names : fileRefs[n] => Exists(n)
    BY <1>1, <2>1 DEF RefsWait
  <2>3. CASE Quits(p) /\ UNCHANGED tables
    BY <1>3, <2>1, <2>2, <2>3 DEF Quits, Exists
  <2>4. CASE ~(Quits(p) /\ UNCHANGED tables)
    <3>1. /\ Stepped(p, "moveRefs") /\ Exists(request[p].name)
          /\ tables' = [tables EXCEPT ![request[p].name] = NoTable,
                                      ![request[p].target] = tables[request[p].name]]
      BY <1>5, <2>4, RenameDoes
    <3>2. PICK x : Turns(p, x) /\ x.step = "moveRefs"
      BY <3>1 DEF Stepped
    <3>3. x.name = request[p].name /\ x.target = request[p].target
      BY <3>2 DEF Turns, Same
    <3>4. /\ tables'[x.target] # NoTable
          /\ \A n \in Names \ {x.name} : Exists(n) => tables'[n] # NoTable
      BY <1>2, <1>5, <3>1, <3>3, RenameDoes DEF Exists
    <3>5. \A n \in Names : fileRefs'[n] => Exists(n)' \/ RefsWait(x, n)
      BY <2>1, <2>2, <3>2, <3>4 DEF RefsWait, Exists
    <3>6. Exists(x.target)'
      BY <3>4 DEF Exists
    <3> QED
      BY <1>4, <3>2, <3>5, <3>6
  <2> QED
    BY <2>3, <2>4
<1>6. CASE DropTable(p)
  <2>1. /\ UNCHANGED fileRefs /\ request[p].step = "dropTable" /\ request[p].kind = "delete"
        /\ Stepped(p, "metadata") /\ tables' = [tables EXCEPT ![request[p].name] = NoTable]
    BY <1>6, DropTableDoes DEF DropTable, At
  <2>2. PICK x : Turns(p, x) /\ x.step = "metadata"
    BY <2>1 DEF Stepped
  <2>3. x.name = request[p].name /\ x.kind = "delete"
    BY <2>1, <2>2 DEF Turns, Same
  <2>4. \A n \in Names : fileRefs'[n] => Exists(n)' \/ RefsWait(x, n)
    BY <1>1, <2>1, <2>2, <2>3 DEF RefsWait, Exists
  <2> QED
    BY <1>4, <2>2, <2>4
<1>7. CASE MoveRefs(p)
  <2>1. /\ UNCHANGED tables /\ request[p].step = "moveRefs" /\ Stepped(p, "inspect")
        /\ request[p].kind = "update" /\ request[p].name # request[p].target
        /\ fileRefs' = [fileRefs EXCEPT ![request[p].name] = FALSE,
                          ![request[p].target] = @ \/ fileRefs[request[p].name]]
    BY <1>7, MoveRefsDoes DEF MoveRefs, At
  <2>2. PICK x : Turns(p, x) /\ x.step = "inspect"
    BY <2>1 DEF Stepped
  <2>3. \A n \in Names \ {request[p].name, request[p].target} : fileRefs'[n] = fileRefs[n]
    BY <2>1
  <2>4. ~fileRefs'[request[p].name]
    BY <1>2, <2>1
  <2>5. \A n \in Names : fileRefs'[n] => Exists(n)
    BY <1>1, <2>1, <2>3, <2>4 DEF RefsWait
  <2> QED
    BY <1>4, <2>1, <2>2, <2>5 DEF Exists
<1>8. CASE DropRefs(p)
  <2>1. /\ UNCHANGED tables /\ request[p].step = "dropRefs" /\ request[p].kind = "delete"
        /\ Becomes(p, NoRequest)
    BY <1>8, DropRefsDoes DEF DropRefs, At
  <2>2. fileRefs' = [fileRefs EXCEPT ![request[p].name] = FALSE]
    BY <1>8 DEF DropRefs
  <2>3. \A n \in Names : fileRefs'[n] => Exists(n)
    <3>1. ~fileRefs'[request[p].name]
          /\ \A n \in Names \ {request[p].name} : fileRefs'[n] = fileRefs[n]
      BY <1>2, <2>2
    <3> QED
      BY <1>1, <2>1, <3>1 DEF RefsWait
  <2> QED
    BY <1>3, <2>1, <2>3 DEF Exists
<1>9. CASE DeleteMetadata(p)
  <2>1. /\ UNCHANGED <<tables, fileRefs>> /\ request[p].kind = "delete"
        /\ Stepped(p, "dropRefs")
    BY <1>9, DeleteMetadataDoes DEF DeleteMetadata
  <2>2. PICK x : Turns(p, x) /\ x.step = "dropRefs"
    BY <2>1 DEF Stepped
  <2>3. x.name = request[p].name /\ x.kind = "delete"
    BY <2>1, <2>2 DEF Turns, Same
  <2>4. \A n \in Names : fileRefs'[n] => Exists(n)' \/ RefsWait(x, n)
    BY <1>1, <2>1, <2>2, <2>3 DEF RefsWait, Exists
  <2> QED
    BY <1>4, <2>2, <2>4
\* At the other steps no references wait.
<1>10. ASSUME ~RenameTable(p), ~DropTable(p), ~MoveRefs(p), ~DropRefs(p), ~DeleteMetadata(p)
       PROVE  RefsInv'
  <2>1. ~AdminStatementFails(p)
    BY DEF AdminStatementFails
  <2>2. UNCHANGED fileRefs /\ \A n \in Names : Exists(n) => Exists(n)'
    BY <1>10, StepFrame, TablesStay
  <2>3. \A n \in Names : ~RefsWait(request[p], n)
    BY <1>10, <2>1, LoadDoes, CheckNameDoes, InspectDoes, CreateTableDoes, AddDoes, DropDoes,
       RebuildDoes, SyncIndexDoes, SaveDoes, UpdateMetadataDoes DEF AdminStep, At, RefsWait
  <2>4. \A n \in Names : fileRefs'[n] => Exists(n)'
    BY <1>1, <2>2, <2>3
  <2>5. CASE Becomes(p, NoRequest)
    BY <1>3, <2>4, <2>5
  <2>6. CASE ~Becomes(p, NoRequest)
    <3>1. PICK x : Turns(p, x) /\ x.step # "moveRefs"
      BY <1>10, <2>1, <2>6, LoadDoes, CheckNameDoes, InspectDoes, CreateTableDoes, AddDoes,
         DropDoes, RebuildDoes, SyncIndexDoes, SaveDoes, UpdateMetadataDoes
         DEF AdminStep, Quits, Stepped, Resumed, ListSteps
    <3> QED
      BY <1>4, <2>4, <3>1
  <2> QED
    BY <2>5, <2>6
<1> QED
  BY <1>5, <1>6, <1>7, <1>8, <1>9, <1>10

LEMMA RefsStep ==
  ASSUME AdminTypes, AdminTypes', AloneInv, RefsInv, [AdminNext]_adminVars
  PROVE  RefsInv'
<1> SUFFICES ASSUME ~concurrent', failures' = 0
             PROVE  RefsInv'
  BY DEF RefsInv
<1>1. ~concurrent /\ failures = 0
  BY CountsTypedStep DEF AdminTypes, CountsTyped
<1>2. ASSUME NEW p \in Admins, Ask(p)
      PROVE  RefsInv'
  <2>1. Active = {} /\ Active' = {p} /\ UNCHANGED <<fileRefs, tables>>
    BY <1>2, AskJoins
  <2>2. request'[p].step # "moveRefs"
    BY <1>2, AskJoins
  <2> QED
    BY <1>1, <2>1, <2>2 DEF RefsInv, Exists
<1>3. ASSUME NEW p \in Admins, AdminStep(p), ~Ask(p)
      PROVE  RefsInv'
  <2>1. Active = {p}
    BY <1>1, <1>3, StepTurns DEF AloneInv, Working
  <2> QED
    BY <1>1, <1>3, <2>1, RefsAlone
<1>4. CASE UNCHANGED <<fileRefs, tables, request>>
  BY <1>1, <1>4 DEF RefsInv, Exists, RefsWait, Active
<1>5. ASSUME NEW n \in Names, WriteRecords(n)
      PROVE  RefsInv'
  <2>1. \A m \in Names : Exists(m)' = Exists(m)
    BY <1>5, WriteKeeps
  <2>2. Active' = Active /\ UNCHANGED <<fileRefs, request>>
    BY <1>5, WriteDoes DEF Active
  <2>3. \A p \in Active : request[p].target \in Names
    BY Requested DEF Active, AdminTypes, RequestSet
  <2> QED
    BY <1>1, <2>1, <2>2, <2>3 DEF RefsInv, RefsWait, Exists
<1>6. ASSUME NEW n \in Names, ReferToFile(n)
      PROVE  RefsInv'
  <2>1. /\ Exists(n) /\ UNCHANGED <<tables, request>>
        /\ \A m \in Names \ {n} : fileRefs'[m] = fileRefs[m]
    BY <1>6 DEF ReferToFile
  <2>2. Active' = Active
    BY <2>1 DEF Active
  <2> QED
    BY <1>1, <2>1, <2>2 DEF RefsInv, RefsWait, Exists
<1>7. ~AdminCrash
  BY <1>1 DEF AdminCrash, AdminTypes, CountsTyped
<1> QED
  BY <1>2, <1>3, <1>4, <1>5, <1>6, <1>7 DEF AdminNext, adminVars

-----------------------------------------------------------------------------
(* Unique fields *)

UniqueHolds ==
  /\ OwnIndexes
  /\ \A n \in Names : RowIndexed(n) \/ \E p \in Active : Reindexing(request[p], n)
  /\ \A p \in Active : RequestIndexed(request[p])

LEMMA IndexedSame ==
  ASSUME NEW n, \A c \in Columns : indexed'[<<n, c>>] = indexed[<<n, c>>],
         catalog'[n] = catalog[n], RowIndexed(n)
  PROVE  RowIndexed(n)'
BY DEF RowIndexed, Catalogued, UniqueIn

\* What a step of the only request leaves, when it ends and when it goes on.
LEMMA UniqueEnds ==
  ASSUME AdminTypes, NEW p \in Admins, Active = {p}, Becomes(p, NoRequest), OwnIndexes',
         \A n \in Names : RowIndexed(n)'
  PROVE  UniqueHolds'
<1>1. Active' = {}
  BY BecomesActive
<1> QED
  BY <1>1 DEF UniqueHolds

LEMMA UniqueGoesOn ==
  ASSUME AdminTypes, NEW p \in Admins, Active = {p}, NEW x, Turns(p, x), OwnIndexes',
         RequestIndexed(x)', \A n \in Names : RowIndexed(n)' \/ Reindexing(x, n)
  PROVE  UniqueHolds'
<1>1. Active' = {p} /\ request'[p] = x
  BY BecomesActive DEF Turns
<1>2. RequestIndexed(request[p])'
  BY <1>1 DEF RequestIndexed
<1>3. \A n \in Names : RowIndexed(n)' \/ Reindexing(request[p], n)'
  BY <1>1 DEF Reindexing
<1> QED
  BY <1>1, <1>2, <1>3 DEF UniqueHolds

\* A step that changes no index and no row of the catalogue.
LEMMA UniqueSame ==
  ASSUME AdminTypes, NEW p \in Admins, Active = {p}, UniqueHolds, UNCHANGED <<catalog, indexed>>,
         \/ Becomes(p, NoRequest) /\ \A n \in Names : RowIndexed(n)
         \/ \E x : /\ Turns(p, x) /\ RequestIndexed(x)
                   /\ \A n \in Names : RowIndexed(n) \/ Reindexing(x, n)
  PROVE  UniqueHolds'
<1>1. OwnIndexes' /\ (\A n \in Names : RowIndexed(n) => RowIndexed(n)')
  BY IndexedSame DEF UniqueHolds, OwnIndexes
<1>2. CASE Becomes(p, NoRequest) /\ \A n \in Names : RowIndexed(n)
  BY <1>1, <1>2, UniqueEnds
<1>3. ASSUME NEW x, Turns(p, x), RequestIndexed(x),
             \A n \in Names : RowIndexed(n) \/ Reindexing(x, n)
      PROVE  UniqueHolds'
  <2>1. RequestIndexed(x)'
    BY <1>3 DEF RequestIndexed
  <2> QED
    BY <1>1, <1>3, <2>1, UniqueGoesOn
<1> QED
  BY <1>2, <1>3

LEMMA UniqueFirst ==
  ASSUME AdminTypes, NEW p \in Admins, Active = {p}, UniqueHolds, Undisturbed', ~renamed',
         Load(p) \/ CheckName(p) \/ RenameTable(p) \/ MoveRefs(p) \/ Inspect(p)
           \/ CreateTable(p) \/ AddColumn(p) \/ DropColumn(p)
  PROVE  UniqueHolds'
<1>1. /\ \A n \in Names : RowIndexed(n) \/ Reindexing(request[p], n)
      /\ RequestIndexed(request[p])
  BY DEF UniqueHolds
<1>2. ~MoveRefs(p)
  BY <1>1, MoveRefsDoes DEF RequestIndexed, At, FirstSteps
<1>3. ~RenameTable(p)
  BY UpdatesStay, RenameDoes
<1>4. CASE Load(p)
  <2>1. /\ Working(p) /\ request[p].step = "load" /\ UNCHANGED <<catalog, indexed>>
        /\ request[p].kind # "update" => request[p].target = request[p].name
    BY <1>4, LoadDoes DEF Load, At, Working, Plausible
  <2>2. \A n \in Names : RowIndexed(n)
    BY <1>1, <2>1 DEF Reindexing, FirstSteps
  <2>3. ASSUME NEW s, Stepped(p, s), s \in {"dropTable", "checkName", "inspect"},
               s # "checkName" => request[p].name = request[p].target
        PROVE  \E x : Turns(p, x) /\ RequestIndexed(x)
    <3>1. PICK x : Turns(p, x) /\ x.step = s
      BY <2>3 DEF Stepped
    <3>2. RequestIndexed(x)
      BY <2>3, <3>1 DEF RequestIndexed, Turns, Same, FirstSteps, ListSteps
    <3> QED
      BY <3>1, <3>2
  <2>4. Becomes(p, NoRequest) \/ \E x : Turns(p, x) /\ RequestIndexed(x)
    BY <1>4, <2>1, <2>3, LoadDoes
  <2> QED
    BY <2>1, <2>2, <2>4, UniqueSame
<1>5. CASE CheckName(p)
  <2>1. Working(p) /\ request[p].step = "checkName" /\ UNCHANGED <<catalog, indexed>>
        /\ request[p].kind = "update"
    BY <1>5, CheckNameDoes DEF CheckName, At, Working, Plausible
  <2>2. \A n \in Names : RowIndexed(n)
    BY <1>1, <2>1 DEF Reindexing, FirstSteps
  <2>3. ASSUME NEW x, Turns(p, x), x.step = "rename"
        PROVE  RequestIndexed(x)
    BY <2>3 DEF RequestIndexed, FirstSteps, ListSteps
  <2>4. Becomes(p, NoRequest) \/ \E x : Turns(p, x) /\ RequestIndexed(x)
    BY <1>5, <2>3, CheckNameDoes DEF Stepped
  <2> QED
    BY <2>1, <2>2, <2>4, UniqueSame
\* The lists of a request are what it has still to index.
<1>6. ASSUME Working(p), request[p].step \notin FirstSteps, request[p].kind # "delete",
             UNCHANGED <<catalog, indexed>>,
             NEW x, Turns(p, x), x.step \notin FirstSteps,
             x.step \in ListSteps \cup {"metadata"} =>
               \A c \in Indexed(x) : indexed[<<x.target, c>>] = x.target
      PROVE  UniqueHolds'
  <2>1. x.kind = request[p].kind /\ x.name = request[p].name /\ x.target = request[p].target
    BY <1>6 DEF Turns, Same
  <2>2. RequestIndexed(x)
    BY <1>1, <1>6, <2>1 DEF RequestIndexed
  <2>3. \A n \in Names : Reindexing(request[p], n) => Reindexing(x, n)
    BY <1>6, <2>1 DEF Reindexing
  <2> QED
    BY <1>1, <1>6, <2>2, <2>3, UniqueSame
<1>7. ASSUME NEW x, NEW r, Lists(x, r), UniqueIn(x.def) \subseteq r.index,
             x.step = "metadata" => x.index = {}
      PROVE  Indexed(x) = {}
  BY <1>7 DEF Lists, Indexed
<1>8. CASE Inspect(p)
  <2>1. /\ Working(p) /\ request[p].step \notin FirstSteps /\ request[p].kind # "delete"
        /\ UNCHANGED <<catalog, indexed>>
    BY <1>8, InspectDoes DEF Inspect, At, FirstSteps
  <2>2. ASSUME NEW x, Turns(p, x), x.step \in {"createTable", "rebuild"}
        PROVE  UniqueHolds'
    BY <1>6, <2>1, <2>2 DEF FirstSteps, ListSteps
  <2>3. ASSUME NEW r, Resumed(p, r), r.index = FieldsIn(request[p].def)
        PROVE  UniqueHolds'
    <3>1. PICK x : /\ Turns(p, x) /\ Lists(x, r) /\ x.step \in ListSteps \cup {"metadata"}
                   /\ x.step = "metadata" => x.index = {}
      BY <2>3 DEF Resumed
    <3>2. UniqueIn(x.def) \subseteq r.index
      BY <2>3, <3>1 DEF Turns, Same, UniqueIn, FieldsIn
    <3>3. Indexed(x) = {}
      BY <1>7, <3>1, <3>2
    <3> QED
      BY <1>6, <2>1, <3>1, <3>3 DEF FirstSteps, ListSteps
  <2> QED
    BY <1>8, <2>2, <2>3, InspectDoes DEF Stepped
<1>9. CASE CreateTable(p)
  <2>1. /\ Working(p) /\ request[p].step \notin FirstSteps /\ request[p].kind # "delete"
        /\ UNCHANGED <<catalog, indexed>>
    BY <1>9, CreateTableDoes DEF CreateTable, At, FirstSteps
  <2>2. PICK r : Resumed(p, r) /\ r.index = UniqueIn(request[p].def)
    BY <1>9, CreateTableDoes
  <2>3. PICK x : /\ Turns(p, x) /\ Lists(x, r) /\ x.step \in ListSteps \cup {"metadata"}
                 /\ x.step = "metadata" => x.index = {}
    BY <2>2 DEF Resumed
  <2>4. UniqueIn(x.def) \subseteq r.index
    BY <2>2, <2>3 DEF Turns, Same
  <2>5. Indexed(x) = {}
    BY <1>7, <2>3, <2>4
  <2> QED
    BY <1>6, <2>1, <2>3, <2>5 DEF FirstSteps, ListSteps
<1>10. CASE AddColumn(p) \/ DropColumn(p)
  <2>1. /\ Working(p) /\ request[p].step \in {"add", "drop"} /\ request[p].kind = "update"
        /\ UNCHANGED <<catalog, indexed>> /\ request[p].step \notin FirstSteps
    BY <1>10, AddDoes, DropDoes DEF AddColumn, DropColumn, At, FirstSteps
  <2>2. CASE Stepped(p, "rebuild")
    BY <1>6, <2>1, <2>2 DEF Stepped, FirstSteps, ListSteps
  <2>3. ASSUME NEW r, Resumed(p, r), r.index = request[p].index
        PROVE  UniqueHolds'
    <3>1. PICK x : /\ Turns(p, x) /\ Lists(x, r) /\ x.step \in ListSteps \cup {"metadata"}
                   /\ x.step = "metadata" => x.index = {}
      BY <2>3 DEF Resumed
    <3>2. Indexed(x) = Indexed(request[p]) /\ x.target = request[p].target
      BY <2>1, <2>3, <3>1 DEF Lists, Indexed, Turns, Same
    <3>3. \A c \in Indexed(x) : indexed[<<x.target, c>>] = x.target
      BY <1>1, <2>1, <3>2 DEF RequestIndexed, ListSteps
    <3> QED
      BY <1>6, <2>1, <3>1, <3>3 DEF FirstSteps, ListSteps
  <2> QED
    BY <1>10, <2>1, <2>2, <2>3, UpdatesStay, AddDoes, DropDoes
<1> QED
  BY <1>2, <1>3, <1>4, <1>5, <1>8, <1>9, <1>10

LEMMA UniqueIndexes ==
  ASSUME AdminTypes, NEW p \in Admins, Active = {p}, UniqueHolds, Undisturbed',
         Rebuild(p) \/ SyncIndex(p) \/ DropTable(p)
  PROVE  UniqueHolds'
<1> USE DEF AdminTypes, TablesTyped
<1>1. /\ \A n \in Names : RowIndexed(n) \/ Reindexing(request[p], n)
      /\ RequestIndexed(request[p])
  BY DEF UniqueHolds
<1>2. /\ Working(p) /\ UNCHANGED catalog /\ request[p].target \in Names
      /\ request[p].step \in {"rebuild", "index", "dropTable"}
      /\ request[p].name = request[p].target
      /\ request[p].index \subseteq Columns /\ UniqueIn(request[p].def) \subseteq Columns
  BY <1>1, RebuildDoes, SyncIndexDoes, DropTableDoes
     DEF Rebuild, SyncIndex, DropTable, At, Working, RequestSet, RequestIndexed, FirstSteps,
         UniqueIn
<1> PICK t \in Names : t = request[p].target
  BY <1>2
<1>3. \A n \in Names : \A c \in Columns : indexed[<<n, c>>] \in {n, NoName}
  BY DEF UniqueHolds, OwnIndexes
\* The indexes of t change, p's request goes on.
<1>4. ASSUME \A n \in Names \ {t} : \A c \in Columns : indexed'[<<n, c>>] = indexed[<<n, c>>],
             \A c \in Columns : indexed'[<<t, c>>] \in {t, NoName},
             NEW x, Turns(p, x), x.step \notin FirstSteps,
             x.kind # "delete" /\ x.step \in ListSteps \cup {"metadata"} =>
               \A c \in Indexed(x) : indexed'[<<t, c>>] = t,
             RowIndexed(t)' \/ Reindexing(x, t)
      PROVE  UniqueHolds'
  <2>1. OwnIndexes'
    BY <1>3, <1>4 DEF OwnIndexes
  <2>2. x.name = t /\ x.target = t /\ x.kind = request[p].kind
    BY <1>2, <1>4 DEF Turns, Same
  <2>3. RequestIndexed(x)'
    BY <1>4, <2>2 DEF RequestIndexed
  <2>4. ASSUME NEW n \in Names \ {t}
        PROVE  RowIndexed(n)'
    <3>1. RowIndexed(n)
      BY <1>1, <1>2, <2>4 DEF Reindexing
    <3> QED
      BY <1>2, <1>4, <3>1, IndexedSame
  <2> QED
    BY <1>4, <2>1, <2>3, <2>4, UniqueGoesOn
<1>5. CASE Rebuild(p)
  <2>1. /\ request[p].kind = "update" /\ Stepped(p, "metadata")
        /\ indexed' = [i \in Names \X Columns |->
                         IF i \in {t} \X ToIndex(p) THEN t
                         ELSE IF indexed[i] = t THEN NoName ELSE indexed[i]]
    BY <1>5, UpdatesStay, RebuildDoes
  <2>2. ASSUME NEW n \in Names, NEW c \in Columns
        PROVE  indexed'[<<n, c>>] = IF n = t /\ c \in ToIndex(p) THEN t
                                    ELSE IF indexed[<<n, c>>] = t THEN NoName
                                    ELSE indexed[<<n, c>>]
    BY <2>1
  <2>3. ToIndex(p) = UniqueIn(request[p].def)
    BY <1>2, <1>3 DEF ToIndex, TakenAfterDrop
  <2>4. PICK x : Turns(p, x) /\ x.step = "metadata"
    BY <2>1 DEF Stepped
  <2>5. x.kind = "update" /\ x.name = t /\ x.def = request[p].def
    BY <1>2, <2>1, <2>4 DEF Turns, Same
  <2>6. \A c \in Indexed(x) : indexed'[<<t, c>>] = t
    BY <1>2, <2>2, <2>3, <2>4, <2>5 DEF Indexed
  <2>7. Reindexing(x, t)
    BY <2>4, <2>5 DEF Reindexing, FirstSteps
  <2>8. \A n \in Names \ {t} : \A c \in Columns : indexed'[<<n, c>>] = indexed[<<n, c>>]
    <3> SUFFICES ASSUME NEW n \in Names \ {t}, NEW c \in Columns
                 PROVE  indexed'[<<n, c>>] = indexed[<<n, c>>]
      OBVIOUS
    <3>1. n # t /\ indexed[<<n, c>>] # t
      BY <1>3, MoulAdminAssumption
    <3> QED
      BY <2>2, <3>1
  <2>9. \A c \in Columns : indexed'[<<t, c>>] \in {t, NoName}
    BY <1>3, <2>2
  <2> QED
    BY <1>4, <2>4, <2>6, <2>7, <2>8, <2>9 DEF FirstSteps
<1>6. CASE DropTable(p)
  <2>1. /\ request[p].kind = "delete" /\ Stepped(p, "metadata")
        /\ indexed' = [i \in Names \X Columns |-> IF indexed[i] = t THEN NoName ELSE indexed[i]]
    BY <1>2, <1>6, DropTableDoes
  <2>2. ASSUME NEW n \in Names, NEW c \in Columns
        PROVE  indexed'[<<n, c>>] = IF indexed[<<n, c>>] = t THEN NoName ELSE indexed[<<n, c>>]
    BY <2>1
  <2>3. PICK x : Turns(p, x) /\ x.step = "metadata"
    BY <2>1 DEF Stepped
  <2>4. x.kind = "delete" /\ x.name = t
    BY <1>2, <2>1, <2>3 DEF Turns, Same
  <2>5. Reindexing(x, t)
    BY <2>3, <2>4 DEF Reindexing
  <2>6. \A n \in Names \ {t} : \A c \in Columns : indexed'[<<n, c>>] = indexed[<<n, c>>]
    <3> SUFFICES ASSUME NEW n \in Names \ {t}, NEW c \in Columns
                 PROVE  indexed'[<<n, c>>] = indexed[<<n, c>>]
      OBVIOUS
    <3>1. n # t /\ indexed[<<n, c>>] # t
      BY <1>3, MoulAdminAssumption
    <3> QED
      BY <2>2, <3>1
  <2>7. \A c \in Columns : indexed'[<<t, c>>] \in {t, NoName}
    BY <1>3, <2>2
  <2> QED
    BY <1>4, <2>3, <2>4, <2>5, <2>6, <2>7 DEF FirstSteps
<1>7. CASE SyncIndex(p)
  <2>1. request[p].kind \in {"create", "update"} /\ request[p].step = "index"
    BY <1>7, SyncIndexDoes DEF At
  <2>2. request[p].kind = "create" => request[p].index \subseteq UniqueIn(request[p].def)
    BY <1>2 DEF Working, Plausible
  <2>3. \A c \in UniqueIn(request[p].def) \ request[p].index : indexed[<<t, c>>] = t
    BY <1>1, <2>1 DEF RequestIndexed, Indexed, ListSteps
  <2>4. CASE Quits(p) /\ UNCHANGED indexed
    <3>1. request[p].kind = "create"
      BY <2>1, <2>4, UpdatesStay
    <3>2. \A n \in Names : RowIndexed(n)
      BY <1>1, <3>1 DEF Reindexing
    <3> QED
      BY <1>2, <2>4, <3>2, UniqueSame DEF Quits
  <2>5. CASE ~(Quits(p) /\ UNCHANGED indexed)
    <3>1. PICK c \in request[p].index :
            /\ \E r : Resumed(p, r) /\ r.index = request[p].index \ {c}
            /\ \/ /\ c \notin UniqueIn(request[p].def)
                  /\ indexed' = [indexed EXCEPT ![<<t, c>>] = NoName]
               \/ /\ c \in UniqueIn(request[p].def) /\ indexed[<<t, c>>] # NoName
                  /\ UNCHANGED indexed
               \/ /\ c \in UniqueIn(request[p].def)
                  /\ indexed' = [indexed EXCEPT ![<<t, c>>] = t]
      BY <1>7, <2>5, SyncIndexDoes
    <3>2. PICK x : /\ Turns(p, x) /\ x.step \in ListSteps \cup {"metadata"}
                   /\ x.step = "metadata" => x.index = {}
                   /\ x.index = request[p].index \ {c}
      BY <3>1 DEF Resumed, Lists
    <3>3. x.kind = request[p].kind /\ x.name = t /\ x.def = request[p].def
      BY <1>2, <3>2 DEF Turns, Same
    <3>4. c \in Columns
      BY <1>2
    <3>5. \A d \in Columns : indexed'[<<t, d>>] =
            IF d # c THEN indexed[<<t, d>>]
            ELSE IF c \in UniqueIn(request[p].def) THEN t ELSE NoName
      <4>1. CASE UNCHANGED indexed
        BY <1>3, <3>1, <3>4, <4>1
      <4>2. CASE \E y \in {t, NoName} :
                   /\ indexed' = [indexed EXCEPT ![<<t, c>>] = y]
                   /\ y = IF c \in UniqueIn(request[p].def) THEN t ELSE NoName
        BY <3>4, <4>2
      <4> QED
        BY <3>1, <4>1, <4>2
    <3>6. \A n \in Names \ {t} : \A d \in Columns : indexed'[<<n, d>>] = indexed[<<n, d>>]
      BY <3>1
    <3>7. \A d \in Columns : indexed'[<<t, d>>] \in {t, NoName}
      BY <1>3, <3>5
    <3>8. \A d \in Indexed(x) : indexed'[<<t, d>>] = t
      <4>1. Indexed(x) = UniqueIn(request[p].def) \ (request[p].index \ {c})
        BY <3>2, <3>3 DEF Indexed
      <4> QED
        BY <1>2, <2>3, <3>5, <4>1
    <3>9. RowIndexed(t)' \/ Reindexing(x, t)
      <4>1. CASE request[p].kind = "update"
        BY <3>2, <3>3, <4>1 DEF Reindexing, FirstSteps, ListSteps
      <4>2. CASE request[p].kind = "create"
        <5>1. RowIndexed(t) /\ c \in UniqueIn(request[p].def)
          BY <1>1, <2>2, <4>2 DEF Reindexing
        <5>2. \A d \in Columns : indexed[<<t, d>>] = t => indexed'[<<t, d>>] = t
          BY <3>5, <5>1
        <5> QED
          BY <1>2, <5>1, <5>2 DEF RowIndexed, Catalogued, UniqueIn
      <4> QED
        BY <2>1, <4>1, <4>2
    <3> QED
      BY <1>4, <3>2, <3>6, <3>7, <3>8, <3>9 DEF FirstSteps, ListSteps
  <2> QED
    BY <2>4, <2>5
<1> QED
  BY <1>5, <1>6, <1>7

LEMMA UniqueCatalog ==
  ASSUME AdminTypes, NEW p \in Admins, Active = {p}, UniqueHolds, Undisturbed',
         SaveMetadata(p) \/ UpdateMetadata(p) \/ DeleteMetadata(p) \/ DropRefs(p)
  PROVE  UniqueHolds'
<1> USE DEF AdminTypes, TablesTyped
<1>1. /\ \A n \in Names : RowIndexed(n) \/ Reindexing(request[p], n)
      /\ RequestIndexed(request[p])
  BY DEF UniqueHolds
<1>2. /\ Working(p) /\ UNCHANGED indexed /\ request[p].target \in Names
      /\ request[p].step \in {"metadata", "dropRefs"}
      /\ request[p].name = request[p].target
  BY <1>1, SaveDoes, UpdateMetadataDoes, DeleteMetadataDoes, DropRefsDoes
     DEF SaveMetadata, UpdateMetadata, DeleteMetadata, DropRefs, At, Working, RequestSet,
         RequestIndexed, FirstSteps
<1> PICK t \in Names : t = request[p].target
  BY <1>2
<1>3. OwnIndexes'
  BY <1>2 DEF UniqueHolds, OwnIndexes
<1>4. ASSUME NEW n \in Names \ {t}, catalog'[n] = catalog[n]
      PROVE  RowIndexed(n)'
  <2>1. RowIndexed(n)
    BY <1>1, <1>2, <1>4 DEF Reindexing
  <2> QED
    BY <1>2, <1>4, <2>1, IndexedSame
\* A row written, of the schema that p has indexed.
<1>5. ASSUME request[p].kind \in {"create", "update"}, request[p].step = "metadata",
             catalog'[t] = request[p].def
      PROVE  RowIndexed(t)'
  <2>1. \A c \in UniqueIn(request[p].def) : indexed[<<t, c>>] = t
    BY <1>1, <1>5 DEF RequestIndexed, Indexed
  <2> QED
    BY <1>2, <1>5, <2>1 DEF RowIndexed
<1>6. CASE SaveMetadata(p)
  <2>1. request[p].kind = "create" /\ request[p].step = "metadata" /\ Becomes(p, NoRequest)
    BY <1>6, SaveDoes DEF At, Quits
  <2>2. CASE UNCHANGED catalog
    <3>1. \A n \in Names : RowIndexed(n)
      BY <1>1, <2>1 DEF Reindexing
    <3> QED
      BY <1>2, <2>1, <2>2, <3>1, UniqueSame
  <2>3. CASE catalog' = [catalog EXCEPT ![t] = request[p].def]
    <3>1. catalog'[t] = request[p].def /\ \A n \in Names \ {t} : catalog'[n] = catalog[n]
      BY <2>3
    <3>2. \A n \in Names : RowIndexed(n)'
      BY <1>4, <1>5, <2>1, <3>1
    <3> QED
      BY <1>3, <2>1, <3>2, UniqueEnds
  <2> QED
    BY <1>2, <1>6, <2>2, <2>3, SaveDoes
<1>7. CASE UpdateMetadata(p)
  <2>1. /\ request[p].kind = "update" /\ request[p].step = "metadata" /\ Becomes(p, NoRequest)
        /\ catalog' = IF ~Catalogued(t) THEN catalog
                      ELSE [n \in Names |-> IF n = t THEN request[p].def
                                            ELSE IF n = t THEN NoEntry ELSE catalog[n]]
    BY <1>2, <1>7, UpdatesStay, UpdateMetadataDoes DEF At
  <2>2. \A n \in Names \ {t} : catalog'[n] = catalog[n]
    BY <2>1
  <2>3. RowIndexed(t)'
    <3>1. CASE Catalogued(t)
      <4>1. catalog'[t] = request[p].def
        BY <2>1, <3>1
      <4> QED
        BY <1>5, <2>1, <4>1
    <3>2. CASE ~Catalogued(t)
      BY <2>1, <3>2 DEF RowIndexed, Catalogued
    <3> QED
      BY <3>1, <3>2
  <2>4. \A n \in Names : RowIndexed(n)'
    BY <1>4, <2>2, <2>3
  <2> QED
    BY <1>3, <2>1, <2>4, UniqueEnds
<1>8. CASE DeleteMetadata(p)
  <2>1. Stepped(p, "dropRefs") /\ catalog' = [catalog EXCEPT ![t] = NoEntry]
    BY <1>2, <1>8, DeleteMetadataDoes DEF DeleteMetadata
  <2>2. PICK x : Turns(p, x) /\ x.step = "dropRefs"
    BY <2>1 DEF Stepped
  <2>3. RequestIndexed(x)'
    BY <1>2, <2>2 DEF RequestIndexed, Turns, Same, ListSteps
  <2>4. RowIndexed(t)' /\ \A n \in Names \ {t} : catalog'[n] = catalog[n]
    BY <2>1 DEF RowIndexed, Catalogued
  <2>5. \A n \in Names : RowIndexed(n)'
    BY <1>4, <2>4
  <2> QED
    BY <1>3, <2>2, <2>3, <2>5, UniqueGoesOn
<1>9. CASE DropRefs(p)
  <2>1. request[p].kind = "delete" /\ request[p].step = "dropRefs" /\ Becomes(p, NoRequest)
        /\ UNCHANGED catalog
    BY <1>9, DropRefsDoes DEF DropRefs, At
  <2>2. \A n \in Names : RowIndexed(n)
    BY <1>1, <2>1 DEF Reindexing
  <2> QED
    BY <1>2, <2>1, <2>2, UniqueSame
<1> QED
  BY <1>6, <1>7, <1>8, <1>9

LEMMA UniqueStep ==
  ASSUME AdminTypes, AdminTypes', AloneInv, UniqueInv, [AdminNext]_adminVars
  PROVE  UniqueInv'
<1> SUFFICES ASSUME Undisturbed', ~renamed'
             PROVE  UniqueHolds'
  BY DEF UniqueInv, UniqueHolds
<1>1. Undisturbed /\ ~renamed
  BY CountsTypedStep DEF Undisturbed, AdminTypes, CountsTyped
<1>2. UniqueHolds
  BY <1>1 DEF UniqueInv, UniqueHolds
<1>3. ASSUME NEW p \in Admins, Ask(p)
      PROVE  UniqueHolds'
  <2>1. Active = {} /\ Active' = {p} /\ UNCHANGED <<catalog, indexed>>
    BY <1>3, AskJoins DEF Undisturbed
  <2>2. PICK x \in RequestSet :
          /\ request'[p] = x /\ Plausible(x) /\ x.step \in {"createTable", "load"}
          /\ x.kind = "create" <=> x.step = "createTable"
    BY <1>3, AskJoins
  <2>3. \A n \in Names : RowIndexed(n)'
    BY <1>2, <2>1, IndexedSame DEF UniqueHolds
  <2>4. OwnIndexes'
    BY <1>2, <2>1 DEF UniqueHolds, OwnIndexes
  <2>5. RequestIndexed(request[p])'
    BY <2>2 DEF RequestIndexed, Plausible, FirstSteps, ListSteps
  <2> QED
    BY <2>1, <2>3, <2>4, <2>5 DEF UniqueHolds
<1>4. ASSUME NEW p \in Admins, AdminStep(p), ~Ask(p)
      PROVE  UniqueHolds'
  <2>1. Active = {p}
    BY <1>1, <1>4, StepTurns DEF AloneInv, Undisturbed, Working
  <2>2. ~AdminStatementFails(p)
    BY <1>1 DEF AdminStatementFails, Undisturbed, AdminTypes, CountsTyped
  <2> QED
    BY <1>2, <1>4, <2>1, <2>2, UniqueFirst, UniqueIndexes, UniqueCatalog DEF AdminStep
<1>5. ASSUME UNCHANGED <<catalog, indexed, request>>
      PROVE  UniqueHolds'
  <2>1. Active' = Active
    BY <1>5 DEF Active
  <2>2. \A n \in Names : RowIndexed(n) => RowIndexed(n)'
    BY <1>5, IndexedSame
  <2>3. OwnIndexes'
    BY <1>2, <1>5 DEF UniqueHolds, OwnIndexes
  <2>4. \A p \in Active : RequestIndexed(request[p])'
    BY <1>2, <1>5 DEF UniqueHolds, RequestIndexed
  <2>5. \A p \in Active, n \in Names : Reindexing(request[p], n) => Reindexing(request[p], n)'
    BY <1>5 DEF Reindexing
  <2> QED
    BY <1>2, <2>1, <2>2, <2>3, <2>4, <2>5 DEF UniqueHolds
<1>6. ~AdminCrash
  BY <1>1 DEF AdminCrash, Undisturbed, AdminTypes, CountsTyped
<1> QED
  BY <1>3, <1>4, <1>5, <1>6, WriteDoes DEF AdminNext, adminVars, ReferToFile

-----------------------------------------------------------------------------
(* The theorems *)

LEMMA AdminInvInit ==
  ASSUME AdminInit
  PROVE  AdminInv
<1>1. Active = {} /\ AdminTypes /\ IndexesHold
  BY AdminTypesInit DEF AdminInit, Active
<1>2. AloneInv
  BY <1>1 DEF AloneInv
<1>3. AgreeInv
  BY <1>1 DEF AdminInit, AgreeInv, Agrees, Catalogued, Exists
<1>4. RefsInv
  BY <1>1 DEF AdminInit, RefsInv
<1>5. UniqueInv
  <2>1. OwnIndexes
    BY DEF AdminInit, OwnIndexes
  <2>2. \A n \in Names : RowIndexed(n)
    BY DEF AdminInit, RowIndexed, Catalogued
  <2> QED
    BY <1>1, <2>1, <2>2 DEF UniqueInv
<1> QED
  BY <1>1, <1>2, <1>3, <1>4, <1>5 DEF AdminInv

LEMMA AdminInvStep ==
  ASSUME AdminInv, [AdminNext]_adminVars
  PROVE  AdminInv'
<1>1. AdminTypes'
  BY AdminTypesStep DEF AdminInv
<1> QED
  BY <1>1, IndexesHoldStep, AloneStep, AgreeStep, RefsStep, UniqueStep DEF AdminInv

\* The inductive invariant: what a single request has left behind at each of its
\* steps of the table, the row, the file references and the indexes.
THEOREM AdminInvHolds == AdminSpec => []AdminInv
<1>1. AdminInv /\ [AdminNext]_adminVars => AdminInv'
  BY AdminInvStep
<1> QED
  BY AdminInvInit, <1>1, PTL DEF AdminSpec

\* The catalogue, the tables and the requests are well formed, and a unique index
\* is on a table that exists and has no value twice in the column.
THEOREM AdminTyped == AdminSpec => []AdminTypeOK
<1>1. AdminInv => AdminTypeOK
  BY AdminTypesOK DEF AdminInv
<1> QED
  BY <1>1, AdminInvHolds, PTL

\* Between requests that came one after the other and were not given up, each
\* collection has a table with the columns of its schema and each table is a
\* collection's; references to files belong to collections that have a table,
\* also after a rename that was refused half way.
THEOREM CatalogueKept == AdminSpec => []CatalogueAgrees
<1>1. ASSUME AdminInv
      PROVE  CatalogueAgrees
  <2> SUFFICES ASSUME Active = {}
               PROVE  /\ Undisturbed => \A n \in Names : Agrees(n)
                      /\ ~concurrent /\ failures = 0 =>
                           \A n \in Names : fileRefs[n] => Exists(n)
    BY DEF CatalogueAgrees, Agrees
  <2> QED
    BY <1>1 DEF AdminInv, AgreeInv, RefsInv
<1> QED
  BY <1>1, AdminInvHolds, PTL

\* Between requests that came one after the other, a unique field never has a value
\* twice, as long as no collection has been renamed and no update has been given up:
\* one that was refused, for duplicates in another field say, may have dropped the
\* index already (db.go:957-975).
THEOREM UniqueKept == AdminSpec => []UniqueUntilRenamed
<1>1. ASSUME AdminInv
      PROVE  UniqueUntilRenamed
  <2> SUFFICES ASSUME Undisturbed, ~renamed, Active = {}, NEW n \in Names, Catalogued(n),
                      NEW c \in UniqueIn(catalog[n])
               PROVE  c \notin tables[n].dups
    BY DEF UniqueUntilRenamed
  <2>1. c \in Columns /\ indexed[<<n, c>>] = n
    BY <1>1 DEF AdminInv, UniqueInv, RowIndexed, UniqueIn
  <2> QED
    BY <1>1, <2>1, MoulAdminAssumption DEF AdminInv, IndexesHold
<1> QED
  BY <1>1, AdminInvHolds, PTL

\* Whatever failed, crashed or raced before, an update with nobody beside it finds its
\* table with the columns of its schema when it gets to write the catalogue, and none of
\* its steps empties a field that the schema keeps, or alters the values of one whose
\* type stays (db.go:716-725, db.go:727, db.go:849).
THEOREM UpdatesRepair == AdminSpec => UpdateRepairs
<1> DEFINE RepairStep ==
      \A p \in Admins : LET r == request[p] IN
       r.kind = "update" /\ r.alone /\ request'[p] # r =>
         /\ At(p, "metadata") => Fits(r.target, r.def)
         /\ \A n \in {m \in {r.name, r.target} : Exists(m)} :
              \A c \in tables[n].filled \cap Kept(r) :
                \E m \in {r.name, r.target} :
                  /\ Held(m, c)
                  /\ c \in tables'[m].altered => c \in tables[n].altered \cup Converted(r)
<1>1. AdminInv /\ AdminNext => RepairStep
  BY RepairsStep DEF AdminInv, Repairs, ValuesStay
<1>2. AdminInv /\ [AdminNext]_adminVars => [RepairStep]_adminVars
  BY <1>1
<1> QED
  BY <1>2, AdminInvHolds, PTL DEF AdminSpec, UpdateRepairs

=============================================================================
