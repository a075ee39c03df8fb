----------------------------- MODULE MoulAdmin -----------------------------
(***************************************************************************)
(* The administration of collections: create, update (with rename) and     *)
(* delete, as internal/handlers/moul.go runs them over the physical tables *)
(* and the catalogue _moul with the statements of internal/db/db.go.       *)
(*                                                                         *)
(* One statement, or the transaction of rebuildMoulTable, is one step.  Of *)
(* a table the model keeps which user columns it has, their SQLite types,  *)
(* which hold values, which hold some value twice, and which hold one that *)
(* a CAST has altered.  System columns, rules and templates are left out,  *)
(* and so is the companion column of a searchable cloak field, which is    *)
(* treated like a column of its own.                                       *)
(***************************************************************************)
EXTENDS Integers, FiniteSets

CONSTANTS
  Admins,      \* admin requests that may be under way at once
  Names,       \* names of collections
  Columns,     \* names of user fields
  Definitions, \* the schemas that requests give: a field's kind, or "none"
  NoName,
  MaxAsked,    \* bound on admin requests
  MaxFailures  \* bound on failed statements and crashes

\* A text field, one that is unique, a number, or no field of that name.
FieldKinds == {"none", "text", "unique", "number"}

ASSUME MoulAdminAssumption ==
  /\ NoName \notin Names
  /\ Columns # {}
  /\ Definitions \subseteq [Columns -> FieldKinds]
  /\ MaxAsked \in Nat
  /\ MaxFailures \in Nat

VARIABLES
  catalog,    \* the rows of _moul: the schema of each name, or NoEntry
  tables,     \* the physical tables, or NoTable
  indexed,    \* idx_<name>_<column>_unique: the table it is on, or NoName
  fileRefs,   \* whether _file_refs has rows of the name
  request,    \* what each admin request is doing
  asked,      \* admin requests so far
  failures,   \* failed statements and crashes so far
  concurrent, \* history: two of the requests were under way at once
  halfDone,   \* history: an update was given up after it had begun to write
  renamed     \* history: a table was renamed

adminVars == <<catalog, tables, indexed, fileRefs, request, asked, failures,
               concurrent, halfDone, renamed>>
adminHistory == <<concurrent, halfDone, renamed>>

NoEntry == <<>>
NoTable == [none |-> TRUE]

\* fieldToSQLiteType.
SqlType == [none |-> "none", text |-> "TEXT", unique |-> "TEXT", number |-> "NUMERIC"]

TypesOf(def) == [c \in Columns |-> SqlType[def[c]]]

TableContents ==
  [type: [Columns -> {"none", "TEXT", "NUMERIC"}], filled: SUBSET Columns, dups: SUBSET Columns,
   altered: SUBSET Columns]

Nothing == [c \in Columns |-> "none"]
FieldsIn(def) == {c \in Columns : def[c] # "none"}
UniqueIn(def) == {c \in Columns : def[c] = "unique"}
Exists(n) == tables[n] # NoTable
Catalogued(n) == catalog[n] # NoEntry
Has(t, c) == Exists(t) /\ tables[t].type[c] # "none"
Dups(t) == IF Exists(t) THEN tables[t].dups ELSE {}

\* The table has the columns of the schema, of the right types.
Fits(n, def) == Exists(n) /\ tables[n].type = TypesOf(def)

-----------------------------------------------------------------------------
(* Requests *)

NoRequest == [kind |-> "none", name |-> NoName, target |-> NoName, def |-> Nothing,
              step |-> "none", seen |-> Nothing, add |-> {}, drop |-> {}, index |-> {},
              alone |-> FALSE]

AdminSteps == {"load", "checkName", "rename", "moveRefs", "inspect", "createTable",
               "add", "drop", "index", "rebuild", "metadata", "dropTable", "dropRefs"}

Active == {p \in Admins : request[p] # NoRequest}

Answer(p) == request' = [request EXCEPT ![p] = NoRequest]

\* The request answers an error in the middle.
GiveUp(p) ==
  /\ Answer(p)
  /\ halfDone' = (halfDone \/ request[p].kind = "update")
  /\ UNCHANGED <<concurrent, renamed>>

Proceed(p, step) ==
  /\ request' = [request EXCEPT ![p].step = step]
  /\ UNCHANGED adminHistory

\* A request goes on with the columns and indexes it has still to see to.
Remaining(r) ==
  [r EXCEPT !.step = IF r.add # {} THEN "add"
                     ELSE IF r.drop # {} THEN "drop"
                     ELSE IF r.index # {} THEN "index"
                     ELSE "metadata"]

Resume(p, r) ==
  /\ request' = [request EXCEPT ![p] = Remaining(r)]
  /\ UNCHANGED adminHistory

\* A request with a valid body arrives; the validations before run no statement.
Ask(p) ==
  /\ request[p] = NoRequest
  /\ asked < MaxAsked
  /\ asked' = asked + 1
  /\ concurrent' = (concurrent \/ Active # {})
  /\ \E kind \in {"create", "update", "delete"}, n, t \in Names, def \in Definitions :
       /\ kind # "update" => n = t
       /\ LET r == [NoRequest EXCEPT !.kind = kind, !.name = n, !.target = t, !.def = def,
                      !.step = IF kind = "create" THEN "createTable" ELSE "load",
                      !.alone = (Active = {})]
          IN request' = [q \in Admins |-> IF q = p THEN r
                                          ELSE [request[q] EXCEPT !.alone = FALSE]]
  /\ UNCHANGED <<catalog, tables, indexed, fileRefs, failures, halfDone, renamed>>

At(p, step) == request[p].step = step

\* LoadMoulByName; an unknown collection is answered with 404.
Load(p) ==
  /\ At(p, "load")
  /\ LET r == request[p] IN
     IF ~Catalogued(r.name) THEN Answer(p) /\ UNCHANGED adminHistory
     ELSE Proceed(p, IF r.kind = "delete" THEN "dropTable"
                     ELSE IF r.target # r.name THEN "checkName" ELSE "inspect")
  /\ UNCHANGED <<catalog, tables, indexed, fileRefs, asked, failures>>

\* The new name of a collection must be free; a lookup that fails says it is.
CheckName(p) ==
  /\ At(p, "checkName")
  /\ \/ /\ Catalogued(request[p].target)
        /\ Answer(p)
        /\ UNCHANGED <<adminHistory, failures>>
     \/ /\ IF Catalogued(request[p].target)
           THEN failures < MaxFailures /\ failures' = failures + 1
           ELSE UNCHANGED failures
        /\ Proceed(p, "rename")
  /\ UNCHANGED <<catalog, tables, indexed, fileRefs, asked>>

\* ALTER TABLE RENAME: the indexes go along and keep their names.
RenameTable(p) ==
  /\ At(p, "rename")
  /\ LET n == request[p].name
         t == request[p].target
     IN \/ /\ Exists(n) /\ ~Exists(t)
           /\ tables' = [tables EXCEPT ![n] = NoTable, ![t] = tables[n]]
           /\ indexed' = [i \in Names \X Columns |-> IF indexed[i] = n THEN t ELSE indexed[i]]
           /\ request' = [request EXCEPT ![p].step = "moveRefs"]
           /\ renamed' = TRUE
           /\ UNCHANGED <<concurrent, halfDone>>
        \/ /\ ~Exists(n) \/ Exists(t)
           /\ GiveUp(p)
           /\ UNCHANGED <<tables, indexed>>
  /\ UNCHANGED <<catalog, fileRefs, asked, failures>>

\* Mutant: the file references keep the old name.
LeaveRefs(p) ==
  /\ At(p, "moveRefs")
  /\ Proceed(p, "inspect")
  /\ UNCHANGED <<catalog, tables, indexed, fileRefs, asked, failures>>

\* "File references follow the collection."
MoveRefs(p) ==
  /\ At(p, "moveRefs")
  /\ LET n == request[p].name
         t == request[p].target
     IN fileRefs' = [fileRefs EXCEPT ![n] = FALSE, ![t] = @ \/ fileRefs[n]]
  /\ Proceed(p, "inspect")
  /\ UNCHANGED <<catalog, tables, indexed, asked, failures>>

-----------------------------------------------------------------------------
(* SyncMoulTableColumns *)

Changed(seen, def) ==
  \E c \in FieldsIn(def) : seen[c] # "none" /\ seen[c] # SqlType[def[c]]

\* Mutant: an update of a collection without a table leaves it so.
InspectOnly(p) ==
  /\ At(p, "inspect")
  /\ LET r == request[p]
         seen == IF Exists(r.target) THEN tables[r.target].type ELSE Nothing
     IN IF ~Exists(r.target) THEN Proceed(p, "metadata")
        ELSE IF Changed(seen, r.def) THEN Resume(p, r)
        ELSE Resume(p, [r EXCEPT !.seen = seen,
               !.add = {c \in FieldsIn(r.def) : seen[c] = "none"},
               !.drop = {c \in Columns \ FieldsIn(r.def) : seen[c] # "none"},
               !.index = FieldsIn(r.def)])
  /\ UNCHANGED <<catalog, tables, indexed, fileRefs, asked, failures>>

\* PRAGMA table_info decides between creation, a rebuild, and single changes.
Inspect(p) ==
  /\ At(p, "inspect")
  /\ LET r == request[p]
         seen == IF Exists(r.target) THEN tables[r.target].type ELSE Nothing
         s == [r EXCEPT !.seen = seen]
     IN IF ~Exists(r.target) THEN Proceed(p, "createTable")
        ELSE IF Changed(seen, r.def)
             THEN /\ request' = [request EXCEPT ![p] = [s EXCEPT !.step = "rebuild"]]
                  /\ UNCHANGED adminHistory
        ELSE Resume(p, [s EXCEPT
               !.add = {c \in FieldsIn(r.def) : seen[c] = "none"},
               !.drop = {c \in Columns \ FieldsIn(r.def) : seen[c] # "none"},
               !.index = FieldsIn(r.def)])
  /\ UNCHANGED <<catalog, tables, indexed, fileRefs, asked, failures>>

\* CREATE TABLE IF NOT EXISTS, then the indexes of the unique fields.
CreateTable(p) ==
  /\ At(p, "createTable")
  /\ LET r == request[p]
         fresh == [type |-> TypesOf(r.def), filled |-> {}, dups |-> {}, altered |-> {}]
     IN /\ tables' = [tables EXCEPT ![r.target] = IF Exists(r.target) THEN @ ELSE fresh]
        /\ Resume(p, [r EXCEPT !.index = UniqueIn(r.def)])
  /\ UNCHANGED <<catalog, indexed, fileRefs, asked, failures>>

AddColumn(p) ==
  /\ At(p, "add")
  /\ \E c \in request[p].add :
       LET t == request[p].target
           possible == Exists(t) /\ ~Has(t, c)
       IN
       \/ /\ possible
          /\ tables' = [tables EXCEPT ![t].type[c] = SqlType[request[p].def[c]]]
          /\ Resume(p, [request[p] EXCEPT !.add = @ \ {c}])
       \/ /\ ~possible
          /\ GiveUp(p)
          /\ UNCHANGED tables
  /\ UNCHANGED <<catalog, indexed, fileRefs, asked, failures>>

IndexedOn(t, c) == \E n \in Names : indexed[<<n, c>>] = t

\* DROP COLUMN is refused for a column with an index, and then, as after any
\* other error, the table is rebuilt.
DropColumn(p) ==
  /\ At(p, "drop")
  /\ \E c \in request[p].drop :
       LET t == request[p].target
           possible == Has(t, c) /\ ~IndexedOn(t, c)
       IN \/ /\ possible
             /\ tables' = [tables EXCEPT ![t] = [tables[t] EXCEPT !.type[c] = "none",
                                                   !.filled = @ \ {c}, !.dups = @ \ {c},
                                                   !.altered = @ \ {c}]]
             /\ Resume(p, [request[p] EXCEPT !.drop = @ \ {c}])
             /\ UNCHANGED failures
          \/ /\ IF possible THEN failures < MaxFailures /\ failures' = failures + 1
                ELSE UNCHANGED failures
             /\ Proceed(p, "rebuild")
             /\ UNCHANGED tables
  /\ UNCHANGED <<catalog, indexed, fileRefs, asked>>

\* The index names a rebuild finds taken when the table has been dropped.
TakenAfterDrop(n, c, t) == indexed[<<n, c>>] \notin {NoName, t}

\* Mutant: a rebuild that copies only the columns whose type stays.
CopiedUncast(r) == {c \in FieldsIn(r.def) : r.seen[c] = SqlType[r.def[c]]}

\* What a rebuild copies: the columns seen at first that the schema keeps.
Copied(r) == {c \in FieldsIn(r.def) : r.seen[c] # "none"}

\* Mutant: buildCastExpression casts every column, all to the type of the first.
CastAlways(r, t, c) == TRUE

\* A column whose type changes is copied through a CAST, or by the affinity of the new
\* column when it has changed since the table was inspected.
Cast(r, t, c) == SqlType[r.def[c]] \notin {r.seen[c]} \cap {tables[t].type[c]}

\* The transaction of rebuildMoulTable: a new table, the copy, DROP, RENAME, and
\* the unique indexes whose names are not taken.  A CAST empties no value, but it may
\* alter some ('abc' AS NUMERIC is 0), and make them equal.
Rebuild(p) ==
  /\ At(p, "rebuild")
  /\ LET r == request[p]
         t == r.target
         here == {c \in Copied(r) : Has(t, c)}
         toIndex == {c \in UniqueIn(r.def) : ~TakenAfterDrop(t, c, t)}
     IN \/ /\ Exists(t) /\ here = Copied(r)
           /\ \E changed \in SUBSET {c \in here \cap tables[t].filled : Cast(r, t, c)} :
              \E equal \in SUBSET changed :
                LET dups == (tables[t].dups \cap here) \cup equal
                IN IF dups \cap toIndex = {}
                   THEN /\ tables' = [tables EXCEPT ![t] =
                                        [type |-> TypesOf(r.def),
                                         filled |-> tables[t].filled \cap here, dups |-> dups,
                                         altered |-> (tables[t].altered \cap here) \cup changed]]
                        /\ indexed' = [i \in Names \X Columns |->
                                         IF i \in {t} \X toIndex THEN t
                                         ELSE IF indexed[i] = t THEN NoName ELSE indexed[i]]
                        /\ Proceed(p, "metadata")
                   ELSE GiveUp(p) /\ UNCHANGED <<tables, indexed>>
        \/ /\ ~Exists(t) \/ here # Copied(r)
           /\ GiveUp(p)
           /\ UNCHANGED <<tables, indexed>>
  /\ UNCHANGED <<catalog, fileRefs, asked, failures>>

\* Mutant: only new columns get their unique index.
IndexNewColumns(p) ==
  /\ At(p, "index")
  /\ \E c \in request[p].index :
       LET t == request[p].target IN
       /\ indexed' = [indexed EXCEPT ![<<t, c>>] =
                        IF request[p].seen[c] = "none" /\ request[p].def[c] = "unique"
                        THEN t ELSE @]
       /\ Resume(p, [request[p] EXCEPT !.index = @ \ {c}])
  /\ UNCHANGED <<catalog, tables, fileRefs, asked, failures>>

\* CREATE UNIQUE INDEX IF NOT EXISTS for a unique field, which fails on
\* duplicates ("contain duplicates", 400), and DROP INDEX IF EXISTS for the
\* others.  An index is known by its name, whatever table it is on.
SyncIndex(p) ==
  /\ At(p, "index")
  /\ \E c \in request[p].index :
       LET t == request[p].target
           unique == request[p].def[c] = "unique"
           taken == indexed[<<t, c>>] # NoName
           possible == Exists(t) /\ (taken \/ (Has(t, c) /\ c \notin Dups(t)))
       IN \/ /\ unique => possible
             /\ indexed' = [indexed EXCEPT ![<<t, c>>] =
                              IF ~unique THEN NoName ELSE IF taken THEN @ ELSE t]
             /\ Resume(p, [request[p] EXCEPT !.index = @ \ {c}])
          \/ /\ unique /\ ~possible
             /\ GiveUp(p)
             /\ UNCHANGED indexed
  /\ UNCHANGED <<catalog, tables, fileRefs, asked, failures>>

-----------------------------------------------------------------------------
(* The catalogue *)

\* The name of a row must be new.
SaveMetadata(p) ==
  /\ At(p, "metadata")
  /\ request[p].kind = "create"
  /\ LET n == request[p].name IN
     \/ /\ ~Catalogued(n)
        /\ catalog' = [catalog EXCEPT ![n] = request[p].def]
        /\ Answer(p)
        /\ UNCHANGED adminHistory
     \/ /\ Catalogued(n)
        /\ GiveUp(p)
        /\ UNCHANGED catalog
  /\ UNCHANGED <<tables, indexed, fileRefs, asked, failures>>

\* The row of the old name is rewritten, if there still is one.
UpdateMetadata(p) ==
  /\ At(p, "metadata")
  /\ request[p].kind = "update"
  /\ LET r == request[p]
         conflict == r.target # r.name /\ Catalogued(r.name) /\ Catalogued(r.target)
     IN \/ /\ ~conflict
           /\ catalog' = IF ~Catalogued(r.name) THEN catalog
                         ELSE [n \in Names |-> IF n = r.target THEN r.def
                                               ELSE IF n = r.name THEN NoEntry ELSE catalog[n]]
           /\ Answer(p)
           /\ UNCHANGED adminHistory
        \/ /\ conflict
           /\ GiveUp(p)
           /\ UNCHANGED catalog
  /\ UNCHANGED <<tables, indexed, fileRefs, asked, failures>>

DeleteMetadata(p) ==
  /\ At(p, "metadata")
  /\ request[p].kind = "delete"
  /\ catalog' = [catalog EXCEPT ![request[p].name] = NoEntry]
  /\ Proceed(p, "dropRefs")
  /\ UNCHANGED <<tables, indexed, fileRefs, asked, failures>>

DropTable(p) ==
  /\ At(p, "dropTable")
  /\ LET n == request[p].name IN
     /\ tables' = [tables EXCEPT ![n] = NoTable]
     /\ indexed' = [i \in Names \X Columns |-> IF indexed[i] = n THEN NoName ELSE indexed[i]]
  /\ Proceed(p, "metadata")
  /\ UNCHANGED <<catalog, fileRefs, asked, failures>>

\* Its error is only logged.
DropRefs(p) ==
  /\ At(p, "dropRefs")
  /\ \/ fileRefs' = [fileRefs EXCEPT ![request[p].name] = FALSE] /\ UNCHANGED failures
     \/ failures < MaxFailures /\ failures' = failures + 1 /\ UNCHANGED fileRefs
  /\ Answer(p)
  /\ UNCHANGED <<catalog, tables, indexed, asked, adminHistory>>

-----------------------------------------------------------------------------
(* Faults and records *)

\* A statement fails and the request answers 500.
AdminStatementFails(p) ==
  /\ request[p] # NoRequest
  /\ request[p].step \notin {"checkName", "drop", "dropRefs"}
  /\ failures < MaxFailures
  /\ failures' = failures + 1
  /\ GiveUp(p)
  /\ UNCHANGED <<catalog, tables, indexed, fileRefs, asked>>

AdminCrash ==
  /\ Active # {}
  /\ failures < MaxFailures
  /\ failures' = failures + 1
  /\ request' = [p \in Admins |-> NoRequest]
  /\ halfDone' = TRUE
  /\ UNCHANGED <<catalog, tables, indexed, fileRefs, asked, concurrent, renamed>>

\* Records are written: a column of the schema holds values, none of them twice
\* unless no unique index of the table forbids it.
WriteRecords(n) ==
  /\ Catalogued(n) /\ Exists(n)
  /\ \E c \in FieldsIn(catalog[n]), twice \in BOOLEAN :
       /\ tables[n].type[c] # "none"
       /\ twice => ~IndexedOn(n, c)
       /\ tables' = [tables EXCEPT ![n] = [tables[n] EXCEPT !.filled = @ \cup {c},
                       !.dups = IF twice THEN @ \cup {c} ELSE @ \ {c}]]
       /\ tables' # tables
  /\ UNCHANGED <<catalog, indexed, fileRefs, request, asked, failures, adminHistory>>

\* A record refers to a file (internal/filegate, SetRecordRefs).
ReferToFile(n) ==
  /\ Catalogued(n) /\ Exists(n) /\ ~fileRefs[n]
  /\ fileRefs' = [fileRefs EXCEPT ![n] = TRUE]
  /\ UNCHANGED <<catalog, tables, indexed, request, asked, failures, adminHistory>>

AdminInit ==
  /\ catalog = [n \in Names |-> NoEntry]
  /\ tables = [n \in Names |-> NoTable]
  /\ indexed = [i \in Names \X Columns |-> NoName]
  /\ fileRefs = [n \in Names |-> FALSE]
  /\ request = [p \in Admins |-> NoRequest]
  /\ asked = 0 /\ failures = 0
  /\ concurrent = FALSE /\ halfDone = FALSE /\ renamed = FALSE

AdminStep(p) ==
  \/ Ask(p) \/ Load(p) \/ CheckName(p) \/ RenameTable(p) \/ MoveRefs(p)
  \/ Inspect(p) \/ CreateTable(p) \/ AddColumn(p) \/ DropColumn(p) \/ Rebuild(p)
  \/ SyncIndex(p) \/ SaveMetadata(p) \/ UpdateMetadata(p) \/ DeleteMetadata(p)
  \/ DropTable(p) \/ DropRefs(p)
  \/ AdminStatementFails(p)

AdminNext ==
  \/ \E p \in Admins : AdminStep(p)
  \/ \E n \in Names : WriteRecords(n) \/ ReferToFile(n)
  \/ AdminCrash

AdminSpec == AdminInit /\ [][AdminNext]_adminVars

-----------------------------------------------------------------------------
(* Properties *)

AdminTypeOK ==
  /\ catalog \in [Names -> Definitions \cup {NoEntry}]
  /\ tables \in [Names -> TableContents \cup {NoTable}]
  /\ indexed \in [Names \X Columns -> Names \cup {NoName}]
  /\ fileRefs \in [Names -> BOOLEAN]
  /\ \A p \in Admins : request[p] = NoRequest \/ request[p].step \in AdminSteps
  /\ asked \in 0..MaxAsked /\ failures \in 0..MaxFailures
  /\ \A i \in Names \X Columns : indexed[i] # NoName =>
       /\ Exists(indexed[i])
       /\ i[2] \notin tables[indexed[i]].dups

Undisturbed == ~concurrent /\ ~halfDone /\ failures = 0

\* The catalogue and the tables say the same between requests that came one
\* after the other and were not given up: every collection has a table with its
\* columns, and every table is somebody's (handlers/moul.go).  References to files
\* belong to collections that have a table, also when an update with a rename was
\* refused half way.
CatalogueAgrees ==
  Active = {} =>
    /\ Undisturbed =>
         \A n \in Names : IF Catalogued(n) THEN Fits(n, catalog[n]) ELSE ~Exists(n)
    /\ ~concurrent /\ failures = 0 => \A n \in Names : fileRefs[n] => Exists(n)

\* The fields that an update leaves their values.  (Excepted are values stored in
\* a column that it is only adding, because an earlier failure left the catalogue
\* with a field that the table lacks: the rebuild after a refused DROP COLUMN
\* does not copy it.)
Kept(r) == {c \in FieldsIn(r.def) : r.step = "rebuild" => r.seen[c] # "none"}

\* The fields whose values a rebuild may alter: those it gives another type.
Converted(r) == {c \in FieldsIn(r.def) : r.step = "rebuild" /\ r.seen[c] # SqlType[r.def[c]]}

Held(m, c) == tables'[m] # NoTable /\ c \in tables'[m].filled

\* Whatever failed, crashed or raced before, an update with nobody beside it has its
\* table as its schema says when it gets to write the catalogue, be it with the schema
\* that is there already; and none of its steps empties a field that its schema keeps,
\* or alters a value of it unless its type changes: the values stay in the table
\* under the old name or under the new (db.go:849, db.go:727).  Where the type changes
\* the CAST of db.go:716-725 may alter them, which the program does not tell.
UpdateRepairs ==
  [][\A p \in Admins : LET r == request[p] IN
       r.kind = "update" /\ r.alone /\ request'[p] # r =>
         /\ At(p, "metadata") => Fits(r.target, r.def)
         /\ \A n \in {m \in {r.name, r.target} : Exists(m)} :
              \A c \in tables[n].filled \cap Kept(r) :
                \E m \in {r.name, r.target} :
                  /\ Held(m, c)
                  /\ c \in tables'[m].altered =>
                       c \in tables[n].altered \cup Converted(r)]_adminVars

\* "Enforces unique values across all records" (docs/openapi.yml:3634), in requests
\* that came one after the other, as long as no collection has been renamed and no
\* update given up.  (One that is refused with 400 for duplicates in a field it makes
\* unique has by then dropped the indexes of fields it makes plain, which the catalogue
\* goes on to call unique.)
UniqueUntilRenamed ==
  Undisturbed /\ ~renamed /\ Active = {} =>
    \A n \in Names : Catalogued(n) /\ Exists(n) =>
      UniqueIn(catalog[n]) \cap tables[n].dups = {}

\* What docs/openapi.yml:3634 says of unique fields, whatever was renamed before.
UniqueEnforced ==
  Undisturbed /\ Active = {} =>
    \A n \in Names : Catalogued(n) /\ Exists(n) =>
      UniqueIn(catalog[n]) \cap tables[n].dups = {}

=============================================================================
