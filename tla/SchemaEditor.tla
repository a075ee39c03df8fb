------------------------------ MODULE SchemaEditor ------------------------------
(***************************************************************************)
(* The page of a collection's schema (ui routes/_auth/collections/         *)
(* $moulName and components/collections/FieldsBuilder): the list of fields *)
(* that is edited in place and written back as a whole, beside another     *)
(* administrator.  The access rules that a save writes beside the fields   *)
(* are left out, and so is the graph of relations above them.  A panel     *)
(* that is open and an option that is typed are kept by the position of    *)
(* their field.                                                            *)
(*                                                                         *)
(* id is history: it tells fields apart whatever their names and places.   *)
(***************************************************************************)
EXTENDS Integers, FiniteSets, Sequences

CONSTANTS
  Targets,       \* collections a relation may point to, the first choice first
  OptionNames,   \* names of options
  MaxFields,     \* bound on the fields of a list
  EditorBudgets  \* bounds on the steps of each sort, one of which is chosen

ASSUME EditorAssumption ==
  /\ Targets \in Seq(STRING) /\ Targets # <<>>
  /\ MaxFields \in Nat
  /\ EditorBudgets \subseteq [{"edits", "saves", "looks", "others", "faults"} -> Nat]

VARIABLES
  schema,     \* the fields on the server, and the columns of the table by name
  moul,       \* the answer of the query of the collection
  asking,     \* the query, while it is under way
  draftFields,\* the list that is edited
  expanded,   \* expandedFields: the positions of open panels
  typedOption,\* newOptionInputs, by position
  dropping,   \* isDeleteModalOpen
  puts,       \* requests in flight
  panelsMeant,\* history: fields whose panel was opened
  givenUp,    \* history: names that a field removed or renamed had, since the list was set
  displaced,  \* history: the list was set to one that keeps not every field at its place
  born,       \* history: ids given so far
  effort      \* what is left of the bounds

editVars == <<draftFields, expanded, typedOption, panelsMeant, givenUp, displaced, born>>
editorVars == <<schema, moul, asking, editVars, dropping, puts, effort>>

NotRead == [read |-> FALSE, fields |-> <<>>]
Dropped == [dropped |-> TRUE, fields |-> <<>>, columns |-> {}]
Quiet == [state |-> "quiet", fields |-> <<>>]
Waiting == [state |-> "waiting", fields |-> <<>>]

\* A name is a stem with a number, 0 for none: field1, parentId, postsId2, title.
Stems == {"field", "title", "other"} \cup {Targets[i] : i \in DOMAIN Targets}
FieldKinds == {"text", "number", "bool", "select", "relation"}
Eligible == {"text", "number"}
NoTarget == ""
NewField(id, name) == [id |-> id, name |-> name, type |-> "text", required |-> FALSE,
                       unique |-> FALSE, options |-> {}, target |-> NoTarget]

Try(what) == effort[what] > 0 /\ effort' = [effort EXCEPT ![what] = @ - 1]
IdsIn(list) == {list[i].id : i \in DOMAIN list}
NamesIn(list) == {list[i].name : i \in DOMAIN list}

\* The page is not rendered while the query is asked for the first time.
Rendered == moul.read \/ asking = Quiet
Editable == Rendered /\ ~dropping

-----------------------------------------------------------------------------
(* FieldsBuilder.                                                             *)

\* getNextDefaultFieldName and getNextDefaultRelationName, whose first choice
\* has no number and the next number 2.
NextFieldName(list) ==
  LET free == {n \in 1..(Len(list) + 1) : [stem |-> "field", nr |-> n] \notin NamesIn(list)}
  IN [stem |-> "field", nr |-> CHOOSE n \in free : \A m \in free : n <= m]

NextRelationName(target, list) ==
  LET free == {n \in {0} \cup 2..(Len(list) + 2) :
                 [stem |-> target, nr |-> n] \notin NamesIn(list)}
  IN [stem |-> target, nr |-> CHOOSE n \in free : \A m \in free : n <= m]

ListWithout(list, i) == [j \in 1..(Len(list) - 1) |-> IF j < i THEN list[j] ELSE list[j + 1]]
OpenIds == {draftFields[i].id : i \in expanded \cap DOMAIN draftFields}

AddField ==
  /\ Editable
  /\ Try("edits")
  /\ Len(draftFields) < MaxFields
  /\ draftFields' = Append(draftFields, NewField(born + 1, NextFieldName(draftFields)))
  /\ born' = born + 1
  /\ UNCHANGED <<schema, moul, asking, expanded, typedOption, panelsMeant, givenUp, displaced,
                 dropping, puts>>

\* Mutant: the field moved over is overwritten before it is kept.
SwappedInPlace(list, i, j) == [list EXCEPT ![i] = list[j]]

Swapped(list, i, j) == [list EXCEPT ![i] = list[j], ![j] = list[i]]

MoveField(i, j) ==
  /\ Editable
  /\ i \in DOMAIN draftFields /\ j \in DOMAIN draftFields \cap {i - 1, i + 1}
  /\ Try("edits")
  /\ draftFields' = Swapped(draftFields, i, j)
  /\ expanded' = (expanded \ {i, j}) \cup (IF i \in expanded THEN {j} ELSE {})
                                     \cup (IF j \in expanded THEN {i} ELSE {})
  /\ UNCHANGED <<schema, moul, asking, typedOption, panelsMeant, givenUp, displaced, born, dropping,
                 puts>>

RemoveField(i) ==
  /\ Editable
  /\ i \in DOMAIN draftFields
  /\ Try("edits")
  /\ draftFields' = ListWithout(draftFields, i)
  /\ expanded' = {j \in expanded : j < i} \cup {j - 1 : j \in {k \in expanded : k > i}}
  /\ panelsMeant' = panelsMeant \ {draftFields[i].id}
  /\ givenUp' = givenUp \cup {draftFields[i].name}
  /\ UNCHANGED <<schema, moul, asking, typedOption, displaced, born, dropping, puts>>

SetField(i, field) == draftFields' = [draftFields EXCEPT ![i] = field]

\* handleFieldChange of "type".  A relation or a list of options opens its panel;
\* a name given by default becomes one that fits the target.
OfType(i, t) ==
  LET f == [draftFields[i] EXCEPT !.type = t, !.unique = @ /\ t \in Eligible]
      target == IF f.target = NoTarget THEN Targets[1] ELSE f.target
  IN CASE t = "relation" ->
            [f EXCEPT !.target = target,
                      !.name = IF @.stem = "field"
                               THEN NextRelationName(Targets[1], ListWithout(draftFields, i))
                               ELSE @]
       [] t = "select" /\ f.options = {} -> [f EXCEPT !.options = {"option1", "option2"}]
       [] OTHER -> f

ChangeType(i, t) ==
  /\ Editable
  /\ i \in DOMAIN draftFields
  /\ Try("edits")
  /\ SetField(i, OfType(i, t))
  /\ givenUp' = IF OfType(i, t).name = draftFields[i].name THEN givenUp
                ELSE givenUp \cup {draftFields[i].name}
  /\ IF t \in {"relation", "select"}
     THEN expanded' = expanded \cup {i} /\ panelsMeant' = panelsMeant \cup {draftFields[i].id}
     ELSE UNCHANGED <<expanded, panelsMeant>>
  /\ UNCHANGED <<schema, moul, asking, typedOption, displaced, born, dropping, puts>>

Demanded(f, required, unique) ==
  CASE unique # f.unique -> [f EXCEPT !.unique = unique, !.required = @ \/ unique]
    [] OTHER -> [f EXCEPT !.required = required, !.unique = @ /\ required]

ChangeDemands(i, required, unique) ==
  /\ Editable
  /\ i \in DOMAIN draftFields
  /\ unique => draftFields[i].type \in Eligible
  /\ Try("edits")
  /\ SetField(i, Demanded(draftFields[i], required, unique))
  /\ UNCHANGED <<schema, moul, asking, expanded, typedOption, panelsMeant, givenUp, displaced, born,
                 dropping, puts>>

Rename(i) ==
  /\ Editable
  /\ i \in DOMAIN draftFields
  /\ Try("edits")
  /\ SetField(i, [draftFields[i] EXCEPT !.name = [stem |-> "title", nr |-> 0]])
  /\ givenUp' = givenUp \cup {draftFields[i].name}
  /\ UNCHANGED <<schema, moul, asking, expanded, typedOption, panelsMeant, displaced, born,
                 dropping, puts>>

Configurable(i) == draftFields[i].type # "bool"
PanelOpen(i, type) == i \in expanded /\ draftFields[i].type = type

ToggleExpand(i) ==
  /\ Editable
  /\ i \in DOMAIN draftFields /\ Configurable(i)
  /\ Try("edits")
  /\ IF i \in expanded
     THEN expanded' = expanded \ {i} /\ panelsMeant' = panelsMeant \ {draftFields[i].id}
     ELSE expanded' = expanded \cup {i} /\ panelsMeant' = panelsMeant \cup {draftFields[i].id}
  /\ UNCHANGED <<schema, moul, asking, draftFields, typedOption, givenUp, displaced, born, dropping,
                 puts>>

ChangeTarget(i, t) ==
  /\ Editable
  /\ i \in DOMAIN draftFields /\ PanelOpen(i, "relation")
  /\ Try("edits")
  /\ SetField(i, [draftFields[i] EXCEPT !.target = t])
  /\ UNCHANGED <<schema, moul, asking, expanded, typedOption, panelsMeant, givenUp, displaced, born,
                 dropping, puts>>

TypeOption(i, o) ==
  /\ Editable
  /\ i \in DOMAIN draftFields /\ PanelOpen(i, "select")
  /\ Try("edits")
  /\ typedOption' = [typedOption EXCEPT ![i] = o]
  /\ UNCHANGED <<schema, moul, asking, draftFields, expanded, panelsMeant, givenUp, displaced, born,
                 dropping, puts>>

\* The option typed at this place, for whichever field it was typed.
AddOption(i) ==
  /\ Editable
  /\ i \in DOMAIN draftFields /\ PanelOpen(i, "select")
  /\ typedOption[i] # ""
  /\ SetField(i, [draftFields[i] EXCEPT !.options = @ \cup {typedOption[i]}])
  /\ typedOption' = [typedOption EXCEPT ![i] = ""]
  /\ UNCHANGED <<schema, moul, asking, expanded, panelsMeant, givenUp, displaced, born, dropping,
                 puts, effort>>

RemoveOption(i, o) ==
  /\ Editable
  /\ i \in DOMAIN draftFields /\ PanelOpen(i, "select")
  /\ o \in draftFields[i].options
  /\ Try("edits")
  /\ SetField(i, [draftFields[i] EXCEPT !.options = @ \ {o}])
  /\ UNCHANGED <<schema, moul, asking, expanded, typedOption, panelsMeant, givenUp, displaced, born,
                 dropping, puts>>

-----------------------------------------------------------------------------
(* Saving and deleting.                                                       *)

Sound(list) ==
  /\ \A i, j \in DOMAIN list : i # j => list[i].name # list[j].name
  /\ \A i \in DOMAIN list : list[i].type = "select" => list[i].options # {}

Under(kind) == \E p \in puts : p.kind = kind

HandleSave ==
  /\ Editable
  /\ ~Under("save")
  /\ Sound(draftFields)
  /\ Try("saves")
  /\ puts' = puts \cup {[kind |-> "save", fields |-> draftFields, base |-> moul,
                         givenUp |-> givenUp, done |-> FALSE]}
  /\ UNCHANGED <<schema, moul, asking, editVars, dropping>>

AskDrop ==
  /\ Editable
  /\ dropping' = TRUE
  /\ UNCHANGED <<schema, moul, asking, editVars, puts, effort>>

DismissDrop ==
  /\ dropping /\ dropping' = FALSE
  /\ UNCHANGED <<schema, moul, asking, editVars, puts, effort>>

ConfirmDrop ==
  /\ dropping
  /\ ~Under("drop")
  /\ Try("saves")
  /\ puts' = puts \cup {[kind |-> "drop", fields |-> <<>>, base |-> moul, givenUp |-> {},
                         done |-> FALSE]}
  /\ UNCHANGED <<schema, moul, asking, editVars, dropping>>

\* The table keeps a column for each name in the list: that of a renamed field is
\* dropped with its values, and that of a name used again is kept.
ColumnsLost(p) == schema.columns \ NamesIn(p.fields)

CarryPut(p) ==
  /\ ~p.done /\ ~schema.dropped
  /\ schema' = IF p.kind = "save"
               THEN [schema EXCEPT !.fields = p.fields,
                                   !.columns = (@ \ ColumnsLost(p)) \cup NamesIn(p.fields)]
               ELSE Dropped
  /\ puts' = (puts \ {p}) \cup {[p EXCEPT !.done = TRUE]}
  /\ UNCHANGED <<moul, asking, editVars, dropping, effort>>

\* A request is refused, or it or its answer is lost.
PutFailed(p) ==
  /\ IF schema.dropped /\ ~p.done THEN UNCHANGED effort ELSE Try("faults")
  /\ puts' = puts \ {p}
  /\ dropping' = (dropping /\ p.kind # "drop")
  /\ UNCHANGED <<schema, moul, asking, editVars>>

SchemaSaved(p) ==
  /\ p.done /\ p.kind = "save"
  /\ puts' = puts \ {p}
  /\ asking' = Waiting
  /\ UNCHANGED <<schema, moul, editVars, dropping, effort>>

\* A deletion leaves the page.
CollectionDropped(p) ==
  /\ p.done /\ p.kind = "drop"
  /\ puts' = puts \ {p}
  /\ dropping' = FALSE
  /\ moul' = NotRead /\ asking' = Waiting
  /\ effort' = [what \in DOMAIN effort |-> 0]
  /\ UNCHANGED <<schema, editVars>>

-----------------------------------------------------------------------------
(* The query.                                                                 *)

LookAtSchema ==
  /\ asking = Quiet /\ Try("looks")
  /\ asking' = Waiting
  /\ UNCHANGED <<schema, moul, editVars, dropping, puts>>

GetMoul ==
  /\ asking = Waiting /\ ~schema.dropped
  /\ asking' = [state |-> "answered", fields |-> schema.fields]
  /\ UNCHANGED <<schema, moul, editVars, dropping, puts, effort>>

KeepsPlaces(list, next) ==
  \A i \in DOMAIN list : i \in DOMAIN next /\ next[i].id = list[i].id

\* An answer that says the same keeps the object of the last one, and the
\* effect that sets the list does not run.
SchemaRead ==
  /\ asking.state = "answered"
  /\ moul' = [read |-> TRUE, fields |-> asking.fields]
  /\ asking' = Quiet
  /\ IF moul' = moul THEN UNCHANGED editVars
     ELSE /\ draftFields' = asking.fields
          /\ givenUp' = {}
          /\ displaced' = (displaced \/ ~KeepsPlaces(draftFields, asking.fields))
          /\ UNCHANGED <<expanded, typedOption, panelsMeant, born>>
  /\ UNCHANGED <<schema, dropping, puts, effort>>

\* When the first query fails the page is rendered with no fields.
SchemaUnread ==
  /\ asking # Quiet
  /\ Try("faults")
  /\ asking' = Quiet
  /\ UNCHANGED <<schema, moul, editVars, dropping, puts>>

WithList(list) == [schema EXCEPT !.fields = list, !.columns = NamesIn(list)]

\* Another administrator's editor saves no name twice either.
OtherEdits ==
  /\ ~schema.dropped /\ Len(schema.fields) < MaxFields
  /\ Try("others")
  /\ \/ /\ [stem |-> "other", nr |-> born] \notin NamesIn(schema.fields)
        /\ schema' = WithList(Append(schema.fields, NewField(born + 1,
                                                  [stem |-> "other", nr |-> born])))
        /\ born' = born + 1
     \/ /\ \E i \in DOMAIN schema.fields : schema' = WithList(ListWithout(schema.fields, i))
        /\ UNCHANGED born
  /\ UNCHANGED <<moul, asking, draftFields, expanded, typedOption, panelsMeant, givenUp, displaced,
                 dropping, puts>>

-----------------------------------------------------------------------------

FirstFields == <<NewField(1, [stem |-> "title", nr |-> 0]),
                 NewField(2, [stem |-> "field", nr |-> 2])>>

EditorInit ==
  /\ schema = [dropped |-> FALSE, fields |-> FirstFields, columns |-> NamesIn(FirstFields)]
  /\ moul = NotRead
  /\ asking = Waiting
  /\ draftFields = <<>>
  /\ expanded = {}
  /\ typedOption = [i \in 1..MaxFields |-> ""]
  /\ dropping = FALSE
  /\ puts = {}
  /\ panelsMeant = {} /\ givenUp = {} /\ displaced = FALSE
  /\ born = 2
  /\ effort \in EditorBudgets

EditorNext ==
  \/ AddField
  \/ \E i, j \in 1..MaxFields : MoveField(i, j)
  \/ \E i \in 1..MaxFields :
       \/ RemoveField(i) \/ Rename(i) \/ ToggleExpand(i) \/ AddOption(i)
       \/ \E t \in FieldKinds : ChangeType(i, t)
       \/ \E required, unique \in BOOLEAN : ChangeDemands(i, required, unique)
       \/ \E t \in DOMAIN Targets : ChangeTarget(i, Targets[t])
       \/ \E o \in OptionNames : TypeOption(i, o) \/ RemoveOption(i, o)
  \/ HandleSave \/ AskDrop \/ DismissDrop \/ ConfirmDrop
  \/ \E p \in puts : CarryPut(p) \/ PutFailed(p) \/ SchemaSaved(p) \/ CollectionDropped(p)
  \/ LookAtSchema \/ GetMoul \/ SchemaRead \/ SchemaUnread \/ OtherEdits

EditorSpec == EditorInit /\ [][EditorNext]_editorVars

-----------------------------------------------------------------------------
(* Properties.                                                                *)

\* A save drops, of the columns that were read, those alone whose name was given up
\* in the editor since, by removing the field or by renaming it, by hand or with the
\* type: moving, retyping and demanding lose no column, whatever was read again
\* meanwhile.  A renamed field does lose its column and the values in it, and a name
\* given up and used again keeps that of the field before.  (A page whose first query
\* failed is another matter: it saves an empty schema.)
DropsOnlyGivenUp ==
  \A p \in puts : p.kind = "save" /\ p.base.read =>
    ColumnsLost(p) \cap NamesIn(p.base.fields) \subseteq p.givenUp

\* The panel that is open is that of the field it was opened for, until a read puts
\* another list in place of the edited one that keeps not every field at its place:
\* panels are kept by position.
PanelsFollowFields ==
  ~displaced => \A i \in DOMAIN draftFields : i \in expanded <=> draftFields[i].id \in panelsMeant

\* A name that was given by default is given once.
DefaultNamesDiffer ==
  \A i, j \in DOMAIN draftFields : i # j /\ draftFields[i].name = draftFields[j].name =>
    draftFields[i].name.stem = "title"

\* A unique field is required, and of a type that can be unique.
UniqueIsRequired ==
  \A i \in DOMAIN draftFields :
    draftFields[i].unique => draftFields[i].required /\ draftFields[i].type \in Eligible

\* A long sequence of edits leaves the list what it is meant to be.
SchemaAsEdited ==
  DropsOnlyGivenUp /\ PanelsFollowFields /\ DefaultNamesDiffer /\ UniqueIsRequired

=============================================================================
