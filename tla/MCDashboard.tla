----------------------------- MODULE MCDashboard -----------------------------
(***************************************************************************)
(* The dashboard for TLC.  Each page has a few sets of bounds, so that what *)
(* interferes is combined two or three at a time; the last one of each is  *)
(* that of a page which is not mounted.                                    *)
(***************************************************************************)
EXTENDS Dashboard

RecordsBudget(o, r, u, p, t, f, x) ==
  [opens |-> o, requests |-> r, uploads |-> u, picks |-> p, turns |-> t, faults |-> f,
   others |-> x]
SomeBudgets ==
  {RecordsBudget(2, 1, 1, 0, 0, 0, 0), RecordsBudget(1, 2, 0, 0, 0, 0, 0),
   RecordsBudget(1, 1, 0, 0, 0, 1, 0), RecordsBudget(1, 0, 1, 0, 0, 1, 0),
   RecordsBudget(0, 2, 0, 1, 0, 1, 0), RecordsBudget(0, 2, 0, 1, 2, 0, 0),
   RecordsBudget(0, 1, 0, 2, 1, 0, 1), RecordsBudget(0, 0, 0, 0, 0, 0, 0)}

TransferBudget(i, x, s) == [imports |-> i, exports |-> x, searches |-> s]
MCTB == {TransferBudget(2, 0, 0), TransferBudget(0, 2, 2), TransferBudget(0, 0, 0)}

SettingsBudget(o, e, r, l, x, f) ==
  [opens |-> o, edits |-> e, requests |-> r, looks |-> l, others |-> x, faults |-> f]
MCSB == {SettingsBudget(2, 1, 1, 0, 0, 0), SettingsBudget(1, 0, 2, 0, 0, 0),
         SettingsBudget(1, 3, 1, 0, 0, 1), SettingsBudget(1, 2, 1, 1, 0, 0),
         SettingsBudget(1, 0, 1, 1, 1, 0), SettingsBudget(0, 0, 0, 0, 0, 0)}
Two == <<1, 2>>

EditorBudget(e, s, l, x, f) ==
  [edits |-> e, saves |-> s, looks |-> l, others |-> x, faults |-> f]
MCEB == {EditorBudget(3, 0, 0, 0, 0), EditorBudget(2, 1, 0, 0, 0),
         EditorBudget(1, 1, 1, 1, 0), EditorBudget(1, 2, 0, 0, 1),
         EditorBudget(0, 0, 0, 0, 0)}
MCTargets == <<"posts", "tags">>

CreationBudget(o, t, r, n, q, x, f) ==
  [opens |-> o, types |-> t, rules |-> r, names |-> n, requests |-> q, others |-> x,
   faults |-> f]
MCCB == {CreationBudget(1, 2, 1, 1, 1, 0, 0), CreationBudget(2, 0, 1, 1, 1, 0, 1),
         CreationBudget(2, 0, 0, 1, 2, 1, 0), CreationBudget(0, 0, 0, 0, 0, 0, 0)}

QueueBudget(s, l, p, r, e, d, f) ==
  [selects |-> s, looks |-> l, polls |-> p, presses |-> r, engine |-> e, drops |-> d,
   faults |-> f]
MCQB == {QueueBudget(1, 1, 1, 2, 1, 0, 0), QueueBudget(1, 1, 0, 1, 0, 1, 1),
         QueueBudget(2, 0, 1, 1, 1, 0, 0), QueueBudget(0, 0, 0, 0, 0, 0, 0)}
MCTableOfJob == [j \in {"j1", "j2"} |-> IF j = "j1" THEN "_workers" ELSE "mails"]

FlagBudget(c, t, d, e, x, f) ==
  [creates |-> c, toggles |-> t, deletes |-> d, evals |-> e, others |-> x, faults |-> f]
MCFB == {FlagBudget(2, 1, 0, 0, 0, 1), FlagBudget(0, 2, 2, 0, 1, 0),
         FlagBudget(0, 0, 0, 4, 1, 0), FlagBudget(0, 0, 0, 0, 0, 0)}

StreamBudget(s, t, e, b, r) ==
  [selects |-> s, toggles |-> t, events |-> e, breaks |-> b, renewals |-> r]
MCRB == {StreamBudget(1, 1, 3, 0, 0), StreamBudget(1, 0, 2, 1, 1),
         StreamBudget(0, 1, 3, 1, 0), StreamBudget(0, 0, 0, 0, 0)}

SessionBudget(l, s, e, v, r, f) ==
  [loads |-> l, submits |-> s, exits |-> e, saves |-> v, rotations |-> r, faults |-> f]
MCAB == {SessionBudget(2, 2, 0, 0, 0, 0), SessionBudget(2, 1, 1, 1, 0, 0),
         SessionBudget(2, 1, 0, 0, 1, 1), SessionBudget(0, 0, 0, 0, 0, 0)}

\* Values of fields of every type, and limits for the types that have them.
Field(t, r, lo, hi, o, g) ==
  [name |-> "title", type |-> t, required |-> r, unique |-> FALSE, min |-> lo, max |-> hi,
   options |-> o, target |-> g]
MCFields ==
  {Field(t, r, NoBound, NoBound, 1, "none") : t \in FieldTypes \ {"relation"}, r \in BOOLEAN}
  \cup {Field("select", r, NoBound, NoBound, 0, "none") : r \in BOOLEAN}
  \cup {Field("relation", r, NoBound, NoBound, 0, g) :
          r \in BOOLEAN, g \in {"1:1", "1:N", "M:N"}}
  \cup {[Field(t, r, NoBound, NoBound, 0, "none") EXCEPT !.unique = TRUE] :
          t \in UniqueTypes, r \in BOOLEAN}
  \cup {Field(t, r, lo, hi, 0, "none") : t \in {"text", "number", "editor"}, r \in BOOLEAN,
                                         lo \in {NoBound, 1, 2}, hi \in {NoBound, 2}}
  \cup {Field("text", r, NoBound, -2, 0, "none") : r \in BOOLEAN}
MCFormatSets ==
  {{}, {"email", "looseEmail"}, {"looseEmail"}, {"url"}, {"url", "goUrl"},
   {"date", "datetime"}, {"datetime", "goDatetime"}, {"datetime", "local"}, {"datetime"},
   {"json"}, {"number", "json"}, {"json", "toNull"}, {"json", "toEmpty"},
   {"json", "toText"}, {"json", "toJson"}, {"option"}}
MCPasswords ==
  {w \in [length : {7, 8}, bytes : {7, 8, BcryptLimit, BcryptLimit + 1}, mixed : BOOLEAN] :
     w.length <= w.bytes}

\* Schemas of one field of any sort, and of one that is simple before it.
MCNameKey ==
  [title |-> "title", Title |-> "title", tiTle |-> "title", id |-> "id",
   created_at |-> "created_at", username |-> "username", blank |-> ""]
MCCamel == {"title", "tiTle", "id", "username"}
SchemaFields ==
  {[name |-> n, type |-> t, required |-> FALSE, unique |-> u, min |-> NoBound,
    max |-> NoBound, options |-> o, target |-> g] :
     n \in DOMAIN MCNameKey, t \in {"text", "select", "relation", "editor", "cloak"},
     u \in BOOLEAN, o \in 0..1, g \in {"none", "1:N"}}
SimpleFields == {f \in SchemaFields : /\ f.options = 1 /\ f.target = "1:N" /\ ~f.unique
                                      /\ f.type \in {"text", "select"}}
MCSchemas == {<<f>> : f \in SchemaFields} \cup {<<f, g>> : f \in SimpleFields, g \in SchemaFields}

=============================================================================
