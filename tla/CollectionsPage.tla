----------------------------- MODULE CollectionsPage -----------------------------
(***************************************************************************)
(* The page of all collections (ui routes/_auth/collections/index) with    *)
(* its editor of access rules (components/collections/RulesEditor): the    *)
(* drawer in which a collection is created, whose default rules follow the *)
(* chosen type, and the dialog in which one is deleted.                    *)
(*                                                                         *)
(* A rule is blank, the rule of an owner (id = @request.auth.id), or one   *)
(* that stands for all others.  The fields of a new collection are only    *)
(* what their names are: fit for every type, or reserved for "auth".       *)
(***************************************************************************)
EXTENDS Integers, FiniteSets

CONSTANTS
  Collections,     \* names a collection may be given
  NoCollection,    \* not a name
  CreationBudgets  \* bounds on the steps of each sort, one of which is chosen

ASSUME CollectionsAssumption ==
  /\ NoCollection \notin Collections
  /\ CreationBudgets \subseteq
       [{"opens", "types", "rules", "names", "requests", "others", "faults"} -> Nat]

VARIABLES
  stored,        \* type and rules of each collection on the server, and what was entered
  listed,        \* the cached answer of listMouls, and whether it is loaded
  listing,       \* that query, while it is under way
  isCreateOpen,
  newMoul,       \* newMoulName, newMoulType, newMoulFields, newMoulRules, error
  toDrop,        \* collectionToDelete
  posts,         \* requests in flight
  entered,       \* history: what was entered last for each rule, and under which type
  allowance      \* what is left of the bounds

collectionsVars == <<stored, listed, listing, isCreateOpen, newMoul, toDrop, posts, entered,
                     allowance>>

RuleNames == {"listRule", "viewRule", "createRule", "updateRule", "deleteRule"}
Guarded == RuleNames \ {"createRule"}  \* those with a default in "auth"
BlankRules == [r \in RuleNames |-> "blank"]
EmptyMoul == [name |-> NoCollection, type |-> "base", fields |-> "fit", rules |-> BlankRules,
              error |-> FALSE]
NothingEntered == [r \in RuleNames |-> [rule |-> "blank", type |-> "base"]]
Collection(type, rules, asEntered) == [type |-> type, rules |-> rules, entered |-> asEntered]
Absent == Collection("none", BlankRules, NothingEntered)

Allow(what) == allowance[what] > 0 /\ allowance' = [allowance EXCEPT ![what] = @ - 1]
Awaiting(kind) == \E p \in posts : p.kind = kind
PageReachable == ~isCreateOpen /\ toDrop = NoCollection

-----------------------------------------------------------------------------
(* The drawer.                                                                *)

\* The header's button starts afresh; that of the empty page opens the drawer
\* as it was left.
OpenNewCollection ==
  /\ PageReachable
  /\ Allow("opens")
  /\ isCreateOpen' = TRUE
  /\ \/ newMoul' = EmptyMoul /\ entered' = NothingEntered
     \/ listed = {} /\ UNCHANGED <<newMoul, entered>>
  /\ UNCHANGED <<stored, listed, listing, toDrop, posts>>

CloseNewCollection ==
  /\ isCreateOpen
  /\ isCreateOpen' = FALSE
  /\ UNCHANGED <<stored, listed, listing, newMoul, toDrop, posts, entered, allowance>>

FillIn(name, fields) ==
  /\ isCreateOpen
  /\ Allow("names")
  /\ newMoul' = [newMoul EXCEPT !.name = name, !.fields = fields]
  /\ UNCHANGED <<stored, listed, listing, isCreateOpen, toDrop, posts, entered>>

\* Mutant: the defaults of "auth" come with it and stay.
RulesOfTypeKept(rules, type) ==
  [r \in RuleNames |->
     IF type = "auth" /\ r \in Guarded /\ rules[r] = "blank" THEN "owner" ELSE rules[r]]

\* handleTypeChange: the defaults of "auth" come and go with it.
RulesOfType(rules, type) ==
  [r \in RuleNames |->
     CASE type = "auth" /\ r \in Guarded /\ rules[r] = "blank" -> "owner"
       [] type = "base" /\ r \in Guarded /\ rules[r] = "owner" -> "blank"
       [] OTHER -> rules[r]]

ChooseType(type) ==
  /\ isCreateOpen
  /\ Allow("types")
  /\ newMoul' = [newMoul EXCEPT !.type = type, !.rules = RulesOfType(@, type)]
  /\ UNCHANGED <<stored, listed, listing, isCreateOpen, toDrop, posts, entered>>

EnterRules(rules) ==
  /\ newMoul' = [newMoul EXCEPT !.rules = rules]
  /\ entered' = [r \in RuleNames |->
                   IF rules[r] = newMoul.rules[r] THEN entered[r]
                   ELSE [rule |-> rules[r], type |-> newMoul.type]]
  /\ UNCHANGED <<stored, listed, listing, isCreateOpen, toDrop, posts>>

HandleRuleChange(r, rule) ==
  /\ isCreateOpen
  /\ Allow("rules")
  /\ EnterRules([newMoul.rules EXCEPT ![r] = rule])

\* applyPresetToAll; "Authenticated" and "Admin Only" set all rules, too.
Preset(preset) ==
  [r \in RuleNames |->
     CASE preset = "public" -> "blank"
       [] preset = "admin" -> "other"
       [] newMoul.type = "auth" -> IF r \in Guarded THEN "owner" ELSE "blank"
       [] OTHER -> IF r \in {"listRule", "viewRule"} THEN "blank" ELSE "other"]

ApplyPresetToAll(preset) ==
  /\ isCreateOpen
  /\ Allow("rules")
  /\ EnterRules(Preset(preset))

-----------------------------------------------------------------------------
(* Requests.                                                                  *)

\* Mutant: what is blank stays blank.
DefaultedNever(type, rules) == rules

\* handleCreate, and the server's CreateMoul again: a rule that is blank in "auth",
\* even one made so by the preset "Public", becomes the owner's.
Defaulted(type, rules) ==
  [r \in RuleNames |-> IF type = "auth" /\ r \in Guarded /\ rules[r] = "blank" THEN "owner"
                       ELSE rules[r]]

SoundForType == newMoul.fields = "fit" \/ newMoul.type # "auth"

HandleCreate ==
  /\ isCreateOpen
  /\ ~Awaiting("create")
  /\ newMoul.name # NoCollection
  /\ IF SoundForType
     THEN /\ Allow("requests")
          /\ posts' = posts \cup
               {[kind |-> "create", name |-> newMoul.name, type |-> newMoul.type,
                 rules |-> Defaulted(newMoul.type, newMoul.rules), entered |-> entered,
                 answer |-> "none"]}
          /\ newMoul' = [newMoul EXCEPT !.error = FALSE]
     ELSE /\ newMoul' = [newMoul EXCEPT !.error = TRUE]
          /\ UNCHANGED <<posts, allowance>>
  /\ UNCHANGED <<stored, listed, listing, isCreateOpen, toDrop, entered>>

AskDropCollection(name) ==
  /\ PageReachable
  /\ name \in listed
  /\ toDrop' = name
  /\ UNCHANGED <<stored, listed, listing, isCreateOpen, newMoul, posts, entered, allowance>>

DismissDropCollection ==
  /\ toDrop # NoCollection
  /\ toDrop' = NoCollection
  /\ UNCHANGED <<stored, listed, listing, isCreateOpen, newMoul, posts, entered, allowance>>

ConfirmDropCollection ==
  /\ toDrop # NoCollection
  /\ ~Awaiting("delete")
  /\ Allow("requests")
  /\ posts' = posts \cup {[kind |-> "delete", name |-> toDrop, type |-> "none",
                           rules |-> BlankRules, entered |-> NothingEntered,
                           answer |-> "none"]}
  /\ UNCHANGED <<stored, listed, listing, isCreateOpen, newMoul, toDrop, entered>>

\* A name can be taken, and a collection be gone.
CarryPost(p) ==
  /\ p.answer = "none"
  /\ IF p.kind = "create" <=> stored[p.name] = Absent
     THEN /\ stored' = [stored EXCEPT ![p.name] =
                          IF p.kind = "create"
                          THEN Collection(p.type, Defaulted(p.type, p.rules), p.entered)
                          ELSE Absent]
          /\ posts' = (posts \ {p}) \cup {[p EXCEPT !.answer = "ok"]}
     ELSE /\ posts' = (posts \ {p}) \cup {[p EXCEPT !.answer = "failed"]}
          /\ UNCHANGED stored
  /\ UNCHANGED <<listed, listing, isCreateOpen, newMoul, toDrop, entered, allowance>>

LosePost(p) ==
  /\ p.answer # "failed"
  /\ Allow("faults")
  /\ posts' = (posts \ {p}) \cup {[p EXCEPT !.answer = "failed"]}
  /\ UNCHANGED <<stored, listed, listing, isCreateOpen, newMoul, toDrop, entered>>

\* A success closes and empties the drawer, be it open for another collection.
CollectionCreated(p) ==
  /\ p.kind = "create" /\ p.answer = "ok"
  /\ posts' = posts \ {p}
  /\ listing' = [state |-> "waiting", names |-> {}]
  /\ isCreateOpen' = FALSE
  /\ newMoul' = EmptyMoul /\ entered' = NothingEntered
  /\ UNCHANGED <<stored, listed, toDrop, allowance>>

\* Success or failure ends the dialog, be it open for another collection.
CollectionDeleted(p) ==
  /\ p.kind = "delete" /\ p.answer # "none"
  /\ posts' = posts \ {p}
  /\ listing' = IF p.answer = "ok" THEN [state |-> "waiting", names |-> {}] ELSE listing
  /\ toDrop' = NoCollection
  /\ UNCHANGED <<stored, listed, isCreateOpen, newMoul, entered, allowance>>

CreationFailed(p) ==
  /\ p.kind = "create" /\ p.answer = "failed"
  /\ posts' = posts \ {p}
  /\ newMoul' = [newMoul EXCEPT !.error = TRUE]
  /\ UNCHANGED <<stored, listed, listing, isCreateOpen, toDrop, entered, allowance>>

-----------------------------------------------------------------------------
(* The list.                                                                  *)

ListMouls ==
  /\ listing.state = "waiting"
  /\ listing' = [state |-> "answered",
                 names |-> {n \in Collections : stored[n] # Absent}]
  /\ UNCHANGED <<stored, listed, isCreateOpen, newMoul, toDrop, posts, entered, allowance>>

MoulsListed ==
  /\ listing.state = "answered"
  /\ listed' = listing.names
  /\ listing' = [state |-> "quiet", names |-> {}]
  /\ UNCHANGED <<stored, isCreateOpen, newMoul, toDrop, posts, entered, allowance>>

OtherAdmin(name) ==
  /\ Allow("others")
  /\ stored' = [stored EXCEPT ![name] =
                  IF @ = Absent THEN Collection("base", BlankRules, NothingEntered)
                  ELSE Absent]
  /\ UNCHANGED <<listed, listing, isCreateOpen, newMoul, toDrop, posts, entered>>

-----------------------------------------------------------------------------

\* An answer that is not there yet, and a failed one, show the empty page.
CollectionsInit ==
  /\ stored = [n \in Collections |-> Absent]
  /\ listed = {}
  /\ listing = [state |-> "waiting", names |-> {}]
  /\ isCreateOpen = FALSE
  /\ newMoul = EmptyMoul
  /\ toDrop = NoCollection
  /\ posts = {}
  /\ entered = NothingEntered
  /\ allowance \in CreationBudgets

CollectionsNext ==
  \/ OpenNewCollection \/ CloseNewCollection \/ HandleCreate
  \/ \E name \in Collections, fields \in {"fit", "reserved"} : FillIn(name, fields)
  \/ \E type \in {"base", "auth"} : ChooseType(type)
  \/ \E r \in RuleNames, rule \in {"blank", "owner", "other"} : HandleRuleChange(r, rule)
  \/ \E preset \in {"public", "owner", "admin"} : ApplyPresetToAll(preset)
  \/ \E name \in Collections : AskDropCollection(name) \/ OtherAdmin(name)
  \/ DismissDropCollection \/ ConfirmDropCollection
  \/ \E p \in posts : \/ CarryPost(p) \/ LosePost(p) \/ CollectionCreated(p)
                      \/ CollectionDeleted(p) \/ CreationFailed(p)
  \/ ListMouls \/ MoulsListed

CollectionsSpec == CollectionsInit /\ [][CollectionsNext]_collectionsVars

-----------------------------------------------------------------------------
(* Properties.                                                                *)

\* What a rule of a collection of that type is to be, once it was entered so: in
\* "auth" the owner's where it is blank; in "base" as entered, except that the owner's
\* rule goes when the type has been "auth" meanwhile, or was when it was entered.
Fits(r, rule, type, meant) ==
  CASE r \notin Guarded -> rule = meant.rule
    [] r \in Guarded /\ type = "auth" ->
         rule = IF meant.rule = "blank" THEN "owner" ELSE meant.rule
    [] OTHER -> \/ rule = meant.rule /\ (rule = "owner" => meant.type = "base")
                \/ rule = "blank" /\ meant.rule = "owner"

\* However often the type was changed, what is sent, and what is then stored, has the
\* rules that were entered last.  An "auth" collection alone has the owner's rule where
\* a rule was left blank or made blank by "Public", against the heading of the form.
CreatedAsChosen ==
  /\ \A p \in posts : p.kind = "create" =>
       \A r \in RuleNames : Fits(r, p.rules[r], p.type, p.entered[r])
  /\ \A n \in Collections, r \in RuleNames : stored[n] # Absent =>
       Fits(r, stored[n].rules[r], stored[n].type, stored[n].entered[r])

=============================================================================
