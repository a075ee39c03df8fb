---------------------------- MODULE DashboardEditingProofs ----------------------------
(***************************************************************************)
(* Proofs about the pages of the dashboard on which something is entered,  *)
(* each for any sets of what it shows and any bounds: the collections, the *)
(* forms, the records, the settings and the schema; and about the          *)
(* dashboard that mounts them, one at a time.                              *)
(***************************************************************************)
EXTENDS DashboardProofs

-----------------------------------------------------------------------------
(***************************************************************************)
(* Proof that a collection is created with the rules that were chosen, for *)
(* any names and bounds.                                                   *)
(*                                                                         *)
(* A default of "auth" is told from a rule of one's own only by what was   *)
(* entered last, so the proof follows how the rules of the drawer stay     *)
(* beside what was entered for them (DraftAsMeant).                        *)
(***************************************************************************)

RuleTexts == {"blank", "owner", "other"}

DraftShape ==
  /\ newMoul = [name |-> newMoul.name, type |-> newMoul.type, fields |-> newMoul.fields,
                rules |-> newMoul.rules, error |-> newMoul.error]
  /\ newMoul.type \in {"base", "auth"}
  /\ newMoul.rules \in [RuleNames -> RuleTexts]

\* rule, in a drawer of that type, is what is meant, or a default in its place.
AsMeant(r, rule, type, meant) ==
  /\ meant.rule \in RuleTexts
  /\ \/ rule = meant.rule
     \/ r \in Guarded /\ type = "auth" /\ meant.rule = "blank" /\ rule = "owner"
     \/ r \in Guarded /\ type = "base" /\ meant.rule = "owner" /\ rule = "blank"
  /\ r \in Guarded /\ type = "base" /\ rule = "owner" => meant.type = "base"

DraftAsMeant == \A r \in RuleNames : AsMeant(r, newMoul.rules[r], newMoul.type, entered[r])

PostShape(p) ==
  /\ p = [kind |-> p.kind, name |-> p.name, type |-> p.type, rules |-> p.rules,
          entered |-> p.entered, answer |-> p.answer]
  /\ p.kind = "create" => p.type \in {"base", "auth"}

RulesAsEntered(type, rules, asEntered) ==
  \A r \in RuleNames : Fits(r, rules[r], type, asEntered[r])

PostAsMeant(p) == p.kind = "create" => RulesAsEntered(p.type, p.rules, p.entered)

PostsAsMeant == \A p \in posts : PostShape(p) /\ PostAsMeant(p)

StoredAsMeant ==
  /\ stored = [n \in Collections |-> stored[n]]
  /\ \A n \in Collections :
       stored[n] # Absent => RulesAsEntered(stored[n].type, stored[n].rules, stored[n].entered)

CreationInv == DraftShape /\ DraftAsMeant /\ PostsAsMeant /\ StoredAsMeant

LEMMA EmptyDraft ==
  ASSUME newMoul' = EmptyMoul, entered' = NothingEntered
  PROVE  DraftShape' /\ DraftAsMeant'
BY DEF DraftShape, DraftAsMeant, AsMeant, EmptyMoul, NothingEntered, BlankRules, RuleTexts

\* What is entered is meant; what was there, stays as it was meant.
LEMMA EnteredAsMeant ==
  ASSUME DraftShape, DraftAsMeant, NEW rules \in [RuleNames -> RuleTexts], EnterRules(rules)
  PROVE  DraftShape' /\ DraftAsMeant'
<1>1. /\ newMoul'.type = newMoul.type /\ newMoul'.rules = rules /\ DraftShape'
  BY DEF EnterRules, DraftShape
<1>2. ASSUME NEW r \in RuleNames
      PROVE  AsMeant(r, newMoul'.rules[r], newMoul'.type, entered'[r])
  <2>1. CASE rules[r] = newMoul.rules[r]
    <3>1. entered'[r] = entered[r]
      BY <2>1 DEF EnterRules
    <3> QED
      BY <1>1, <2>1, <3>1 DEF DraftAsMeant
  <2>2. CASE rules[r] # newMoul.rules[r]
    <3>1. entered'[r] = [rule |-> rules[r], type |-> newMoul.type]
      BY <2>2 DEF EnterRules
    <3>2. rules[r] \in RuleTexts
      OBVIOUS
    <3> QED
      BY <1>1, <3>1, <3>2 DEF AsMeant
  <2> QED
    BY <2>1, <2>2
<1> QED
  BY <1>1, <1>2 DEF DraftAsMeant, AsMeant

LEMMA TypeChosenAsMeant ==
  ASSUME DraftShape, DraftAsMeant, NEW type \in {"base", "auth"}, ChooseType(type)
  PROVE  DraftShape' /\ DraftAsMeant'
<1> DEFINE rules == RulesOfType(newMoul.rules, type)
<1>1. newMoul' = [newMoul EXCEPT !.type = type, !.rules = rules] /\ UNCHANGED entered
  BY DEF ChooseType
<1>2. ASSUME NEW r \in RuleNames
      PROVE  rules[r] \in RuleTexts /\ AsMeant(r, rules[r], type, entered[r])
  <2>1. newMoul.rules[r] \in RuleTexts /\ AsMeant(r, newMoul.rules[r], newMoul.type, entered[r])
    BY DEF DraftShape, DraftAsMeant
  <2> QED
    BY <2>1 DEF RulesOfType, AsMeant, RuleTexts
<1>3. rules \in [RuleNames -> RuleTexts]
  BY <1>2 DEF RulesOfType
<1> HIDE DEF rules
<1>4. newMoul'.type = type /\ newMoul'.rules = rules /\ DraftShape'
  BY <1>1, <1>3 DEF DraftShape
<1> QED
  BY <1>1, <1>2, <1>4 DEF DraftAsMeant, AsMeant

LEMMA DraftStays ==
  ASSUME DraftShape, DraftAsMeant, UNCHANGED entered,
         NEW name, NEW fields, NEW error,
         newMoul' = [newMoul EXCEPT !.name = name, !.fields = fields]
           \/ newMoul' = [newMoul EXCEPT !.error = error] \/ UNCHANGED newMoul
  PROVE  DraftShape' /\ DraftAsMeant'
<1>1. DraftShape' /\ newMoul'.type = newMoul.type /\ newMoul'.rules = newMoul.rules
  BY DEF DraftShape
<1> QED
  BY <1>1 DEF DraftAsMeant, AsMeant

\* An answer, or a request that ends.
LEMMA PostsStay ==
  ASSUME PostsAsMeant, NEW p \in posts,
         NEW a, posts' \subseteq posts \cup {[p EXCEPT !.answer = a]}
  PROVE  PostsAsMeant'
<1> DEFINE q == [p EXCEPT !.answer = a]
<1>1. PostShape(p) /\ PostAsMeant(p)
  BY DEF PostsAsMeant
<1>2. /\ PostShape(q) /\ q.kind = p.kind /\ q.rules = p.rules /\ q.type = p.type
      /\ q.entered = p.entered
  BY <1>1 DEF PostShape
<1> HIDE DEF q
<1>3. PostAsMeant(q)
  BY <1>1, <1>2 DEF PostAsMeant
<1>4. \A x \in posts' : PostShape(x) /\ PostAsMeant(x)
  BY <1>2, <1>3 DEF PostsAsMeant, q
<1> QED
  BY <1>4 DEF PostsAsMeant, PostShape, PostAsMeant, RulesAsEntered, Fits

LEMMA CreateAsMeant ==
  ASSUME DraftShape, DraftAsMeant, PostsAsMeant, HandleCreate
  PROVE  PostsAsMeant'
<1> DEFINE rules == Defaulted(newMoul.type, newMoul.rules)
           q == [kind |-> "create", name |-> newMoul.name, type |-> newMoul.type,
                 rules |-> rules, entered |-> entered, answer |-> "none"]
<1>1. \A x \in posts' : x \in posts \/ x = q
  BY DEF HandleCreate
<1>2. ASSUME NEW r \in RuleNames
      PROVE  Fits(r, rules[r], newMoul.type, entered[r])
  <2>1. newMoul.rules[r] \in RuleTexts /\ AsMeant(r, newMoul.rules[r], newMoul.type, entered[r])
    BY DEF DraftShape, DraftAsMeant
  <2> QED
    BY <2>1 DEF Defaulted, AsMeant, Fits, RuleTexts, DraftShape
<1> HIDE DEF rules
<1>3. PostShape(q) /\ PostAsMeant(q)
  BY <1>2 DEF PostShape, PostAsMeant, RulesAsEntered, DraftShape
<1>4. \A x \in posts' : PostShape(x) /\ PostAsMeant(x)
  BY <1>1, <1>3 DEF PostsAsMeant
<1> QED
  BY <1>4 DEF PostsAsMeant, PostShape, PostAsMeant, RulesAsEntered, Fits

\* The server's defaults find nothing left to do.
LEMMA DefaultedFits ==
  ASSUME NEW type, NEW rules, NEW asEntered, RulesAsEntered(type, rules, asEntered),
         type \in {"base", "auth"}
  PROVE  RulesAsEntered(type, Defaulted(type, rules), asEntered)
BY DEF RulesAsEntered, Fits, Defaulted, Guarded

LEMMA StoredStays ==
  ASSUME StoredAsMeant, NEW n, NEW c,
         c # Absent => RulesAsEntered(c.type, c.rules, c.entered),
         stored' = [stored EXCEPT ![n] = c]
  PROVE  StoredAsMeant'
<1>1. PICK s : s = stored'
  OBVIOUS
<1>2. s = [m \in Collections |-> s[m]] /\ \A m \in Collections : s[m] = c \/ s[m] = stored[m]
  BY <1>1 DEF StoredAsMeant
<1>3. \A m \in Collections : s[m] # Absent => RulesAsEntered(s[m].type, s[m].rules, s[m].entered)
  BY <1>2 DEF StoredAsMeant
<1> QED
  BY <1>1, <1>2, <1>3 DEF StoredAsMeant

LEMMA CarriedAsMeant ==
  ASSUME PostsAsMeant, StoredAsMeant, NEW p \in posts, CarryPost(p)
  PROVE  StoredAsMeant'
<1>1. PostShape(p) /\ PostAsMeant(p)
  BY DEF PostsAsMeant
<1>2. CASE UNCHANGED stored
  BY <1>2 DEF StoredAsMeant
<1>3. PICK c : c = Collection(p.type, Defaulted(p.type, p.rules), p.entered)
  OBVIOUS
<1>4. p.kind = "create" => RulesAsEntered(c.type, c.rules, c.entered)
  BY <1>1, <1>3, DefaultedFits DEF PostShape, PostAsMeant, Collection
<1>5. CASE p.kind = "create" /\ stored' = [stored EXCEPT ![p.name] = c]
  BY <1>4, <1>5, StoredStays
<1>6. CASE stored' = [stored EXCEPT ![p.name] = Absent]
  BY <1>6, StoredStays
<1> QED
  BY <1>2, <1>3, <1>5, <1>6 DEF CarryPost

\* A collection is created with the rules that were entered last, whatever its type was
\* meanwhile, in what is sent and in what is then stored; a rule that is blank in an
\* "auth" collection, even by the preset "Public", is the owner's, and the owner's rule
\* of a "base" collection is dropped when its type has been "auth" in between
\* (routes/_auth/collections/index.tsx, RulesEditor.tsx, handlers/moul.go).
THEOREM AlwaysCreatedAsChosen == CollectionsSpec => []CreatedAsChosen
<1>1. CollectionsInit => CreationInv
  <2> SUFFICES ASSUME CollectionsInit PROVE CreationInv
    OBVIOUS
  <2>1. posts = {} /\ newMoul = EmptyMoul /\ entered = NothingEntered
    BY DEF CollectionsInit
  <2> QED
    BY <2>1 DEF CollectionsInit, CreationInv, PostsAsMeant, DraftShape, DraftAsMeant, AsMeant,
                EmptyMoul, NothingEntered, BlankRules, RuleTexts, StoredAsMeant
<1>2. CreationInv /\ [CollectionsNext]_collectionsVars => CreationInv'
  <2> SUFFICES ASSUME CreationInv, [CollectionsNext]_collectionsVars
               PROVE  CreationInv'
    OBVIOUS
  <2> USE DEF CreationInv
  <2>1. ASSUME UNCHANGED <<newMoul, entered>> PROVE DraftShape' /\ DraftAsMeant'
    BY <2>1, DraftStays
  <2>2. ASSUME UNCHANGED posts PROVE PostsAsMeant'
    BY <2>2 DEF PostsAsMeant, PostShape, PostAsMeant, RulesAsEntered, Fits
  <2>3. ASSUME UNCHANGED stored PROVE StoredAsMeant'
    BY <2>3 DEF StoredAsMeant
  <2>4. CASE OpenNewCollection
    BY <2>1, <2>2, <2>3, <2>4, EmptyDraft DEF OpenNewCollection
  <2>5. CASE CloseNewCollection
    BY <2>1, <2>2, <2>3, <2>5 DEF CloseNewCollection
  <2>6. CASE HandleCreate
    <3>1. /\ UNCHANGED <<entered, stored>>
          /\ \E e \in BOOLEAN : newMoul' = [newMoul EXCEPT !.error = e]
      BY <2>6 DEF HandleCreate
    <3> QED
      BY <2>3, <2>6, <3>1, DraftStays, CreateAsMeant
  <2>7. ASSUME NEW name \in Collections, NEW fields \in {"fit", "reserved"},
               FillIn(name, fields)
        PROVE  CreationInv'
    BY <2>2, <2>3, <2>7, DraftStays DEF FillIn
  <2>8. ASSUME NEW type \in {"base", "auth"}, ChooseType(type)
        PROVE  CreationInv'
    BY <2>2, <2>3, <2>8, TypeChosenAsMeant DEF ChooseType
  <2>9. ASSUME NEW r \in RuleNames, NEW rule \in RuleTexts, HandleRuleChange(r, rule)
        PROVE  CreationInv'
    <3>1. [newMoul.rules EXCEPT ![r] = rule] \in [RuleNames -> RuleTexts]
      BY DEF DraftShape
    <3>2. EnterRules([newMoul.rules EXCEPT ![r] = rule])
      BY <2>9 DEF HandleRuleChange
    <3>3. UNCHANGED <<posts, stored>>
      BY <3>2 DEF EnterRules
    <3> QED
      BY <2>2, <2>3, <3>1, <3>2, <3>3, EnteredAsMeant
  <2>10. ASSUME NEW preset \in {"public", "owner", "admin"}, ApplyPresetToAll(preset)
        PROVE  CreationInv'
    <3>1. Preset(preset) \in [RuleNames -> RuleTexts]
      BY DEF Preset, RuleTexts
    <3>2. EnterRules(Preset(preset))
      BY <2>10 DEF ApplyPresetToAll
    <3>3. UNCHANGED <<posts, stored>>
      BY <3>2 DEF EnterRules
    <3> QED
      BY <2>2, <2>3, <3>1, <3>2, <3>3, EnteredAsMeant
  <2>11. ASSUME NEW name \in Collections, AskDropCollection(name) \/ OtherAdmin(name)
         PROVE  CreationInv'
    <3>1. UNCHANGED <<newMoul, entered, posts>>
      BY <2>11 DEF AskDropCollection, OtherAdmin
    <3>2. PICK c : c = Collection("base", BlankRules, NothingEntered)
      OBVIOUS
    <3>3. RulesAsEntered(c.type, c.rules, c.entered)
      BY <3>2 DEF RulesAsEntered, Fits, Collection, BlankRules, NothingEntered
    <3>4. CASE UNCHANGED stored
      BY <2>1, <2>2, <2>3, <3>1, <3>4
    <3>5. CASE \E d \in {c, Absent} : stored' = [stored EXCEPT ![name] = d]
      BY <2>1, <2>2, <3>1, <3>3, <3>5, StoredStays
    <3> QED
      BY <2>11, <3>2, <3>4, <3>5 DEF AskDropCollection, OtherAdmin
  <2>12. CASE ConfirmDropCollection
    <3> DEFINE q == [kind |-> "delete", name |-> toDrop, type |-> "none",
                     rules |-> BlankRules, entered |-> NothingEntered, answer |-> "none"]
    <3>1. UNCHANGED <<newMoul, entered, stored>> /\ posts' = posts \cup {q}
      BY <2>12 DEF ConfirmDropCollection
    <3>2. PostShape(q) /\ PostAsMeant(q)
      BY DEF PostShape, PostAsMeant
    <3>3. \A x \in posts' : PostShape(x) /\ PostAsMeant(x)
      BY <3>1, <3>2 DEF PostsAsMeant
    <3>4. PostsAsMeant'
      BY <3>3 DEF PostsAsMeant, PostShape, PostAsMeant, RulesAsEntered, Fits
    <3> QED
      BY <2>1, <2>3, <3>1, <3>4
  <2>13. ASSUME NEW p \in posts, CarryPost(p) \/ LosePost(p)
         PROVE  CreationInv'
    <3>1. \E a : posts' \subseteq posts \cup {[p EXCEPT !.answer = a]}
      BY <2>13 DEF CarryPost, LosePost
    <3>2. UNCHANGED <<newMoul, entered>>
      BY <2>13 DEF CarryPost, LosePost
    <3>3. StoredAsMeant'
      BY <2>3, <2>13, CarriedAsMeant DEF LosePost
    <3> QED
      BY <2>1, <3>1, <3>2, <3>3, PostsStay
  <2>14. ASSUME NEW p \in posts, CollectionCreated(p) \/ CollectionDeleted(p) \/ CreationFailed(p)
         PROVE  CreationInv'
    <3>1. posts' \subseteq posts \cup {[p EXCEPT !.answer = "ok"]}
      BY <2>14 DEF CollectionCreated, CollectionDeleted, CreationFailed
    <3>2. PostsAsMeant' /\ StoredAsMeant'
      BY <2>3, <2>14, <3>1, PostsStay
         DEF CollectionCreated, CollectionDeleted, CreationFailed
    <3>3. CASE CollectionCreated(p)
      BY <3>2, <3>3, EmptyDraft DEF CollectionCreated
    <3>4. CASE CollectionDeleted(p)
      BY <2>1, <3>2, <3>4 DEF CollectionDeleted
    <3>5. CASE CreationFailed(p)
      BY <3>2, <3>5, DraftStays DEF CreationFailed
    <3> QED
      BY <2>14, <3>3, <3>4, <3>5
  <2>15. CASE DismissDropCollection \/ ListMouls \/ MoulsListed \/ UNCHANGED collectionsVars
    <3>1. UNCHANGED <<newMoul, entered, posts, stored>>
      BY <2>15 DEF DismissDropCollection, ListMouls, MoulsListed, collectionsVars
    <3> QED
      BY <2>1, <2>2, <2>3, <3>1
  <2> QED
    BY <2>4, <2>5, <2>6, <2>7, <2>8, <2>9, <2>10, <2>11, <2>12, <2>13, <2>14, <2>15
       DEF CollectionsNext, RuleTexts
<1>3. CreationInv => CreatedAsChosen
  BY DEF CreationInv, PostsAsMeant, PostAsMeant, StoredAsMeant, RulesAsEntered, CreatedAsChosen
<1> QED
  BY <1>1, <1>2, <1>3, PTL DEF CollectionsSpec

-----------------------------------------------------------------------------
(***************************************************************************)
(* Proof that the forms agree with the server, for any definitions of      *)
(* fields, limits, texts, passwords, names and schemas.  An entry is       *)
(* submitted once, so the invariant only says what the verdict was; the    *)
(* agreement of the two sides is the lemmas, one for each kind of entry.   *)
(***************************************************************************)

FormInv ==
  /\ entry \in FormEntries
  /\ \/ verdict = "entered"
     \/ verdict = "refused by the form" /\ RefusedByForm
     \/ verdict = "refused" /\ ~RefusedByForm /\ RefusedByServer
     \/ verdict = "stored" /\ ~RefusedByForm /\ ~RefusedByServer

\* The kinds of value an input holds.
LEMMA ValueShapes ==
  ASSUME NEW field \in Definitions, NEW val \in Enterable(field)
  PROVE  \/ val = NoEntry
         \/ field.type = "number" /\ val \in NumberEntries
         \/ field.type = "bool" /\ val \in BooleanEntries
         \/ field.type = "file" /\ val = [shape |-> "object", size |-> 1]
         \/ field.type = "json" /\ val \in ObjectEntries
         \/ field.type = "relation" /\ val \in ListEntries /\ field.target = "M:N"
         \/ field.type \notin {"number", "bool", "file"} /\ val \in PossibleTexts
BY DEF Enterable, Definitions, FieldTypes

LEMMA NothingAgrees ==
  ASSUME NEW field \in Definitions, NEW o, ~FormRefuses(field, NoEntry)
  PROVE  ~ServerRefuses(field, Cleaned(field, NoEntry), o)
<1>1. IsBlank(NoEntry) /\ NoEntry.shape # "text"
  BY DEF IsBlank, NoEntry
<1>2. Cleaned(field, NoEntry) = NoEntry
  BY <1>1 DEF Cleaned
<1> QED
  BY <1>1, <1>2 DEF FormRefuses, ServerRefuses, BreaksConstraints, BreaksConversion, IsEmpty,
                    Lacking

LEMMA NumbersAgree ==
  ASSUME NEW field \in Definitions, field.type = "number", NEW val \in NumberEntries,
         ~FormRefuses(field, val)
  PROVE  ~ServerRefuses(field, Cleaned(field, val), "none")
<1>1. PICK n \in 0..MaxChars : val = [shape |-> "number", size |-> n]
  BY DEF NumberEntries
<1>2. val.shape = "number" /\ val.size = n /\ ~IsBlank(val)
  BY <1>1 DEF IsBlank, NoEntry
<1>3. Cleaned(field, val) = val
  BY <1>1, <1>2 DEF Cleaned, NumberOf
<1> QED
  BY <1>2, <1>3 DEF FormRefuses, Malformed, ServerRefuses, BreaksConstraints,
                    BreaksConversion, NumberOf

LEMMA BooleansListsAndObjectsAgree ==
  ASSUME NEW field \in Definitions, NEW val,
         \/ field.type = "bool" /\ val \in BooleanEntries
         \/ field.type = "file" /\ val = [shape |-> "object", size |-> 1]
         \/ field.type = "json" /\ val \in ObjectEntries
         \/ field.type = "relation" /\ val \in ListEntries /\ field.target = "M:N"
  PROVE  ~ServerRefuses(field, Cleaned(field, val), "none")
<1>1. PICK s \in {"bool", "object", "list"}, n \in 0..1 : val = [shape |-> s, size |-> n]
  BY DEF BooleanEntries, ObjectEntries, ListEntries
<1>2. /\ val.shape = s /\ val.size = n /\ val.shape # "text" /\ ~IsBlank(val)
      /\ field.type = "bool" => s = "bool"
      /\ field.type = "file" => s = "object" /\ n = 1
      /\ field.type = "relation" => s = "list" /\ field.target = "M:N"
  BY <1>1 DEF IsBlank, NoEntry, BooleanEntries, ObjectEntries, ListEntries
<1>3. Cleaned(field, val) = val
  BY <1>2 DEF Cleaned
<1> QED
  BY <1>2, <1>3 DEF ServerRefuses, BreaksConstraints, BreaksConversion

LEMMA PossibleText ==
  ASSUME NEW val \in PossibleTexts
  PROVE  /\ val.shape = "text" /\ val.is \in FormatSets /\ val # NoEntry
         /\ val.chars \in Nat /\ val.trimmed \in Nat /\ val.trimmed <= val.chars
         /\ val = [shape |-> "text", chars |-> val.chars, trimmed |-> val.trimmed, is |-> val.is]
         /\ val.trimmed = 0 => val.is = {}
<1>1. PICK c \in 0..MaxChars, t \in 0..MaxChars, is \in FormatSets :
        val = [shape |-> "text", chars |-> c, trimmed |-> t, is |-> is] /\ t <= c
          /\ (t = 0 => is = {})
  BY DEF PossibleTexts, Texts
<1>2. c \in Nat /\ t \in Nat
  BY FieldFormAssumption DEF FieldFormAssumption
<1> QED
  BY <1>1, <1>2 DEF NoEntry

LEMMA TrimmedText ==
  ASSUME NEW c, NEW t, NEW is, NEW val,
         val = [shape |-> "text", chars |-> c, trimmed |-> t, is |-> is]
  PROVE  Trimmed(val) = [shape |-> "text", chars |-> t, trimmed |-> t,
                         is |-> IF t < c THEN is \ {"option"} ELSE is]
<1>1. val.chars = c /\ val.trimmed = t /\ val.is = is
  OBVIOUS
<1>2. Trimmed(val) = [val EXCEPT !.chars = t, !.is = IF t < c THEN is \ {"option"} ELSE is]
  BY <1>1 DEF Trimmed
<1> QED
  BY <1>2

\* What cleaning leaves of a text that is not JSON.
LEMMA CleanedText ==
  ASSUME NEW field \in Definitions, field.type \notin {"number", "json"},
         NEW val \in PossibleTexts
  PROVE  LET sent == Cleaned(field, val) IN
         /\ sent.shape = "text" /\ sent.trimmed = val.trimmed /\ sent # NoEntry
         /\ IsBlank(sent) <=> val.trimmed = 0
         /\ IsBlank(val) <=> val.trimmed = 0
         /\ sent.chars = IF field.type = "datetime" /\ val.trimmed = 0 THEN val.chars
                         ELSE val.trimmed
         /\ \A f \in Formats \ {"option", "goDatetime", "local"} : f \in sent.is <=> f \in val.is
         /\ val.trimmed = val.chars => ("option" \in sent.is <=> "option" \in val.is)
         /\ field.type = "datetime" =>
              ("goDatetime" \in sent.is <=> val.is \cap {"goDatetime", "local"} # {})
<1> DEFINE c == val.chars  t == val.trimmed  is == val.is
           sent == Cleaned(field, val)
           as == IF t < c THEN is \ {"option"} ELSE is
           of == IF "local" \in as THEN (as \cup {"goDatetime"}) \ {"local"} ELSE as
<1>1. /\ val = [shape |-> "text", chars |-> c, trimmed |-> t, is |-> is]
      /\ c \in Nat /\ t \in Nat /\ t <= c /\ (t = 0 => is = {})
      /\ val.shape = "text" /\ val # NoEntry
  BY PossibleText
<1>2. Trimmed(val) = [shape |-> "text", chars |-> t, trimmed |-> t, is |-> as]
  BY <1>1, TrimmedText
<1>3. IsBlank(val) <=> t = 0
  BY <1>1 DEF IsBlank
<1>4. CASE field.type = "datetime" /\ t = 0
  <2>1. sent = val
    BY <1>1, <1>3, <1>4 DEF Cleaned
  <2> HIDE DEF sent
  <2>2. is = {}
    BY <1>1, <1>4
  <2> QED
    BY <1>1, <1>3, <1>4, <2>1, <2>2 DEF sent
<1>5. CASE field.type = "datetime" /\ t # 0
  <2>1. sent = [Trimmed(val) EXCEPT !.is = of]
    BY <1>1, <1>2, <1>3, <1>5 DEF Cleaned
  <2> HIDE DEF sent
  <2>2. /\ sent.shape = "text" /\ sent.chars = t /\ sent.trimmed = t /\ sent.is = of
        /\ sent # NoEntry
    BY <1>2, <2>1 DEF NoEntry
  <2>3. IsBlank(sent) <=> t = 0
    BY <2>2 DEF IsBlank
  <2> QED
    BY <1>1, <1>3, <1>5, <2>2, <2>3 DEF sent
<1>6. CASE field.type # "datetime"
  <2>1. sent = Trimmed(val)
    BY <1>1, <1>6 DEF Cleaned
  <2> HIDE DEF sent
  <2>2. /\ sent.shape = "text" /\ sent.chars = t /\ sent.trimmed = t /\ sent.is = as
        /\ sent # NoEntry
    BY <1>2, <2>1 DEF NoEntry
  <2>3. IsBlank(sent) <=> t = 0
    BY <2>2 DEF IsBlank
  <2> QED
    BY <1>1, <1>3, <1>6, <2>2, <2>3 DEF sent
<1> QED
  BY <1>4, <1>5, <1>6

\* JSON texts: what they parse to, or else as they are.
LEMMA JsonTextsAgree ==
  ASSUME NEW field \in Definitions, field.type = "json", NEW val \in PossibleTexts,
         ~FormRefuses(field, val), ServerRefuses(field, Cleaned(field, val), "none")
  PROVE  \/ val.trimmed = 0 /\ val.chars > 0
         \/ "toText" \in val.is
         \/ field.required /\ val.is \cap {"toNull", "toEmpty"} # {}
<1> DEFINE sent == Cleaned(field, val)
<1>1. /\ val = [shape |-> "text", chars |-> val.chars, trimmed |-> val.trimmed, is |-> val.is]
      /\ val.chars \in Nat /\ val.trimmed \in Nat /\ val.trimmed <= val.chars
      /\ val.shape = "text" /\ val # NoEntry /\ (val.trimmed = 0 => val.is = {})
  BY PossibleText
<1>2. IsBlank(val) <=> val.trimmed = 0
  BY <1>1 DEF IsBlank
<1>3. BreaksConstraints(field, sent)
  BY <1>1 DEF ServerRefuses, BreaksConversion
<1>4. ~(field.required /\ IsBlank(val)) /\ (val.trimmed = 0 \/ "json" \in val.is)
  BY <1>1, <1>2 DEF FormRefuses, Lacking, Malformed
<1>5. sent = IF "json" \in val.is THEN Parsed(val) ELSE val
  BY <1>1 DEF Cleaned, Is
<1>0. \A g, h \in val.is \cap {"toNull", "toEmpty", "toText", "toJson"} : g = h
  BY PossibleText, FieldFormAssumption DEF FieldFormAssumption
<1> HIDE DEF sent
<1>6. CASE "json" \notin val.is
  BY <1>1, <1>2, <1>3, <1>4, <1>5, <1>6 DEF BreaksConstraints
<1>7. CASE "json" \in val.is /\ "toNull" \in val.is
  <2>1. sent = NoEntry
    BY <1>0, <1>1, <1>5, <1>7 DEF Parsed, Is
  <2> QED
    BY <1>3, <1>7, <2>1 DEF BreaksConstraints
<1>8. CASE "json" \in val.is /\ "toNull" \notin val.is /\ "toEmpty" \in val.is
  <2>1. sent = [val EXCEPT !.chars = 0, !.trimmed = 0, !.is = {}]
    BY <1>0, <1>1, <1>5, <1>8 DEF Parsed, Is
  <2>2. sent.shape = "text" /\ sent.chars = 0
    BY <1>1, <2>1
  <2> QED
    BY <1>3, <1>8, <2>2 DEF BreaksConstraints
<1>9. CASE "json" \in val.is /\ val.is \cap {"toNull", "toEmpty", "toText"} = {}
  <2>1. CASE "toJson" \in val.is
    <3>1. sent = [val EXCEPT !.is = {"json"}]
      BY <1>0, <1>1, <1>5, <1>9, <2>1 DEF Parsed, Is
    <3>2. /\ sent.shape = "text" /\ sent.trimmed = val.trimmed /\ "json" \in sent.is
          /\ sent # NoEntry
      BY <1>1, <3>1 DEF NoEntry
    <3>3. IsBlank(sent) <=> val.trimmed = 0
      BY <3>2 DEF IsBlank
    <3> QED
      BY <1>1, <1>2, <1>3, <1>4, <1>9, <3>2, <3>3 DEF BreaksConstraints
  <2>2. CASE "toJson" \notin val.is
    <3>1. sent = [shape |-> "object", size |-> 1]
      BY <1>1, <1>5, <1>9, <2>2 DEF Parsed, Is
    <3>2. sent.shape = "object" /\ sent # NoEntry
      BY <3>1 DEF NoEntry
    <3> QED
      BY <1>1, <1>3, <3>2 DEF BreaksConstraints, IsBlank
  <2> QED
    BY <2>1, <2>2
<1> QED
  BY <1>6, <1>7, <1>8, <1>9

LEMMA TextsAgree ==
  ASSUME NEW field \in Definitions, field.type \notin {"number", "bool", "file", "json"},
         NEW val \in PossibleTexts,
         ~FormRefuses(field, val), ServerRefuses(field, Cleaned(field, val), "none")
  PROVE  \/ /\ field.type = "text" /\ Below(field, val.trimmed)
            /\ val.trimmed < val.chars \/ val.trimmed = 0
         \/ field.type = "text" /\ Above(field, 0) /\ val.trimmed = 0
         \/ field.type = "datetime" /\ val.trimmed = 0 /\ val.chars > 0
         \/ field.type = "url" /\ "goUrl" \notin val.is
         \/ field.type = "datetime" /\ val.is \cap {"goDatetime", "local"} = {}
         \/ field.type = "select" /\ (field.options = 0 \/ val.trimmed < val.chars)
         \/ field.type = "relation" /\ field.target = "none"
<1> DEFINE sent == Cleaned(field, val)
<1>1. /\ sent.shape = "text" /\ sent.trimmed = val.trimmed /\ sent # NoEntry
      /\ IsBlank(sent) <=> val.trimmed = 0
      /\ IsBlank(val) <=> val.trimmed = 0
      /\ sent.chars = IF field.type = "datetime" /\ val.trimmed = 0 THEN val.chars
                      ELSE val.trimmed
      /\ \A f \in Formats \ {"option", "goDatetime", "local"} : f \in sent.is <=> f \in val.is
      /\ val.trimmed = val.chars => ("option" \in sent.is <=> "option" \in val.is)
      /\ field.type = "datetime" =>
           ("goDatetime" \in sent.is <=> val.is \cap {"goDatetime", "local"} # {})
  BY CleanedText
<1>0. /\ val.shape = "text" /\ val.is \in FormatSets
      /\ val.chars \in Nat /\ val.trimmed \in Nat /\ val.trimmed <= val.chars
  BY PossibleText
<1> HIDE DEF sent
<1>2. BreaksConstraints(field, sent) \/ BreaksConversion(field, sent, "none")
  BY DEF sent, ServerRefuses
<1>3. ~(field.required /\ IsBlank(sent))
  BY <1>1 DEF FormRefuses, Lacking
<1>4. field.min \in Int /\ field.max \in Int /\ field.options \in Nat
      /\ field.target \in {"none", "1:1", "1:N", "M:N"}
  BY DEF Definitions
<1>5. val.trimmed = 0 \/ ~Malformed(field, val)
  BY <1>1 DEF FormRefuses
<1>6. CASE field.type = "text"
  <2>1. sent.chars = val.trimmed /\ (Below(field, val.trimmed) \/ Above(field, val.trimmed))
    BY <1>1, <1>2, <1>3, <1>6 DEF BreaksConstraints, BreaksConversion
  <2>2. CASE val.trimmed = 0
    BY <1>6, <2>1, <2>2
  <2>3. CASE val.trimmed # 0
    <3>1. ~Below(field, val.chars) /\ ~Above(field, val.chars)
      BY <1>0, <1>5, <1>6, <2>3 DEF Malformed
    <3>2. ~Above(field, val.trimmed)
      BY <1>0, <1>4, <3>1 DEF Above
    <3>3. val.trimmed # val.chars
      BY <2>1, <3>1, <3>2
    <3> QED
      BY <1>0, <1>6, <2>1, <3>2, <3>3
  <2> QED
    BY <2>2, <2>3
<1>7. CASE field.type \in {"date", "email", "url", "datetime"}
  <2>1. "email" \in val.is => "looseEmail" \in val.is
    BY <1>0, FieldFormAssumption DEF FieldFormAssumption
  <2>2. \A f \in {"date", "looseEmail", "goUrl"} : f \in sent.is <=> f \in val.is
    BY <1>1 DEF Formats
  <2>3. BreaksConstraints(field, sent)
    BY <1>2, <1>7 DEF BreaksConversion
  <2>4. val.trimmed = 0 \/ field.type \in val.is
    BY <1>0, <1>5, <1>7 DEF Malformed
  <2>5. CASE val.trimmed = 0 /\ field.type # "datetime"
    BY <1>1, <1>3, <1>7, <2>3, <2>5 DEF BreaksConstraints
  <2>6. CASE val.trimmed = 0 /\ field.type = "datetime"
    BY <1>0, <1>1, <1>3, <1>7, <2>3, <2>6 DEF BreaksConstraints
  <2>7. CASE val.trimmed # 0
    BY <1>1, <1>3, <1>7, <2>1, <2>2, <2>3, <2>4, <2>7 DEF BreaksConstraints
  <2> QED
    BY <2>5, <2>6, <2>7
<1>8. CASE field.type = "select"
  <2> SUFFICES ASSUME field.options > 0, val.trimmed = val.chars
               PROVE  FALSE
    BY <1>0, <1>4, <1>8
  <2>1. sent.chars = val.trimmed /\ (sent.chars > 0 => "option" \in sent.is)
    BY <1>0, <1>1, <1>5, <1>8 DEF Malformed, Is
  <2> QED
    BY <1>1, <1>2, <1>3, <1>8, <2>1 DEF BreaksConstraints, BreaksConversion
<1>9. CASE field.type \in {"editor", "cloak", "relation"}
  BY <1>1, <1>2, <1>3, <1>4, <1>9 DEF BreaksConstraints, BreaksConversion
<1> QED
  BY <1>6, <1>7, <1>8, <1>9 DEF Definitions, FieldTypes

\* What the entries are, by their fields.
LEMMA KindsOfEntries ==
  ASSUME entry \in FormEntries
  PROVE  /\ IsValue => entry.field \in Definitions /\ entry.val \in Enterable(entry.field)
         /\ IsCredentials => ~IsValue /\ entry.credentials \in Credentials
         /\ "schema" \in DOMAIN entry =>
              ~IsValue /\ ~IsCredentials /\ entry.schema \in Schemas
<1>1. CASE \E f \in EnteredFields :
        entry \in [field : {f}, val : Enterable(f), obstacle : Obstacles(f)]
  BY <1>1, FieldFormAssumption DEF FieldFormAssumption, IsValue, IsCredentials
<1>2. CASE entry \in [credentials : Credentials]
  BY <1>2 DEF IsValue, IsCredentials
<1>3. CASE entry \in [schema : Schemas, type : {"base", "auth"}, cloak : BOOLEAN]
  BY <1>3 DEF IsValue, IsCredentials
<1> QED
  BY <1>1, <1>2, <1>3 DEF FormEntries

LEMMA InvValues == ASSUME FormInv PROVE ValuesAgree
<1> SUFFICES ASSUME IsValue, verdict = "refused", entry.obstacle = "none" PROVE ValuesAgree
  BY DEF ValuesAgree
<1> DEFINE f == entry.field  v == entry.val
<1>1. f \in Definitions /\ v \in Enterable(f)
  BY KindsOfEntries DEF FormInv
<1>2. ~FormRefuses(f, v) /\ ServerRefuses(f, Cleaned(f, v), "none")
  BY KindsOfEntries DEF FormInv, RefusedByForm, RefusedByServer
<1> HIDE DEF f, v
<1>3. f.type \notin {"number", "bool", "file"} /\ v \in PossibleTexts
  BY <1>1, <1>2, ValueShapes, NothingAgrees, NumbersAgree, BooleansListsAndObjectsAgree
<1>4. CASE f.type = "json"
  BY <1>1, <1>2, <1>3, <1>4, JsonTextsAgree DEF ValuesAgree, f, v
<1>5. CASE f.type # "json"
  BY <1>1, <1>2, <1>3, <1>5, TextsAgree DEF ValuesAgree, f, v
<1> QED
  BY <1>4, <1>5

LEMMA InvLimits == ASSUME FormInv PROVE LimitsAgree
<1> DEFINE f == entry.field  v == entry.val
<1> SUFFICES ASSUME IsValue, verdict # "entered", f.type = "text", v.shape = "text",
                    v.chars = v.trimmed, v.chars > 0, entry.obstacle = "none"
             PROVE  verdict = "stored" <=> ~Below(f, v.chars) /\ ~Above(f, v.chars)
  BY DEF LimitsAgree
<1>1. f \in Definitions /\ v \in Enterable(f)
  BY KindsOfEntries DEF FormInv
<1>2. /\ verdict = "stored" \/ verdict = "refused" \/ verdict = "refused by the form"
      /\ verdict = "refused by the form" => FormRefuses(f, v)
      /\ verdict # "refused by the form" => ~FormRefuses(f, v)
      /\ verdict = "refused" => ServerRefuses(f, Cleaned(f, v), "none")
      /\ verdict = "stored" => ~ServerRefuses(f, Cleaned(f, v), "none")
  BY KindsOfEntries DEF FormInv, RefusedByForm, RefusedByServer
<1> HIDE DEF f, v
<1>3. v # NoEntry
  BY DEF NoEntry
<1>4. v \in PossibleTexts
  BY <1>1, <1>3, ValueShapes
<1>5. ~IsBlank(v) /\ Cleaned(f, v).shape = "text" /\ Cleaned(f, v).chars = v.chars
      /\ ~IsBlank(Cleaned(f, v))
  BY <1>1, <1>4, CleanedText
<1>6. FormRefuses(f, v) <=> Below(f, v.chars) \/ Above(f, v.chars)
  BY <1>5 DEF FormRefuses, Lacking, Malformed
<1>7. ServerRefuses(f, Cleaned(f, v), "none") <=> Below(f, v.chars) \/ Above(f, v.chars)
  BY <1>5 DEF ServerRefuses, BreaksConstraints, BreaksConversion, IsBlank
<1> QED
  BY <1>2, <1>6, <1>7

LEMMA InvCredentials == ASSUME FormInv PROVE CredentialsAgree
<1> SUFFICES ASSUME IsCredentials, verdict = "refused" PROVE CredentialsAgree
  BY DEF CredentialsAgree
<1> DEFINE c == entry.credentials
<1>1. c \in Credentials /\ ~IsValue
  BY KindsOfEntries DEF FormInv
<1>2. CredentialErrors(c) = {} /\ ServerRefusesCredentials(c)
  BY <1>1 DEF FormInv, RefusedByForm, RefusedByServer
<1> HIDE DEF c
<1>3. /\ ~(IF c.username = 0 THEN c.create ELSE c.username < 3)
      /\ ~(IF c.email = "none" THEN c.create ELSE c.email = "odd")
      /\ ~((c.create \/ c.password # NoPassword) /\ c.password.length < 8)
      /\ ~(IF c.create THEN c.confirm = NoPassword \/ c.confirm # c.password
           ELSE c.password # NoPassword /\ c.confirm # NoPassword /\ c.confirm # c.password)
  BY <1>2 DEF CredentialErrors
<1>4. c.password \in Passwords \cup {NoPassword}
  BY <1>1 DEF Credentials
<1>5. c.password.length \in Nat /\ c.password.bytes \in Nat
      /\ c.password.length <= c.password.bytes
  BY <1>4, FieldFormAssumption DEF FieldFormAssumption, NoPassword
<1>6. \/ ~c.password.mixed \/ c.password.bytes > BcryptLimit \/ c.taken
      \/ ~c.create /\ c.confirm = NoPassword
  BY <1>2, <1>3, <1>5 DEF ServerRefusesCredentials
<1> QED
  BY <1>6 DEF CredentialsAgree, c

LEMMA InvSchemas == ASSUME FormInv PROVE SchemasAgree
<1> SUFFICES ASSUME "schema" \in DOMAIN entry, verdict = "refused" PROVE SchemasAgree
  BY DEF SchemasAgree
<1> DEFINE s == entry.schema
<1>1. ~IsValue /\ ~IsCredentials
  BY KindsOfEntries DEF FormInv
<1>2. BadFields(s, entry.type) = {} /\ ServerRefusesSchema(s, entry.type, entry.cloak)
  BY <1>1 DEF FormInv, RefusedByForm, RefusedByServer
<1> HIDE DEF s
<1>3. \A i \in DOMAIN s : ~BadField(s, i, entry.type)
  BY <1>2 DEF BadFields
<1>4. \E i \in DOMAIN s : s[i].type = "editor" \/ (s[i].type = "cloak" /\ ~entry.cloak)
  BY <1>2, <1>3 DEF ServerRefusesSchema, BadField, ReservedHere
<1> QED
  BY <1>4 DEF SchemasAgree, s

LEMMA FormStep ==
  ASSUME FormInv, [FormNext]_formVars
  PROVE  FormInv'
<1>1. CASE FormNext
  BY <1>1 DEF FormInv, FormNext, Submit, RefusedByForm, RefusedByServer, IsValue,
              IsCredentials
<1>2. CASE UNCHANGED formVars
  BY <1>2 DEF FormInv, formVars, RefusedByForm, RefusedByServer, IsValue, IsCredentials
<1> QED
  BY <1>1, <1>2

LEMMA FormsJudged ==
  /\ FormInv => FormsAgree
  /\ verdict = "entered" => FormsAgree
<1>1. FormInv => FormsAgree
  BY InvValues, InvLimits, InvCredentials, InvSchemas DEF FormsAgree
<1>2. verdict = "entered" => FormsAgree
  BY DEF FormsAgree, ValuesAgree, LimitsAgree, CredentialsAgree, SchemasAgree
<1> QED
  BY <1>1, <1>2

\* What the forms take, the server takes, but for the exceptions FormsAgree names:
\* whatever the fields, their limits, the texts and the schemas
\* (utils/fieldValidation.ts beside records.go, moul.go and auth/validation.go).
THEOREM FormsAlwaysAgree == FormSpec => []FormsAgree
<1>1. FormInit => FormInv
  BY DEF FormInit, FormInv
<1> QED
  BY <1>1, FormStep, FormsJudged, PTL DEF FormSpec

-----------------------------------------------------------------------------
(***************************************************************************)
(* Proof that the drawer of the records page keeps what belongs to its     *)
(* record, for any ids, fields, pages and bounds.                          *)
(*                                                                         *)
(* Rows, pages of the list and answers under way hold only a record's own  *)
(* values (OwnedBy); the form, the files and the uploads are another       *)
(* record's only when history says so (crossed).                           *)
(***************************************************************************)

(* What is shown and entered *)

RowShape(w) ==
  /\ w = [values |-> w.values, state |-> w.state]
  /\ w.values = [f \in RecordFields |-> w.values[f]]

OwnedBy(w, i) == \A f \in RecordFields : w.values[f] \in {NoValue, i}

RowsFit(r) ==
  /\ r = [i \in Ids |-> r[i]]
  /\ \A i \in Ids : r[i] \notin {Unused, Deleted} => RowShape(r[i]) /\ OwnedBy(r[i], i)

ListFits(l) ==
  /\ l = [row |-> l.row, misses |-> l.misses]
  /\ \A i \in DOMAIN l.row : i \in Ids /\ RowShape(l.row[i]) /\ OwnedBy(l.row[i], i)

CacheFits(c) ==
  /\ c = [p \in Pages |-> c[p]]
  /\ \A p \in Pages : c[p] = [list |-> c[p].list, fresh |-> c[p].fresh] /\ ListFits(c[p].list)

FetchFits(f) ==
  /\ f = [p \in Pages |-> f[p]]
  /\ \A p \in Pages : f[p] \in {NoFetch, Sent} \/ ListFits(f[p])

TableFits == RowsFit(rows) /\ CacheFits(cache) /\ FetchFits(fetch) /\ pageNr \in Pages

OwnerOf(d) == IF d.creating THEN NewValue ELSE d.id

ErrorsRight(d) ==
  d.open /\ ~d.replaced =>
    \A f \in Typed \cap d.touched : f \in d.errors <=> Invalid(f, d.form.values[f])

DrawerShape(d) ==
  d = [open |-> d.open, creating |-> d.creating, id |-> d.id, row |-> d.row, form |-> d.form,
       errors |-> d.errors, touched |-> d.touched, opening |-> d.opening, task |-> d.task,
       replaced |-> d.replaced, crossed |-> d.crossed]

DrawerFits(d) ==
  /\ DrawerShape(d)
  /\ d.id \in Ids \cup {NoId} /\ (d.creating => d.id = NoId)
  /\ d.open /\ ~d.creating => d.id # NoId
  /\ RowShape(d.row) /\ OwnedBy(d.row, d.id)
  /\ RowShape(d.form) /\ (~d.crossed => OwnedBy(d.form, OwnerOf(d)))
  /\ d.task # "none" => d.form.state = d.task
  /\ ErrorsRight(d)

UploadFits(u) ==
  /\ u.field \in Uploaded /\ RowShape(u.form)
  /\ ~u.crossed => OwnedBy(u.form, u.owner)

Saves == {"create", "update"}

CallFits(c) ==
  /\ c = [kind |-> c.kind, ids |-> c.ids, data |-> c.data, nr |-> c.nr, answer |-> c.answer,
          latest |-> c.latest, again |-> c.again, crossed |-> c.crossed]
  /\ c.ids \subseteq Ids
  /\ RowShape(c.data)
  /\ c.kind = "create" /\ ~c.crossed => OwnedBy(c.data, NewValue)
  /\ c.kind = "update" /\ ~c.crossed =>
       \A f \in RecordFields : c.data.values[f] \in {NoValue} \cup c.ids
  /\ c.kind \in Saves => c.latest

CallsFit(cs) ==
  /\ \A c \in cs : CallFits(c)
  /\ \A c, d \in cs : c.kind \in Saves /\ d.kind \in Saves => c = d

PicksFit == selected \subseteq Ids /\ toDelete \in Ids \cup {NoId}

PageInv ==
  /\ TableFits /\ PicksFit /\ DrawerFits(drawer)
  /\ \A u \in uploads : UploadFits(u)
  /\ CallsFit(calls)

-----------------------------------------------------------------------------
(* Forms *)

LEMMA FormWritten ==
  ASSUME NEW w, RowShape(w), NEW f \in RecordFields, NEW v,
         NEW w2, w2 = [w EXCEPT !.values[f] = v]
  PROVE  /\ RowShape(w2) /\ w2.state = w.state /\ w2.values[f] = v
         /\ \A g \in RecordFields \ {f} : w2.values[g] = w.values[g]
         /\ \A i : OwnedBy(w, i) /\ v \in {NoValue, i} => OwnedBy(w2, i)
<1>1. /\ w2.values = [g \in RecordFields |-> IF g = f THEN v ELSE w.values[g]]
      /\ w2.state = w.state /\ w2 = [values |-> w2.values, state |-> w2.state]
  BY DEF RowShape
<1> QED
  BY <1>1 DEF RowShape, OwnedBy

LEMMA StateWritten ==
  ASSUME NEW w, RowShape(w), NEW s, NEW w2, w2 = [w EXCEPT !.state = s]
  PROVE  /\ RowShape(w2) /\ w2.state = s
         /\ \A i : OwnedBy(w, i) => OwnedBy(w2, i)
<1>1. w2.values = w.values /\ w2.state = s /\ w2 = [values |-> w2.values, state |-> w2.state]
  BY DEF RowShape
<1> QED
  BY <1>1 DEF RowShape, OwnedBy

LEMMA EmptyFits == /\ RowShape(EmptyForm) /\ \A i : OwnedBy(EmptyForm, i)
BY DEF RowShape, OwnedBy, EmptyForm

LEMMA OwnFits ==
  ASSUME NEW w, RowShape(w), NEW i
  PROVE  RowShape(Own(w, i)) /\ OwnedBy(Own(w, i), i)
<1> DEFINE v == [f \in RecordFields |-> IF w.values[f] = NoValue THEN NoValue ELSE i]
<1>1. Own(w, i) = [values |-> v, state |-> w.state]
  BY DEF RowShape, Own
<1> QED
  BY <1>1 DEF RowShape, OwnedBy

-----------------------------------------------------------------------------
(* The drawer *)

LEMMA OpenedFits ==
  ASSUME NEW id \in Ids \cup {NoId}, NEW row, RowShape(row), OwnedBy(row, id),
         id = NoId => row = EmptyForm, NEW d, d = Opened(id, row)
  PROVE  DrawerFits(d)
<1>1. /\ d.creating = (id = NoId) /\ d.id = id /\ d.row = row /\ d.form = row
      /\ d.touched = {} /\ d.task = "none" /\ DrawerShape(d)
  BY DEF Opened, ClosedDrawer, DrawerShape
<1>2. OwnedBy(row, OwnerOf(d))
  BY <1>1, EmptyFits DEF OwnerOf
<1> QED
  BY <1>1, <1>2 DEF DrawerFits, ErrorsRight

LEMMA ClosedFits ==
  ASSUME DrawerFits(drawer), NEW d, d = [drawer EXCEPT !.open = FALSE]
  PROVE  DrawerFits(d)
<1>1. /\ d.open = FALSE /\ d.creating = drawer.creating /\ d.id = drawer.id
      /\ d.row = drawer.row /\ d.form = drawer.form /\ d.task = drawer.task
      /\ d.crossed = drawer.crossed /\ DrawerShape(d)
  BY DEF DrawerFits, DrawerShape
<1> QED
  BY <1>1 DEF DrawerFits, ErrorsRight, OwnerOf

\* A field typed, left or chosen: what becomes of the form and its errors.
LEMMA EnteredFits ==
  ASSUME DrawerFits(drawer), NEW form, NEW errors, NEW touched,
         RowShape(form), form.state = drawer.form.state,
         ~drawer.crossed => OwnedBy(form, Owner),
         drawer.open /\ ~drawer.replaced =>
           \A f \in Typed \cap touched : f \in errors <=> Invalid(f, form.values[f]),
         NEW d, d = [drawer EXCEPT !.form = form, !.errors = errors, !.touched = touched]
  PROVE  DrawerFits(d)
<1>1. /\ d.open = drawer.open /\ d.creating = drawer.creating /\ d.id = drawer.id
      /\ d.row = drawer.row /\ d.form = form /\ d.task = drawer.task
      /\ d.errors = errors /\ d.touched = touched /\ d.replaced = drawer.replaced
      /\ d.crossed = drawer.crossed /\ DrawerShape(d)
  BY DEF DrawerFits, DrawerShape
<1> QED
  BY <1>1 DEF DrawerFits, ErrorsRight, OwnerOf, Owner

LEMMA TypeFits ==
  ASSUME DrawerFits(drawer), NEW f \in RecordFields, NEW v \in {NoValue, Owner}, Type(f, v)
  PROVE  DrawerFits(drawer')
<1> DEFINE form == [drawer.form EXCEPT !.values[f] = v]
           errors == IF f \in drawer.touched THEN Validated(drawer.errors, f, v)
                     ELSE drawer.errors
<1>1. drawer' = [drawer EXCEPT !.form = form, !.errors = errors, !.touched = drawer.touched]
  BY DEF Type, DrawerFits, DrawerShape
<1>2. /\ RowShape(form) /\ form.state = drawer.form.state /\ form.values[f] = v
      /\ \A g \in RecordFields \ {f} : form.values[g] = drawer.form.values[g]
      /\ \A i : OwnedBy(drawer.form, i) /\ v \in {NoValue, i} => OwnedBy(form, i)
  BY FormWritten DEF DrawerFits
<1> HIDE DEF form
<1>3. ~drawer.crossed => OwnedBy(form, Owner)
  BY <1>2 DEF DrawerFits, OwnerOf, Owner
<1>4. drawer.open /\ ~drawer.replaced =>
        \A g \in Typed \cap drawer.touched : g \in errors <=> Invalid(g, form.values[g])
  BY <1>2, RecordsPageAssumption DEF DrawerFits, ErrorsRight, Validated, RecordsPageAssumption
<1> QED
  BY <1>1, <1>2, <1>3, <1>4, EnteredFits

LEMMA LeaveFits ==
  ASSUME DrawerFits(drawer), NEW f \in RecordFields, Leave(f)
  PROVE  DrawerFits(drawer')
<1> DEFINE errors == Validated(drawer.errors, f, drawer.form.values[f])
           touched == drawer.touched \cup {f}
<1>1. drawer' = [drawer EXCEPT !.form = drawer.form, !.errors = errors, !.touched = touched]
  BY DEF Leave, DrawerFits, DrawerShape
<1>2. drawer.open /\ ~drawer.replaced =>
        \A g \in Typed \cap touched : g \in errors <=> Invalid(g, drawer.form.values[g])
  BY DEF DrawerFits, ErrorsRight, Validated
<1>3. RowShape(drawer.form) /\ (~drawer.crossed => OwnedBy(drawer.form, Owner))
  BY DEF DrawerFits, OwnerOf, Owner
<1> QED
  BY <1>1, <1>2, <1>3, EnteredFits

LEMMA ChooseFits ==
  ASSUME DrawerFits(drawer), NEW f \in RecordFields, NEW v \in {NoValue, Owner}, Choose(f, v)
  PROVE  DrawerFits(drawer')
<1> DEFINE form == [drawer.form EXCEPT !.values[f] = v]
           errors == Validated(drawer.errors, f, drawer.form.values[f])
           touched == drawer.touched \cup {f}
<1>1. drawer' = [drawer EXCEPT !.form = form, !.errors = errors, !.touched = touched]
  BY DEF Choose, Chosen, DrawerFits, DrawerShape
<1>2. /\ RowShape(form) /\ form.state = drawer.form.state
      /\ \A g \in RecordFields \ {f} : form.values[g] = drawer.form.values[g]
      /\ \A i : OwnedBy(drawer.form, i) /\ v \in {NoValue, i} => OwnedBy(form, i)
  BY FormWritten DEF DrawerFits
<1> HIDE DEF form
<1>3. ~drawer.crossed => OwnedBy(form, Owner)
  BY <1>2 DEF DrawerFits, OwnerOf, Owner
<1>4. f \notin Typed
  BY DEF Choose
<1>5. drawer.open /\ ~drawer.replaced =>
        \A g \in Typed \cap touched : g \in errors <=> Invalid(g, form.values[g])
  BY <1>2, <1>4, RecordsPageAssumption
     DEF DrawerFits, ErrorsRight, Validated, RecordsPageAssumption
<1> QED
  BY <1>1, <1>2, <1>3, <1>5, EnteredFits

LEMMA EndUploadFits ==
  ASSUME DrawerFits(drawer), NEW u \in uploads, UploadFits(u), EndUpload(u)
  PROVE  DrawerFits(drawer')
<1> DEFINE form == [u.form EXCEPT !.values[u.field] = u.owner]
<1>1. u.field \in RecordFields
  BY RecordsPageAssumption DEF UploadFits, RecordsPageAssumption
<1>2. RowShape(form) /\ (~u.crossed => OwnedBy(form, u.owner))
  BY <1>1, FormWritten DEF UploadFits
<1>3. /\ drawer'.open = drawer.open
      /\ drawer'.creating = drawer.creating /\ drawer'.id = drawer.id
      /\ drawer'.row = drawer.row /\ drawer'.form = form /\ drawer'.task = "none"
      /\ drawer'.replaced = TRUE /\ drawer'.crossed = (u.crossed \/ u.owner # Owner)
      /\ DrawerShape(drawer')
  BY DEF EndUpload, Chosen, DrawerFits, DrawerShape
<1> HIDE DEF form
<1>4. OwnerOf(drawer') = Owner
  BY <1>3 DEF OwnerOf, Owner
<1>5. ~drawer'.crossed => OwnedBy(form, OwnerOf(drawer'))
  BY <1>2, <1>3, <1>4
<1> QED
  BY <1>2, <1>3, <1>5 DEF DrawerFits, ErrorsRight

LEMMA SaveFits ==
  ASSUME DrawerFits(drawer), SaveRecord
  PROVE  DrawerFits(drawer')
<1>1. CASE UNCHANGED drawer
  BY <1>1
<1>2. CASE drawer' = [drawer EXCEPT !.errors = InvalidFields(drawer.form),
                                    !.touched = @ \cup InvalidFields(drawer.form),
                                    !.replaced = FALSE]
  <2>1. /\ drawer'.open = drawer.open
        /\ drawer'.creating = drawer.creating /\ drawer'.id = drawer.id
        /\ drawer'.row = drawer.row /\ drawer'.form = drawer.form /\ drawer'.task = drawer.task
        /\ drawer'.errors = InvalidFields(drawer.form) /\ drawer'.crossed = drawer.crossed
        /\ DrawerShape(drawer')
    BY <1>2 DEF DrawerFits, DrawerShape
  <2>2. ErrorsRight(drawer')
    BY <2>1, RecordsPageAssumption DEF ErrorsRight, InvalidFields, RecordsPageAssumption
  <2> QED
    BY <2>1, <2>2 DEF DrawerFits, OwnerOf
<1> QED
  BY <1>1, <1>2 DEF SaveRecord

LEMMA TaskAnsweredFits ==
  ASSUME DrawerFits(drawer), NEW s, NEW ids, ids \subseteq Ids, {drawer.id} = ids,
         NEW d, d = TaskAnswered(s, ids)
  PROVE  DrawerFits(d)
<1> DEFINE row == [drawer.row EXCEPT !.state = s]
<1>1. RowShape(row) /\ row.state = s /\ OwnedBy(row, drawer.id)
  BY StateWritten DEF DrawerFits
<1> DrawerShape(drawer)
  BY DEF DrawerFits
<1>2. /\ d.open = drawer.open /\ d.creating = drawer.creating /\ d.id = drawer.id
      /\ d.row = row /\ d.form = row /\ d.task = s /\ d.replaced = TRUE /\ d.crossed = FALSE
      /\ DrawerShape(d)
  BY DEF TaskAnswered, DrawerShape
<1> HIDE DEF row
<1>3. ~drawer.creating
  BY RecordsPageAssumption DEF DrawerFits, NoId, RecordsPageAssumption
<1>4. OwnedBy(d.form, OwnerOf(d))
  BY <1>1, <1>2, <1>3 DEF OwnerOf
<1> QED
  BY <1>1, <1>2, <1>4 DEF DrawerFits, ErrorsRight

LEMMA UpdatedFits ==
  ASSUME DrawerFits(drawer), NEW c, CallFits(c), Updated(c)
  PROVE  DrawerFits(drawer')
<1> DEFINE row == IF {drawer.id} = c.ids THEN Own(c.data, drawer.id) ELSE drawer.row
<1>1. drawer' = [drawer EXCEPT !.open = FALSE, !.row = row]
  BY DEF Updated
<1>2. RowShape(row) /\ OwnedBy(row, drawer.id)
  BY OwnFits DEF DrawerFits, CallFits
<1> HIDE DEF row
<1>3. /\ drawer'.open = FALSE /\ drawer'.creating = drawer.creating /\ drawer'.id = drawer.id
      /\ drawer'.row = row /\ drawer'.form = drawer.form /\ drawer'.task = drawer.task
      /\ drawer'.crossed = drawer.crossed /\ DrawerShape(drawer')
  BY <1>1 DEF DrawerFits, DrawerShape
<1> QED
  BY <1>2, <1>3 DEF DrawerFits, ErrorsRight, OwnerOf

-----------------------------------------------------------------------------
(* Requests *)

\* A request of one of the page's buttons, which is no save.
LEMMA CallMade ==
  ASSUME NEW k, k \notin Saves, NEW ids \in SUBSET Ids, NEW c, c = Call(k, ids, EmptyForm)
  PROVE  CallFits(c) /\ c.kind = k
BY EmptyFits DEF CallFits, Call, Saves

LEMMA CallsSent ==
  ASSUME CallsFit(calls), NEW c, CallFits(c),
         c.kind \in Saves => \A d \in calls : d.kind \notin Saves
  PROVE  CallsFit(With(c))
<1> DEFINE After(d) == [d EXCEPT !.latest = d.latest /\ d.kind # c.kind]
<1>1. ASSUME NEW d \in calls, NEW e, e = After(d)
      PROVE  CallFits(e) /\ e.kind = d.kind
  <2>1. CallFits(d)
    BY DEF CallsFit
  <2>2. /\ e.kind = d.kind /\ e.ids = d.ids /\ e.data = d.data /\ e.crossed = d.crossed
        /\ e.latest = (d.latest /\ d.kind # c.kind)
        /\ e = [kind |-> e.kind, ids |-> e.ids, data |-> e.data, nr |-> e.nr,
                answer |-> e.answer, latest |-> e.latest, again |-> e.again,
                crossed |-> e.crossed]
    BY <1>1, <2>1 DEF CallFits
  <2>3. d.kind \in Saves => d.kind # c.kind
    OBVIOUS
  <2> QED
    BY <2>1, <2>2, <2>3 DEF CallFits
<1>2. \A e \in With(c) : e = c \/ \E d \in calls : e = After(d)
  BY DEF With
<1> HIDE DEF After
<1>3. \A e \in With(c) : CallFits(e)
  BY <1>1, <1>2
<1>4. ASSUME NEW e1 \in With(c), NEW e2 \in With(c), e1.kind \in Saves, e2.kind \in Saves
      PROVE  e1 = e2
  <2>1. CASE e1 = c \/ e2 = c
    BY <1>1, <1>2, <1>4, <2>1
  <2>2. CASE e1 # c /\ e2 # c
    <3>1. PICK d1 \in calls, d2 \in calls : e1 = After(d1) /\ e2 = After(d2)
      BY <1>2, <2>2
    <3>2. d1 = d2
      BY <1>1, <1>4, <3>1 DEF CallsFit
    <3> QED
      BY <3>1, <3>2
  <2> QED
    BY <2>1, <2>2
<1> QED
  BY <1>3, <1>4 DEF CallsFit

LEMMA CallReplaced ==
  ASSUME CallsFit(calls), NEW c \in calls, NEW c2, CallFits(c2), c2.kind = c.kind
  PROVE  CallsFit((calls \ {c}) \cup {c2})
BY DEF CallsFit

\* What a request, its answer or its loss changes of it.
LEMMA AnsweredFits ==
  ASSUME NEW c, CallFits(c),
         NEW c2, \/ \E a : c2 = [c EXCEPT !.answer = a]
                 \/ \E a, again : c2 = [c EXCEPT !.again = again, !.answer = a]
                 \/ \E a, ids : ids \subseteq Ids /\ c2 = [c EXCEPT !.answer = a,
                                                               !.ids = @ \cup ids]
  PROVE  CallFits(c2) /\ c2.kind = c.kind
<1>1. PICK ids \in SUBSET Ids :
        \/ \E a : c2 = [c EXCEPT !.answer = a]
        \/ \E a, again : c2 = [c EXCEPT !.again = again, !.answer = a]
        \/ \E a : c2 = [c EXCEPT !.answer = a, !.ids = @ \cup ids]
  OBVIOUS
<1>2. /\ c2.kind = c.kind /\ c.ids \subseteq c2.ids /\ c2.ids \subseteq c.ids \cup ids
      /\ c2.data = c.data /\ c2.crossed = c.crossed /\ c2.latest = c.latest
      /\ c2 = [kind |-> c2.kind, ids |-> c2.ids, data |-> c2.data, nr |-> c2.nr,
               answer |-> c2.answer, latest |-> c2.latest, again |-> c2.again,
               crossed |-> c2.crossed]
  BY <1>1 DEF CallFits
<1> QED
  BY <1>2 DEF CallFits

LEMMA SaveSent ==
  ASSUME PageInv, SaveRecord
  PROVE  CallsFit(calls')
<1> DEFINE c == Call(IF drawer.creating THEN "create" ELSE "update", {drawer.id} \ {NoId},
                     drawer.form)
<1>1. CASE UNCHANGED calls
  BY <1>1 DEF PageInv
<1>2. CASE calls' = With(c)
  <2>1. PICK d : d = c
    OBVIOUS
  <2>2. /\ d.kind = (IF drawer.creating THEN "create" ELSE "update")
        /\ d.ids = {drawer.id} \ {NoId} /\ d.data = drawer.form /\ d.crossed = drawer.crossed
        /\ d.latest = TRUE
        /\ d = [kind |-> d.kind, ids |-> d.ids, data |-> d.data, nr |-> d.nr,
                answer |-> d.answer, latest |-> d.latest, again |-> d.again,
                crossed |-> d.crossed]
    BY <2>1 DEF Call
  <2>3. DrawerFits(drawer)
    BY DEF PageInv
  <2> HIDE DEF c
  <2>4. RowShape(d.data) /\ d.ids \subseteq Ids
    BY <2>2, <2>3 DEF DrawerFits
  <2>5. ASSUME drawer.creating PROVE CallFits(d)
    BY <2>2, <2>3, <2>4, <2>5 DEF DrawerFits, OwnerOf, CallFits
  <2>6. ASSUME ~drawer.creating PROVE CallFits(d)
    BY <2>2, <2>3, <2>4, <2>6 DEF DrawerFits, OwnerOf, OwnedBy, CallFits, NoId, NoValue
  <2>7. \A e \in calls : e.kind \notin Saves
    BY DEF SaveRecord, SaveOffered, Pending, PageInv, CallsFit, CallFits, Saves
  <2> QED
    BY <1>2, <2>1, <2>5, <2>6, <2>7, CallsSent DEF PageInv
<1> QED
  BY <1>1, <1>2 DEF SaveRecord

LEMMA BatchSent ==
  ASSUME PageInv, BatchDelete
  PROVE  CallsFit(calls')
<1>1. ASSUME NEW c \in calls'
      PROVE  CallFits(c) /\ (c \in calls \/ c.kind \notin Saves)
  <2>1. CASE c \in calls
    BY <2>1 DEF PageInv, CallsFit
  <2>2. CASE c \notin calls
    <3>1. PICK i \in selected :
            c = [Call("batch", {i}, EmptyForm) EXCEPT !.nr = batch.nr + 1]
      BY <2>2 DEF BatchDelete
    <3>2. PICK d : d = Call("batch", {i}, EmptyForm)
      OBVIOUS
    <3>3. CallFits(d) /\ d.kind = "batch"
      BY <3>2, CallMade DEF PageInv, PicksFit, Saves
    <3>4. /\ c.kind = d.kind /\ c.ids = d.ids /\ c.data = d.data /\ c.crossed = d.crossed
          /\ c = [kind |-> c.kind, ids |-> c.ids, data |-> c.data, nr |-> c.nr,
                  answer |-> c.answer, latest |-> c.latest, again |-> c.again,
                  crossed |-> c.crossed]
      BY <3>1, <3>2, <3>3 DEF CallFits
    <3> QED
      BY <3>3, <3>4 DEF CallFits, Saves
  <2> QED
    BY <2>1, <2>2
<1> QED
  BY <1>1 DEF PageInv, CallsFit

-----------------------------------------------------------------------------
(* The table *)

LEMMA InvalidatedFits ==
  ASSUME TableFits, Invalidate, UNCHANGED <<rows, pageNr>>
  PROVE  TableFits'
<1>1. RowsFit(rows') /\ pageNr' \in Pages
  BY DEF TableFits
<1>2. ASSUME NEW p \in Pages
      PROVE  /\ cache'[p] = [list |-> cache'[p].list, fresh |-> cache'[p].fresh]
             /\ ListFits(cache'[p].list)
  <2>1. cache[p] = [list |-> cache[p].list, fresh |-> cache[p].fresh] /\ ListFits(cache[p].list)
    BY DEF TableFits, CacheFits
  <2>2. cache'[p] = [cache[p] EXCEPT !.fresh = FALSE]
    BY DEF Invalidate, Stale
  <2>3. cache'[p].list = cache[p].list
        /\ cache'[p] = [list |-> cache'[p].list, fresh |-> cache'[p].fresh]
    BY <2>1, <2>2
  <2> QED
    BY <2>1, <2>3
<1>3. CacheFits(cache')
  BY <1>2 DEF CacheFits, Invalidate, Stale
<1>4. FetchFits(fetch')
  BY DEF TableFits, FetchFits, Invalidate
<1> QED
  BY <1>1, <1>3, <1>4 DEF TableFits

LEMMA MissingFits ==
  ASSUME NEW l, ListFits(l), NEW ids, NEW m, m = Missing(l, ids)
  PROVE  ListFits(m) /\ m.row = l.row /\ m.misses = l.misses \cup ids
<1>1. m.row = l.row /\ m.misses = l.misses \cup ids /\ m = [row |-> m.row, misses |-> m.misses]
  BY DEF ListFits, Missing
<1> QED
  BY <1>1 DEF ListFits

LEMMA EffectFits ==
  ASSUME RowsFit(rows), NEW c, CallFits(c), NEW new \in Ids
  PROVE  RowsFit(Effect(c, new))
<1> DEFINE r == Effect(c, new)
<1>1. ASSUME NEW i \in Ids, r[i] \notin {Unused, Deleted}
      PROVE  RowShape(r[i]) /\ OwnedBy(r[i], i)
  <2>1. i \in Live => RowShape(rows[i]) /\ OwnedBy(rows[i], i)
    BY DEF RowsFit, Live
  <2>2. CASE c.kind = "create" /\ i = new
    <3>1. r[i] = Own(c.data, i)
      BY <2>2 DEF Effect
    <3> QED
      BY <3>1, OwnFits DEF CallFits
  <2>3. CASE i \in c.ids /\ i \in Live /\ c.kind = "update"
    <3>1. r[i] = Own(c.data, i)
      BY <2>3 DEF Effect
    <3> QED
      BY <3>1, OwnFits DEF CallFits
  <2>4. CASE i \in c.ids /\ i \in Live /\ c.kind \in {"delete", "batch"}
    <3>1. r[i] = Deleted
      BY <2>4 DEF Effect
    <3> QED
      BY <1>1, <3>1
  <2>5. CASE i \in c.ids /\ i \in Live /\ c.kind \in {"retry", "retryAll", "discard"}
    <3>1. \E s : r[i] = [rows[i] EXCEPT !.state = s]
      BY <2>5 DEF Effect
    <3> QED
      BY <2>1, <2>5, <3>1, StateWritten
  <2>6. CASE /\ ~(c.kind = "create" /\ i = new)
             /\ ~(i \in c.ids /\ i \in Live /\ c.kind \in {"update", "delete", "batch", "retry",
                                                           "retryAll", "discard"})
    <3>1. r[i] = rows[i]
      BY <2>6 DEF Effect
    <3> QED
      BY <1>1, <2>1, <3>1 DEF Live
  <2> QED
    BY <2>2, <2>3, <2>4, <2>5, <2>6
<1>2. r = [i \in Ids |-> r[i]]
  BY DEF Effect
<1> HIDE DEF r
<1> QED
  BY <1>1, <1>2 DEF RowsFit, r

LEMMA CarriedOutFits ==
  ASSUME PageInv, NEW c \in calls, CarryOut(c)
  PROVE  TableFits' /\ CallsFit(calls')
<1>1. CallFits(c)
  BY DEF PageInv, CallsFit
<1>2. CASE Refused(c)
  <2>1. PICK c2 : c2 = [c EXCEPT !.answer = "failed"]
    OBVIOUS
  <2>2. CallFits(c2) /\ c2.kind = c.kind
    BY <1>1, <2>1, AnsweredFits
  <2>3. CallsFit(calls')
    BY <1>2, <2>1, <2>2, CallReplaced DEF CarryOut, PageInv
  <2>4. UNCHANGED <<rows, cache, fetch, pageNr>>
    BY <1>2 DEF CarryOut, listVars
  <2> QED
    BY <2>3, <2>4 DEF PageInv, TableFits
<1>3. CASE ~Refused(c)
  <2>1. PICK new \in Ids :
          LET ids == Written(c, new) IN
          /\ rows' = Effect(c, new)
          /\ calls' = (calls \ {c}) \cup {[c EXCEPT !.answer = "ok", !.ids = @ \cup ids]}
          /\ cache' = [p \in Pages |-> [cache[p] EXCEPT !.list = Missing(@, ids)]]
          /\ fetch' = [p \in Pages |-> IF fetch[p] \in {NoFetch, Sent} THEN fetch[p]
                                       ELSE Missing(fetch[p], ids)]
    BY <1>3 DEF CarryOut
  <2> DEFINE ids == Written(c, new)
  <2>2. ids \in SUBSET Ids
    BY DEF Written, Live
  <2> HIDE DEF ids
  <2>3. CallsFit(calls')
    <3>1. PICK c2 : c2 = [c EXCEPT !.answer = "ok", !.ids = @ \cup ids]
      OBVIOUS
    <3>2. CallFits(c2) /\ c2.kind = c.kind
      BY <1>1, <2>2, <3>1, AnsweredFits
    <3> QED
      BY <2>1, <3>1, <3>2, CallReplaced DEF PageInv, ids
  <2>4. RowsFit(rows')
    BY <1>1, <2>1, EffectFits DEF PageInv, TableFits
  <2>5. ASSUME NEW p \in Pages
        PROVE  /\ cache'[p] = [list |-> cache'[p].list, fresh |-> cache'[p].fresh]
               /\ ListFits(cache'[p].list)
    <3>1. /\ cache[p] = [list |-> cache[p].list, fresh |-> cache[p].fresh]
          /\ ListFits(cache[p].list)
      BY DEF PageInv, TableFits, CacheFits
    <3>2. cache'[p] = [cache[p] EXCEPT !.list = Missing(cache[p].list, ids)]
      BY <2>1, <3>1 DEF ids
    <3>3. cache'[p].list = Missing(cache[p].list, ids)
          /\ cache'[p] = [list |-> cache'[p].list, fresh |-> cache'[p].fresh]
      BY <3>1, <3>2
    <3> QED
      BY <3>1, <3>3, MissingFits
  <2>6. CacheFits(cache')
    BY <2>1, <2>5 DEF CacheFits
  <2>7. FetchFits(fetch')
    <3>1. ASSUME NEW p \in Pages
          PROVE  fetch'[p] \in {NoFetch, Sent} \/ ListFits(fetch'[p])
      BY <2>1, MissingFits DEF PageInv, TableFits, FetchFits
    <3> QED
      BY <2>1, <3>1 DEF FetchFits
  <2>8. pageNr' \in Pages
    BY DEF CarryOut, PageInv, TableFits
  <2> QED
    BY <2>3, <2>4, <2>6, <2>7, <2>8 DEF TableFits
<1> QED
  BY <1>2, <1>3


-----------------------------------------------------------------------------
(* The drawer is sound *)

LEMMA PageInvHolds == RecordsSpec => []PageInv
<1>1. RecordsInit => PageInv
  <2> SUFFICES ASSUME RecordsInit PROVE PageInv
    OBVIOUS
  <2>1. RowsFit(rows)
    BY DEF RecordsInit, RowsFit, RowShape, OwnedBy
  <2>2. ListFits(NoList)
    BY DEF NoList, ListFits
  <2>3. CacheFits(cache) /\ FetchFits(fetch) /\ pageNr \in Pages
    BY <2>2, RecordsPageAssumption DEF RecordsInit, CacheFits, FetchFits, RecordsPageAssumption
  <2>4. DrawerFits(ClosedDrawer)
    BY EmptyFits DEF DrawerFits, DrawerShape, ClosedDrawer, ErrorsRight, OwnerOf
  <2>5. ASSUME NEW d, d = [ClosedDrawer EXCEPT !.open = TRUE, !.creating = TRUE]
        PROVE  DrawerFits(d)
    <3>1. /\ d.creating = TRUE /\ d.id = NoId /\ d.row = EmptyForm /\ d.form = EmptyForm
          /\ d.touched = {} /\ d.task = "none" /\ DrawerShape(d)
      BY <2>5 DEF ClosedDrawer, DrawerShape
    <3> QED
      BY <3>1, EmptyFits DEF DrawerFits, ErrorsRight, OwnerOf
  <2>6. DrawerFits(drawer)
    BY <2>4, <2>5 DEF RecordsInit
  <2> QED
    BY <2>1, <2>3, <2>6 DEF PageInv, TableFits, RecordsInit, CallsFit, PicksFit
<1>2. PageInv /\ [RecordsNext]_recordsVars => PageInv'
  <2> SUFFICES ASSUME PageInv, [RecordsNext]_recordsVars
               PROVE  PageInv'
    OBVIOUS
  <2> DEFINE TablesKept == UNCHANGED <<rows, cache, fetch, pageNr>>
             PicksKept == UNCHANGED <<selected, toDelete>>
             UploadsKept == \A u \in uploads' : UploadFits(u)
             DrawerKept == DrawerFits(drawer')
             CallsKept == CallsFit(calls')
  <2>1. ASSUME TableFits' \/ TablesKept, PicksFit' \/ PicksKept, DrawerKept,
               UploadsKept, CallsKept
        PROVE  PageInv'
    BY <2>1 DEF PageInv, TableFits, PicksFit
  <2>2. DrawerFits(drawer) /\ CallsFit(calls) /\ \A u \in uploads : UploadFits(u)
    BY DEF PageInv
  <2>3. CallsFit({}) /\ \A c \in calls : CallFits(c) /\ CallsFit(calls \ {c})
    BY <2>2 DEF CallsFit
  <2>4. ASSUME NEW k, k \notin Saves, NEW ids \in SUBSET Ids,
               calls' = With(Call(k, ids, EmptyForm))
        PROVE  CallsKept
    <3>1. PICK c : c = Call(k, ids, EmptyForm)
      OBVIOUS
    <3> QED
      BY <2>2, <2>4, <3>1, CallMade, CallsSent
  <2>5. ASSUME NEW c \in calls, NEW c2, \/ c2 = [c EXCEPT !.answer = "failed"]
                                        \/ c2 = [c EXCEPT !.again = TRUE, !.answer = "none"],
               calls' = (calls \ {c}) \cup {c2}
        PROVE  CallsKept
    BY <2>2, <2>3, <2>5, AnsweredFits, CallReplaced
  <2>6. /\ PicksFit /\ DOMAIN Shown \subseteq Ids
        /\ \A i \in DOMAIN Shown : RowShape(Shown[i]) /\ OwnedBy(Shown[i], i)
    BY DEF PageInv, TableFits, CacheFits, ListFits, Shown
  <2> HIDE DEF TablesKept, PicksKept, UploadsKept, DrawerKept, CallsKept
  <2> USE DEF TablesKept, PicksKept, UploadsKept, DrawerKept, CallsKept, dialogVars, listVars
  <2>7. CASE OpenCreate
    <3>1. PICK d : d = Opened(NoId, EmptyForm)
      OBVIOUS
    <3>2. DrawerKept
      BY <2>7, <3>1, EmptyFits, OpenedFits DEF OpenCreate, CreateDrawer
    <3> QED
      BY <2>1, <2>2, <2>7, <3>2 DEF OpenCreate
  <2>8. ASSUME NEW i \in Ids, OpenDetail(i) PROVE PageInv'
    <3>1. PICK d : d = Opened(i, Shown[i])
      OBVIOUS
    <3>2. i # NoId
      BY RecordsPageAssumption DEF NoId, RecordsPageAssumption
    <3>3. DrawerFits(d)
      BY <2>6, <2>8, <3>1, <3>2, OpenedFits DEF OpenDetail
    <3> QED
      BY <2>1, <2>2, <2>8, <3>1, <3>3 DEF OpenDetail
  <2>9. CASE CloseDrawer
    BY <2>1, <2>2, <2>9, ClosedFits DEF CloseDrawer
  <2>10. ASSUME NEW f \in RecordFields, NEW v \in {NoValue, Owner}, Type(f, v) \/ Choose(f, v)
         PROVE  PageInv'
    <3>1. DrawerKept
      BY <2>2, <2>10, TypeFits, ChooseFits
    <3>2. TablesKept /\ PicksKept /\ UNCHANGED <<uploads, calls>>
      BY <2>10 DEF Type, Choose
    <3> QED
      BY <2>1, <2>2, <3>1, <3>2
  <2>11. ASSUME NEW f \in RecordFields, Leave(f) PROVE PageInv'
    <3>1. DrawerKept
      BY <2>2, <2>11, LeaveFits
    <3> QED
      BY <2>1, <2>2, <2>11, <3>1 DEF Leave
  <2>12. ASSUME NEW f \in RecordFields, StartUpload(f) PROVE PageInv'
    <3>1. PICK u : u = [field |-> f, form |-> drawer.form, owner |-> Owner,
                        touched |-> drawer.touched, opening |-> drawer.opening,
                        crossed |-> drawer.crossed]
      OBVIOUS
    <3>2. UploadFits(u)
      BY <2>2, <2>12, <3>1 DEF StartUpload, UploadFits, DrawerFits, Owner, OwnerOf
    <3>3. UploadsKept
      BY <2>2, <2>12, <3>1, <3>2 DEF StartUpload
    <3> QED
      BY <2>1, <2>2, <2>12, <3>3 DEF StartUpload
  <2>13. ASSUME NEW u \in uploads, EndUpload(u) PROVE PageInv'
    <3>1. DrawerKept
      BY <2>2, <2>13, EndUploadFits
    <3> QED
      BY <2>1, <2>2, <2>13, <3>1 DEF EndUpload
  <2>14. ASSUME NEW u \in uploads, FailUpload(u) PROVE PageInv'
    BY <2>1, <2>2, <2>14 DEF FailUpload
  <2>15. CASE SaveRecord
    <3>1. DrawerKept /\ CallsKept
      BY <2>2, <2>15, SaveFits, SaveSent
    <3> QED
      BY <2>1, <2>2, <2>15, <3>1 DEF SaveRecord
  <2>16. ASSUME NEW i \in Ids, AskDelete(i) PROVE PageInv'
    <3>1. PicksFit'
      BY <2>6, <2>16 DEF AskDelete, PicksFit
    <3> QED
      BY <2>1, <2>2, <2>16, <3>1 DEF AskDelete
  <2>17. CASE DismissDelete
    <3>1. PicksFit'
      BY <2>6, <2>17 DEF DismissDelete, PicksFit
    <3> QED
      BY <2>1, <2>2, <2>17, <3>1 DEF DismissDelete
  <2>18. CASE ConfirmDelete
    <3>1. {toDelete} \in SUBSET Ids
      BY <2>6, <2>18 DEF ConfirmDelete, PicksFit
    <3>2. CallsKept
      BY <2>4, <2>18, <3>1 DEF ConfirmDelete, Saves
    <3> QED
      BY <2>1, <2>2, <2>18, <3>2 DEF ConfirmDelete
  <2>19. ASSUME NEW i \in Ids, RetryTask(i) PROVE PageInv'
    <3>1. CallsKept
      BY <2>4, <2>19 DEF RetryTask, Saves
    <3> QED
      BY <2>1, <2>2, <2>19, <3>1 DEF RetryTask
  <2>20. CASE DiscardTask
    <3>1. {drawer.id} \in SUBSET Ids
      BY <2>2, <2>20 DEF DrawerFits, DiscardTask, DrawerReachable, DiscardOffered
    <3>2. CallsKept
      BY <2>4, <2>20, <3>1 DEF DiscardTask, Saves
    <3> QED
      BY <2>1, <2>2, <2>20, <3>2 DEF DiscardTask
  <2>21. ASSUME NEW i \in Ids, SelectRecord(i) PROVE PageInv'
    <3>1. PicksFit'
      BY <2>6, <2>21 DEF SelectRecord, PicksFit
    <3> QED
      BY <2>1, <2>2, <2>21, <3>1 DEF SelectRecord
  <2>22. ASSUME NEW on \in BOOLEAN, SelectAll(on) PROVE PageInv'
    <3>1. PicksFit'
      BY <2>6, <2>22 DEF SelectAll, PicksFit
    <3> QED
      BY <2>1, <2>2, <2>22, <3>1 DEF SelectAll
  <2>23. CASE ClearSelection
    <3>1. PicksFit'
      BY <2>6, <2>23 DEF ClearSelection, PicksFit
    <3> QED
      BY <2>1, <2>2, <2>23, <3>1 DEF ClearSelection
  <2>24. CASE AskBatchDelete \/ DismissBatchDelete
    BY <2>1, <2>2, <2>24 DEF AskBatchDelete, DismissBatchDelete
  <2>25. CASE BatchDelete
    <3>1. CallsKept
      BY <2>25, BatchSent
    <3> QED
      BY <2>1, <2>2, <2>25, <3>1 DEF BatchDelete
  <2>26. CASE BatchRetry
    <3>1. CallsKept
      BY <2>4, <2>6, <2>26 DEF BatchRetry, Saves, PicksFit
    <3> QED
      BY <2>1, <2>2, <2>26, <3>1 DEF BatchRetry
  <2>27. ASSUME NEW p \in Pages, Turn(p) PROVE PageInv'
    <3>1. TableFits'
      BY <2>27 DEF Turn, PageInv, TableFits
    <3> QED
      BY <2>1, <2>2, <2>27, <3>1 DEF Turn
  <2>28. ASSUME NEW c \in calls, CarryOut(c) PROVE PageInv'
    <3>1. TableFits' /\ CallsKept
      BY <2>28, CarriedOutFits
    <3> QED
      BY <2>1, <2>2, <2>28, <3>1 DEF CarryOut
  <2>29. ASSUME NEW c \in calls, Lose(c) PROVE PageInv'
    <3>1. CallsKept
      BY <2>5, <2>29 DEF Lose
    <3> QED
      BY <2>1, <2>2, <2>29, <3>1 DEF Lose
  <2>30. ASSUME NEW i \in Ids, OtherDeletes(i) \/ EngineMoves(i) PROVE PageInv'
    <3>1. RowsFit(rows) /\ i \in Live
      BY <2>30 DEF PageInv, TableFits, OtherDeletes, EngineMoves
    <3>2. PICK w : /\ rows' = [rows EXCEPT ![i] = w]
                   /\ w = Deleted \/ (RowShape(w) /\ OwnedBy(w, i))
      <4>1. CASE OtherDeletes(i)
        BY <4>1 DEF OtherDeletes
      <4>2. CASE EngineMoves(i)
        <5>1. RowShape(rows[i]) /\ OwnedBy(rows[i], i)
          BY <3>1 DEF RowsFit, Live
        <5>2. PICK s : rows' = [rows EXCEPT ![i].state = s]
          BY <4>2 DEF EngineMoves
        <5>3. PICK w : w = [rows[i] EXCEPT !.state = s]
          OBVIOUS
        <5>4. rows' = [rows EXCEPT ![i] = w]
          BY <5>2, <5>3
        <5>5. RowShape(w) /\ OwnedBy(w, i)
          BY <5>1, <5>3, StateWritten
        <5> QED
          BY <5>4, <5>5
      <4> QED
        BY <2>30, <4>1, <4>2
    <3>3. RowsFit(rows')
      BY <3>1, <3>2 DEF RowsFit
    <3>4. TableFits' /\ PicksKept /\ UNCHANGED <<drawer, uploads, calls>>
      BY <2>30, <3>3 DEF OtherDeletes, EngineMoves, PageInv, TableFits
    <3> QED
      BY <2>1, <2>2, <3>4
  <2>31. CASE StartFetch
    <3>1. TableFits'
      BY <2>31 DEF StartFetch, PageInv, TableFits, FetchFits
    <3> QED
      BY <2>1, <2>2, <2>31, <3>1 DEF StartFetch
  <2>32. ASSUME NEW p \in Pages, ListRecords(p) PROVE PageInv'
    <3>1. PICK l : l = [row |-> [i \in OnPage(p) |-> rows[i]], misses |-> {}]
      OBVIOUS
    <3>2. ListFits(l)
      BY <3>1 DEF ListFits, OnPage, Live, PageInv, TableFits, RowsFit
    <3>3. fetch' = [fetch EXCEPT ![p] = l]
      BY <2>32, <3>1 DEF ListRecords
    <3>4. TableFits'
      BY <2>32, <3>2, <3>3 DEF ListRecords, PageInv, TableFits, FetchFits
    <3> QED
      BY <2>1, <2>2, <2>32, <3>4 DEF ListRecords
  <2>33. ASSUME NEW p \in Pages, EndFetch(p) PROVE PageInv'
    <3>1. ListFits(fetch[p]) /\ CacheFits(cache) /\ FetchFits(fetch)
      BY <2>33 DEF EndFetch, PageInv, TableFits, FetchFits
    <3>2. CacheFits(cache')
      BY <2>33, <3>1 DEF EndFetch, CacheFits
    <3>3. FetchFits(fetch')
      BY <2>33, <3>1 DEF EndFetch, FetchFits
    <3>4. TableFits'
      BY <2>33, <3>2, <3>3 DEF EndFetch, PageInv, TableFits
    <3> QED
      BY <2>1, <2>2, <2>33, <3>4 DEF EndFetch
  <2>34. ASSUME NEW c \in calls, Created(c) \/ Updated(c) \/ DeleteAnswered(c) \/ Retried(c)
                                   \/ DiscardAnswered(c) \/ AllRetried(c)
         PROVE  PageInv'
    <3>1. Invalidate /\ UNCHANGED <<rows, pageNr, uploads>> /\ calls' = calls \ {c}
      BY <2>34 DEF Created, Updated, DeleteAnswered, Retried, DiscardAnswered, AllRetried, Take
    <3>2. TableFits' /\ CallsKept
      BY <2>3, <3>1, InvalidatedFits DEF PageInv
    <3>3. PicksFit'
      BY <2>6, <2>34 DEF Created, Updated, DeleteAnswered, Retried, DiscardAnswered,
                         AllRetried, PicksFit
    <3>4. CASE Created(c) \/ DeleteAnswered(c)
      BY <2>1, <2>2, <3>1, <3>2, <3>3, <3>4, ClosedFits DEF Created, DeleteAnswered
    <3>5. CASE Updated(c)
      BY <2>1, <2>2, <2>3, <3>1, <3>2, <3>3, <3>5, UpdatedFits
    <3>6. CASE Retried(c) \/ DiscardAnswered(c)
      <4>1. drawer' = drawer
            \/ \E s : {drawer.id} = c.ids /\ drawer' = TaskAnswered(s, c.ids)
        BY <3>6 DEF Retried, DiscardAnswered
      <4>2. c.ids \subseteq Ids
        BY <2>3 DEF CallFits
      <4>3. DrawerKept
        BY <2>2, <4>1, <4>2, TaskAnsweredFits
      <4> QED
        BY <2>1, <2>2, <3>1, <3>2, <3>3, <4>3
    <3>7. CASE AllRetried(c)
      BY <2>1, <2>2, <3>1, <3>2, <3>3, <3>7 DEF AllRetried
    <3> QED
      BY <2>34, <3>4, <3>5, <3>6, <3>7
  <2>35. ASSUME NEW c \in calls, BatchAnswered(c) PROVE PageInv'
    <3>1. CallsKept
      BY <2>3, <2>35 DEF BatchAnswered, Take
    <3>2. PicksFit'
      BY <2>6, <2>35 DEF BatchAnswered, PicksFit
    <3>3. TableFits' \/ TablesKept
      BY <2>35, InvalidatedFits DEF BatchAnswered, PageInv
    <3> QED
      BY <2>1, <2>2, <2>35, <3>1, <3>2, <3>3 DEF BatchAnswered
  <2>36. ASSUME NEW c \in calls, BatchFailed(c) \/ BatchForgotten(c) PROVE PageInv'
    <3>1. CallsKept
      BY <2>3, <2>36 DEF BatchFailed, BatchForgotten
    <3> QED
      BY <2>1, <2>2, <2>36, <3>1 DEF BatchFailed, BatchForgotten
  <2>37. ASSUME NEW c \in calls, RetryAgain(c) PROVE PageInv'
    <3>1. CallsKept
      BY <2>5, <2>37 DEF RetryAgain
    <3> QED
      BY <2>1, <2>2, <2>37, <3>1 DEF RetryAgain
  <2>38. ASSUME NEW c \in calls, Failed(c) PROVE PageInv'
    <3>1. CallsKept
      BY <2>3, <2>38 DEF Failed
    <3>2. PicksFit'
      BY <2>6, <2>38 DEF Failed, PicksFit
    <3> QED
      BY <2>1, <2>2, <2>38, <3>1, <3>2 DEF Failed
  <2>39. CASE UNCHANGED recordsVars
    BY <2>1, <2>2, <2>39 DEF recordsVars
  <2>40. CASE UseForm
    BY <2>40, <2>7, <2>8, <2>9, <2>10, <2>11, <2>12, <2>13, <2>14, <2>15, <2>19, <2>20
       DEF UseForm
  <2>41. CASE UseTable
    BY <2>41, <2>16, <2>17, <2>18, <2>21, <2>22, <2>23, <2>24, <2>25, <2>26, <2>27
       DEF UseTable
  <2>42. CASE Serve
    BY <2>42, <2>28, <2>29, <2>30, <2>32 DEF Serve
  <2>43. CASE Answer
    BY <2>43, <2>31, <2>33, <2>34, <2>35, <2>36, <2>37, <2>38 DEF Answer
  <2> QED
    BY <2>39, <2>40, <2>41, <2>42, <2>43 DEF RecordsNext
<1> QED
  BY <1>1, <1>2, PTL DEF RecordsSpec

\* The drawer is right about its record, its task and its errors: a record is saved with
\* what was loaded or entered for it unless an upload begun in another form was there,
\* once at a time, and a retried task is not put back
\* (routes/_auth/records/$moulName.tsx).
THEOREM DrawerAlwaysSound == RecordsSpec => []DrawerSound
<1>1. PageInv => DrawerSound
  <2> SUFFICES ASSUME PageInv PROVE DrawerSound
    OBVIOUS
  <2>1. SavesItsOwn
    BY DEF PageInv, CallsFit, CallFits, OwnedBy, SavesItsOwn
  <2>2. OneSaveAtATime
    <3> DEFINE S == {c \in calls : c.kind \in {"create", "update"}}
    <3>1. S = {} \/ \E c \in S : S = {c}
      BY DEF PageInv, CallsFit, Saves
    <3>2. Cardinality(S) = 0 \/ Cardinality(S) = 1
      BY <3>1, FS_EmptySet, FS_Singleton
    <3> QED
      BY <3>2 DEF OneSaveAtATime
  <2>3. FormFollowsTask /\ ErrorsCurrent
    BY DEF PageInv, DrawerFits, ErrorsRight, FormFollowsTask, ErrorsCurrent
  <2> QED
    BY <2>1, <2>2, <2>3 DEF DrawerSound
<1> QED
  BY <1>1, PageInvHolds, PTL

-----------------------------------------------------------------------------
(***************************************************************************)
(* Proof that the table shows what this page wrote, and that a batch that  *)
(* is reported gone is gone, for any ids, fields, pages and bounds.        *)
(*                                                                         *)
(* What a row on the screen lacks is in a request still unanswered, is     *)
(* about to be asked for, or was written by another; the proof follows     *)
(* the writes from the answer to the fetch that shows them.                *)
(***************************************************************************)

(* Batches and what the table lacks *)

Gone(r, ids) == \A i \in ids : r[i] = Deleted

BatchFits(b, r) ==
  /\ b = [ids |-> b.ids, waiting |-> b.waiting, nr |-> b.nr] /\ b.nr \in Nat
  /\ b.ids \subseteq Ids /\ b.waiting \subseteq b.ids
  /\ b.waiting = {} => b.ids = {}
  /\ Gone(r, b.ids \ b.waiting)

AwaitedBy(c, b) == c.nr = b.nr /\ c.ids \subseteq b.waiting

\* A deletion of a batch is waited for, unless the batch failed and its records count
\* as unsure; one that succeeded is gone.
InBatch(c, b, r, u) ==
  c.kind = "batch" =>
    /\ c.nr \in Nat /\ c.nr <= b.nr
    /\ \E i : c.ids = {i}
    /\ AwaitedBy(c, b) \/ c.ids \subseteq u
    /\ c.answer = "ok" => Gone(r, c.ids)

Unlike(cs) ==
  \A c, d \in cs :
    c.kind = "batch" /\ d.kind = "batch" /\ c.nr = d.nr /\ c.ids = d.ids => c = d

BatchCalls(cs, b, r, u) == Unlike(cs) /\ \A c \in cs : InBatch(c, b, r, u)

\* What is known to have happened to a record that a list lacks.
Excused(i, cs, b, u) == i \in u \/ i \in b.ids \/ \E c \in cs : c.answer = "ok" /\ i \in c.ids

MissesExcused(ca, fe, ov, cs, b, u) ==
  \A p \in Pages \ ov :
    /\ ca[p].fresh => \A i \in ca[p].list.misses : Excused(i, cs, b, u)
    /\ fe[p] \notin {NoFetch, Sent} => \A i \in fe[p].misses : Excused(i, cs, b, u)

WritesInv ==
  /\ BatchFits(batch, rows)
  /\ BatchCalls(calls, batch, rows, unsure)
  /\ MissesExcused(cache, fetch, overtaken, calls, batch, unsure)

-----------------------------------------------------------------------------

\* What is gone stays so.
LEMMA GoneStays ==
  ASSUME PageInv, WritesInv,
         NEW r, \A i \in Ids : rows[i] = Deleted => r[i] = Deleted
  PROVE  BatchFits(batch, r) /\ BatchCalls(calls, batch, r, unsure)
BY DEF PageInv, CallsFit, CallFits, WritesInv, BatchFits, BatchCalls, InBatch, Gone

\* What is excused stays so, when no excuse is lost.
LEMMA ExcusesStay ==
  ASSUME MissesExcused(cache, fetch, overtaken, calls, batch, unsure),
         NEW cs, NEW b, NEW u,
         \A i : Excused(i, calls, batch, unsure) => Excused(i, cs, b, u)
  PROVE  MissesExcused(cache, fetch, overtaken, cs, b, u)
BY DEF MissesExcused

LEMMA SentExcused ==
  ASSUME PageInv, WritesInv, NEW c, c.kind # "batch", c.answer = "none",
         NEW cs, cs = With(c)
  PROVE  /\ BatchCalls(cs, batch, rows, unsure)
         /\ MissesExcused(cache, fetch, overtaken, cs, batch, unsure)
<1> DEFINE After(d) == [d EXCEPT !.latest = d.latest /\ d.kind # c.kind]
<1>1. ASSUME NEW d \in calls, NEW e, e = After(d)
      PROVE  e.kind = d.kind /\ e.ids = d.ids /\ e.nr = d.nr /\ e.answer = d.answer
  BY <1>1 DEF PageInv, CallsFit, CallFits
<1>2. cs = {After(d) : d \in calls} \cup {c}
  BY DEF With
<1> HIDE DEF After
<1>3. \A e \in cs : e = c \/ \E d \in calls : e = After(d)
  BY <1>2
<1>4. ASSUME NEW e \in cs PROVE InBatch(e, batch, rows, unsure)
  <2>1. CASE e = c
    BY <2>1 DEF InBatch
  <2>2. CASE e # c
    <3>1. PICK d \in calls : e = After(d)
      BY <1>3, <2>2
    <3>2. InBatch(d, batch, rows, unsure)
      BY DEF WritesInv, BatchCalls
    <3>3. e.kind = d.kind /\ e.ids = d.ids /\ e.nr = d.nr /\ e.answer = d.answer
      BY <1>1, <3>1
    <3> QED
      BY <3>2, <3>3 DEF InBatch, AwaitedBy
  <2> QED
    BY <2>1, <2>2
<1>5. ASSUME NEW e1 \in cs, NEW e2 \in cs, e1.kind = "batch", e2.kind = "batch",
             e1.nr = e2.nr, e1.ids = e2.ids
      PROVE  e1 = e2
  <2>1. PICK d1 \in calls, d2 \in calls : e1 = After(d1) /\ e2 = After(d2)
    BY <1>3, <1>5
  <2>2. d1 = d2
    BY <1>1, <1>5, <2>1 DEF WritesInv, BatchCalls, Unlike
  <2> QED
    BY <2>1, <2>2
<1>6. \A i : Excused(i, calls, batch, unsure) => Excused(i, cs, batch, unsure)
  <2>1. ASSUME NEW d \in calls
        PROVE  After(d) \in cs /\ After(d).ids = d.ids /\ After(d).answer = d.answer
    BY <1>1, <1>2
  <2> QED
    BY <2>1 DEF Excused
<1> QED
  BY <1>4, <1>5, <1>6, ExcusesStay DEF BatchCalls, Unlike, WritesInv

LEMMA BatchBegun ==
  ASSUME PageInv, WritesInv, BatchDelete
  PROVE  /\ BatchFits(batch', rows) /\ BatchCalls(calls', batch', rows, unsure)
         /\ MissesExcused(cache, fetch, overtaken, calls', batch', unsure)
<1> DEFINE n == batch.nr + 1
           Request(i) == [Call("batch", {i}, EmptyForm) EXCEPT !.nr = n]
<1>1. /\ batch' = [ids |-> selected, waiting |-> selected, nr |-> n]
      /\ calls' = calls \cup {Request(i) : i \in selected}
      /\ batch.waiting = {} /\ selected # {} /\ selected \subseteq Ids
  BY DEF BatchDelete, PageInv, PicksFit
<1>2. batch.nr \in Nat /\ n \in Nat /\ n > batch.nr /\ batch.ids = {}
  BY <1>1 DEF WritesInv, BatchFits
<1>3. /\ batch'.ids = selected /\ batch'.waiting = selected /\ batch'.nr = n
      /\ batch' = [ids |-> batch'.ids, waiting |-> batch'.waiting, nr |-> batch'.nr]
  BY <1>1
<1>4. ASSUME NEW i, NEW e, e = Request(i)
      PROVE  e.kind = "batch" /\ e.ids = {i} /\ e.nr = n /\ e.answer = "none"
  BY <1>4 DEF Call
<1> HIDE DEF Request, n
<1>5. BatchFits(batch', rows)
  BY <1>1, <1>2, <1>3 DEF BatchFits, Gone
<1>6. ASSUME NEW c \in calls, c.kind = "batch"
      PROVE  /\ c.nr \in Nat /\ c.nr <= batch.nr /\ c.ids \subseteq unsure
             /\ InBatch(c, batch', rows, unsure)
  <2>1. /\ c.nr \in Nat /\ c.nr <= batch.nr /\ (\E i : c.ids = {i})
        /\ AwaitedBy(c, batch) \/ c.ids \subseteq unsure
        /\ c.answer = "ok" => Gone(rows, c.ids)
    BY <1>6 DEF WritesInv, BatchCalls, InBatch
  <2>2. c.ids \subseteq unsure
    BY <1>1, <2>1 DEF AwaitedBy
  <2>3. c.nr <= batch'.nr
    BY <1>2, <1>3, <2>1
  <2> QED
    BY <2>1, <2>2, <2>3 DEF InBatch
<1>7. \A e \in calls' : e \in calls \/ \E i \in selected : e = Request(i)
  BY <1>1
<1>8. ASSUME NEW i \in selected, NEW e, e = Request(i)
      PROVE  InBatch(e, batch', rows, unsure)
  BY <1>2, <1>3, <1>4, <1>8 DEF InBatch, AwaitedBy
<1>9. \A e \in calls' : InBatch(e, batch', rows, unsure)
  BY <1>6, <1>7, <1>8 DEF InBatch
<1>10. Unlike(calls')
  <2> SUFFICES ASSUME NEW c \in calls', NEW d \in calls', c.kind = "batch", d.kind = "batch",
                      c.nr = d.nr, c.ids = d.ids
               PROVE  c = d
    BY DEF Unlike
  <2>1. CASE c \in calls /\ d \in calls
    BY <2>1 DEF WritesInv, BatchCalls, Unlike
  <2>2. CASE c \in calls /\ d \notin calls
    BY <1>2, <1>4, <1>6, <1>7, <2>2
  <2>3. CASE c \notin calls /\ d \in calls
    BY <1>2, <1>4, <1>6, <1>7, <2>3
  <2>4. CASE c \notin calls /\ d \notin calls
    BY <1>4, <1>7, <2>4
  <2> QED
    BY <2>1, <2>2, <2>3, <2>4
<1>11. \A i : Excused(i, calls, batch, unsure) => Excused(i, calls', batch', unsure)
  BY <1>1, <1>2 DEF Excused
<1> QED
  BY <1>5, <1>9, <1>10, <1>11, ExcusesStay DEF BatchCalls, WritesInv

\* A request gets its answer, or is tried again: the same request in other words.
LEMMA ReplacedInBatch ==
  ASSUME WritesInv, NEW c \in calls, NEW c2, c2.kind = c.kind, c2.nr = c.nr,
         c.kind = "batch" => c2.ids = c.ids,
         NEW r, BatchCalls(calls, batch, r, unsure), NEW u, unsure \subseteq u,
         c.kind = "batch" /\ c2.answer = "ok" => Gone(r, c.ids)
  PROVE  BatchCalls((calls \ {c}) \cup {c2}, batch, r, u)
<1>1. ASSUME NEW d \in calls PROVE InBatch(d, batch, r, u)
  BY DEF BatchCalls, InBatch
<1>2. InBatch(c2, batch, r, u)
  BY <1>1 DEF InBatch, AwaitedBy
<1>3. Unlike((calls \ {c}) \cup {c2})
  BY DEF BatchCalls, Unlike
<1> QED
  BY <1>1, <1>2, <1>3 DEF BatchCalls

LEMMA CarriedOutExcused ==
  ASSUME PageInv, WritesInv, NEW c \in calls, CarryOut(c)
  PROVE  WritesInv'
<1>1. CallFits(c) /\ c.answer = "none"
  BY DEF PageInv, CallsFit, CarryOut
<1>2. UNCHANGED <<batch, unsure, overtaken>>
  BY DEF CarryOut
<1>3. CASE Refused(c)
  <2>1. PICK c2 : c2 = [c EXCEPT !.answer = "failed"]
    OBVIOUS
  <2>2. c2.kind = c.kind /\ c2.nr = c.nr /\ c2.ids = c.ids /\ c2.answer = "failed"
    BY <1>1, <2>1 DEF CallFits
  <2>3. calls' = (calls \ {c}) \cup {c2} /\ UNCHANGED <<rows, cache, fetch>>
    BY <1>3, <2>1 DEF CarryOut
  <2>4. BatchCalls(calls', batch, rows, unsure)
    BY <2>2, <2>3, ReplacedInBatch DEF WritesInv
  <2>5. \A i : Excused(i, calls, batch, unsure) => Excused(i, calls', batch, unsure)
    BY <1>1, <2>3 DEF Excused
  <2>6. MissesExcused(cache, fetch, overtaken, calls', batch, unsure)
    BY <2>5, ExcusesStay DEF WritesInv
  <2> QED
    BY <1>2, <2>3, <2>4, <2>6 DEF WritesInv
<1>4. CASE ~Refused(c)
  <2>1. PICK new \in {i \in Ids : c.kind = "create" => rows[i] = Unused} :
          LET ids == Written(c, new) IN
          /\ rows' = Effect(c, new)
          /\ calls' = (calls \ {c}) \cup {[c EXCEPT !.answer = "ok", !.ids = @ \cup ids]}
          /\ cache' = [p \in Pages |-> [cache[p] EXCEPT !.list = Missing(@, ids)]]
          /\ fetch' = [p \in Pages |-> IF fetch[p] \in {NoFetch, Sent} THEN fetch[p]
                                       ELSE Missing(fetch[p], ids)]
    BY <1>4 DEF CarryOut
  <2>2. PICK ids : ids = Written(c, new)
    OBVIOUS
  <2>3. PICK c2 : c2 = [c EXCEPT !.answer = "ok", !.ids = @ \cup ids]
    OBVIOUS
  <2>4. c2.kind = c.kind /\ c2.nr = c.nr /\ c2.ids = c.ids \cup ids /\ c2.answer = "ok"
    BY <1>1, <2>3 DEF CallFits
  <2>5. calls' = (calls \ {c}) \cup {c2}
    BY <2>1, <2>2, <2>3
  <2>6. ASSUME NEW i \in Ids, rows[i] = Deleted PROVE rows'[i] = Deleted
    <3>1. i \notin Live /\ ~(c.kind = "create" /\ i = new)
      BY <2>6, <2>1 DEF Live, Deleted, Unused
    <3> QED
      BY <2>1, <2>6, <3>1 DEF Effect
  <2>7. BatchFits(batch, rows') /\ BatchCalls(calls, batch, rows', unsure)
    BY <2>6, GoneStays
  <2>8. ASSUME c.kind = "batch" PROVE c2.ids = c.ids /\ Gone(rows', c.ids)
    <3>1. c.ids \subseteq Live
      BY <1>4, <2>8 DEF Refused
    <3>2. ids = c.ids
      BY <2>2, <2>8, <3>1 DEF Written
    <3>3. \A i \in c.ids : i \in Ids /\ rows'[i] = Deleted
      BY <2>1, <2>8, <3>1 DEF Effect, Live
    <3> QED
      BY <2>4, <3>2, <3>3 DEF Gone
  <2>9. BatchCalls(calls', batch, rows', unsure)
    BY <2>4, <2>5, <2>7, <2>8, ReplacedInBatch
  <2>10. /\ \A i : Excused(i, calls, batch, unsure) => Excused(i, calls', batch, unsure)
         /\ \A i \in ids : Excused(i, calls', batch, unsure)
    BY <1>1, <2>4, <2>5 DEF Excused
  <2>11. ASSUME NEW p \in Pages \ overtaken
         PROVE  /\ cache'[p].fresh =>
                     \A i \in cache'[p].list.misses : Excused(i, calls', batch, unsure)
                /\ fetch'[p] \notin {NoFetch, Sent} =>
                     \A i \in fetch'[p].misses : Excused(i, calls', batch, unsure)
    <3>1. /\ cache[p] = [list |-> cache[p].list, fresh |-> cache[p].fresh]
          /\ ListFits(cache[p].list)
          /\ fetch[p] \in {NoFetch, Sent} \/ ListFits(fetch[p])
      BY DEF PageInv, TableFits, CacheFits, FetchFits
    <3>2. cache'[p] = [cache[p] EXCEPT !.list = Missing(cache[p].list, ids)]
      BY <2>1, <2>2, <3>1
    <3>3. /\ cache'[p].fresh = cache[p].fresh
          /\ cache'[p].list.misses = cache[p].list.misses \cup ids
      BY <3>1, <3>2, MissingFits
    <3>4. fetch'[p] \notin {NoFetch, Sent} =>
            fetch[p] \notin {NoFetch, Sent} /\ fetch'[p].misses = fetch[p].misses \cup ids
      BY <2>1, <2>2, <3>1, MissingFits
    <3> QED
      BY <2>10, <3>3, <3>4 DEF WritesInv, MissesExcused
  <2> QED
    BY <1>2, <2>7, <2>9, <2>11 DEF WritesInv, MissesExcused
<1> QED
  BY <1>3, <1>4

LEMMA LostExcused ==
  ASSUME PageInv, WritesInv, NEW c \in calls, Lose(c)
  PROVE  WritesInv'
<1>1. CallFits(c)
  BY DEF PageInv, CallsFit
<1>2. PICK c2 : c2 = [c EXCEPT !.answer = "failed"]
  OBVIOUS
<1>3. c2.kind = c.kind /\ c2.nr = c.nr /\ c2.ids = c.ids /\ c2.answer = "failed"
  BY <1>1, <1>2 DEF CallFits
<1>4. /\ calls' = (calls \ {c}) \cup {c2} /\ unsure \subseteq unsure'
      /\ c.answer = "ok" => c.ids \subseteq unsure'
      /\ UNCHANGED <<rows, listVars, batch>>
  BY <1>2 DEF Lose
<1>5. BatchCalls(calls', batch, rows, unsure')
  BY <1>3, <1>4, ReplacedInBatch DEF WritesInv
<1>6. \A i : Excused(i, calls, batch, unsure) => Excused(i, calls', batch, unsure')
  BY <1>4 DEF Excused
<1>7. MissesExcused(cache, fetch, overtaken, calls', batch, unsure')
  BY <1>6, ExcusesStay DEF WritesInv
<1> QED
  BY <1>4, <1>5, <1>7 DEF WritesInv, listVars

\* An answer that makes the page ask again.
LEMMA InvalidatedExcused ==
  ASSUME PageInv, WritesInv, Invalidate, NEW cs, NEW b, NEW u
  PROVE  MissesExcused(cache', fetch', overtaken', cs, b, u)
<1>1. ASSUME NEW p \in Pages \ overtaken'
      PROVE  cache'[p].fresh = FALSE /\ fetch'[p] \in {NoFetch, Sent}
  <2>1. cache[p] = [list |-> cache[p].list, fresh |-> cache[p].fresh]
    BY DEF PageInv, TableFits, CacheFits
  <2>2. cache'[p] = [cache[p] EXCEPT !.fresh = FALSE]
    BY DEF Invalidate, Stale
  <2>3. fetch'[p] \in {NoFetch, Sent}
    BY DEF Invalidate, PageInv, TableFits, FetchFits
  <2> QED
    BY <2>1, <2>2, <2>3
<1> QED
  BY <1>1 DEF MissesExcused

\* One answer of a batch, and what it says of the others.
LEMMA BatchAnsweredExcused ==
  ASSUME PageInv, WritesInv, NEW c \in calls, BatchAnswered(c)
  PROVE  WritesInv'
<1>1. /\ c.kind = "batch" /\ c.answer = "ok" /\ calls' = calls \ {c}
      /\ c.nr = batch.nr /\ c.ids \subseteq batch.waiting /\ UNCHANGED <<rows, unsure>>
  BY DEF BatchAnswered, Take, Awaited
<1>2. Gone(rows, c.ids) /\ \E i : c.ids = {i}
  BY <1>1 DEF WritesInv, BatchCalls, InBatch
<1>3. ASSUME NEW d \in calls', d.kind = "batch", AwaitedBy(d, batch)
      PROVE  d.ids \subseteq batch.waiting \ c.ids
  <2>1. d \in calls /\ d # c /\ \E i : d.ids = {i}
    BY <1>1, <1>3 DEF WritesInv, BatchCalls, InBatch
  <2>2. d.ids # c.ids
    BY <1>1, <1>3, <2>1 DEF WritesInv, BatchCalls, Unlike, AwaitedBy
  <2> QED
    BY <1>2, <1>3, <2>1, <2>2 DEF AwaitedBy
<1>4. /\ batch = [ids |-> batch.ids, waiting |-> batch.waiting, nr |-> batch.nr]
      /\ batch.nr \in Nat /\ batch.ids \subseteq Ids /\ batch.waiting \subseteq batch.ids
      /\ Gone(rows, batch.ids \ batch.waiting)
  BY DEF WritesInv, BatchFits
<1>5. ASSUME NEW b, b.nr = batch.nr, b.waiting = batch.waiting \ c.ids
      PROVE  BatchCalls(calls', b, rows, unsure)
  <2>1. Unlike(calls')
    BY <1>1 DEF WritesInv, BatchCalls, Unlike
  <2>2. ASSUME NEW d \in calls', d.kind = "batch"
        PROVE  InBatch(d, b, rows, unsure)
    <3>1. InBatch(d, batch, rows, unsure)
      BY <1>1 DEF WritesInv, BatchCalls
    <3> QED
      BY <1>3, <1>5, <2>2, <3>1 DEF InBatch, AwaitedBy
  <2> QED
    BY <2>1, <2>2 DEF BatchCalls, InBatch
<1>6. CASE LastAwaited(c)
  <2>1. Invalidate /\ batch' = [batch EXCEPT !.ids = {}, !.waiting = {}]
    BY <1>6 DEF BatchAnswered
  <2>2. /\ batch'.ids = {} /\ batch'.waiting = {} /\ batch'.nr = batch.nr
        /\ batch' = [ids |-> batch'.ids, waiting |-> batch'.waiting, nr |-> batch'.nr]
    BY <1>4, <2>1
  <2>3. batch'.waiting = batch.waiting \ c.ids
    BY <1>6, <2>2 DEF LastAwaited
  <2>4. BatchCalls(calls', batch', rows, unsure)
    BY <1>5, <2>2, <2>3
  <2>5. BatchFits(batch', rows)
    BY <1>4, <2>2 DEF BatchFits, Gone
  <2> QED
    BY <1>1, <2>1, <2>4, <2>5, InvalidatedExcused DEF WritesInv
<1>7. CASE ~LastAwaited(c)
  <2>1. batch' = [batch EXCEPT !.waiting = @ \ c.ids] /\ UNCHANGED <<cache, fetch, overtaken>>
    BY <1>7 DEF BatchAnswered
  <2>2. /\ batch'.ids = batch.ids /\ batch'.waiting = batch.waiting \ c.ids
        /\ batch'.nr = batch.nr
        /\ batch' = [ids |-> batch'.ids, waiting |-> batch'.waiting, nr |-> batch'.nr]
    BY <1>4, <2>1
  <2>3. BatchCalls(calls', batch', rows, unsure)
    BY <1>5, <2>2
  <2>4. batch'.waiting # {}
    BY <1>1, <1>7, <2>2 DEF LastAwaited
  <2>5. BatchFits(batch', rows)
    BY <1>2, <1>4, <2>2, <2>4 DEF BatchFits, Gone
  <2>6. \A i : Excused(i, calls, batch, unsure) => Excused(i, calls', batch', unsure)
    BY <1>1, <1>4, <2>2 DEF Excused
  <2>7. MissesExcused(cache, fetch, overtaken, calls', batch', unsure)
    BY <2>6, ExcusesStay DEF WritesInv
  <2> QED
    BY <1>1, <2>1, <2>3, <2>5, <2>7 DEF WritesInv
<1> QED
  BY <1>6, <1>7

LEMMA BatchFailedExcused ==
  ASSUME PageInv, WritesInv, NEW c \in calls, BatchFailed(c)
  PROVE  WritesInv'
<1>1. /\ c.answer = "failed" /\ calls' = calls \ {c} /\ unsure' = unsure \cup batch.ids
      /\ batch' = [batch EXCEPT !.ids = {}, !.waiting = {}]
      /\ UNCHANGED <<rows, cache, fetch, overtaken>>
  BY DEF BatchFailed, listVars
<1>2. /\ batch = [ids |-> batch.ids, waiting |-> batch.waiting, nr |-> batch.nr]
      /\ batch.nr \in Nat /\ batch.ids \subseteq Ids /\ batch.waiting \subseteq batch.ids
  BY DEF WritesInv, BatchFits
<1>3. /\ batch'.ids = {} /\ batch'.waiting = {} /\ batch'.nr = batch.nr
      /\ batch' = [ids |-> batch'.ids, waiting |-> batch'.waiting, nr |-> batch'.nr]
  BY <1>1, <1>2
<1>4. BatchFits(batch', rows)
  BY <1>2, <1>3 DEF BatchFits, Gone
<1>5. BatchCalls(calls', batch', rows, unsure')
  <2>1. ASSUME NEW d \in calls PROVE InBatch(d, batch', rows, unsure')
    <3>1. InBatch(d, batch, rows, unsure)
      BY DEF WritesInv, BatchCalls
    <3> QED
      BY <1>1, <1>2, <1>3, <3>1 DEF InBatch, AwaitedBy
  <2> QED
    BY <1>1, <2>1 DEF WritesInv, BatchCalls, Unlike
<1>6. \A i : Excused(i, calls, batch, unsure) => Excused(i, calls', batch', unsure')
  BY <1>1 DEF Excused
<1>7. MissesExcused(cache, fetch, overtaken, calls', batch', unsure')
  BY <1>6, ExcusesStay DEF WritesInv
<1> QED
  BY <1>1, <1>4, <1>5, <1>7 DEF WritesInv

\* A request ends that excused nothing, or only what is excused without it.
LEMMA EndedExcused ==
  ASSUME PageInv, WritesInv, NEW c \in calls, calls' = calls \ {c},
         c.answer = "ok" => c.ids \subseteq unsure,
         UNCHANGED <<rows, cache, fetch, overtaken, batch, unsure>>
  PROVE  WritesInv'
<1>1. BatchCalls(calls', batch, rows, unsure)
  BY DEF WritesInv, BatchCalls, Unlike
<1>2. \A i : Excused(i, calls, batch, unsure) => Excused(i, calls', batch, unsure)
  BY DEF Excused
<1>3. MissesExcused(cache, fetch, overtaken, calls', batch, unsure)
  BY <1>2, ExcusesStay DEF WritesInv
<1> QED
  BY <1>1, <1>3 DEF WritesInv

LEMMA WritesInvHolds == RecordsSpec => []WritesInv
<1>1. RecordsInit => WritesInv
  <2> SUFFICES ASSUME RecordsInit PROVE WritesInv
    OBVIOUS
  <2>1. BatchFits(batch, rows) /\ BatchCalls(calls, batch, rows, unsure)
    BY DEF RecordsInit, NoBatch, BatchFits, BatchCalls, Unlike, Gone
  <2>2. \A p \in Pages : cache[p].fresh = FALSE /\ fetch[p] = NoFetch
    BY DEF RecordsInit
  <2> QED
    BY <2>1, <2>2 DEF WritesInv, MissesExcused
<1>2. PageInv /\ WritesInv /\ [RecordsNext]_recordsVars => WritesInv'
  <2> SUFFICES ASSUME PageInv, WritesInv, [RecordsNext]_recordsVars
               PROVE  WritesInv'
    OBVIOUS
  <2> USE DEF listVars, dialogVars
  <2>1. ASSUME UNCHANGED <<rows, cache, fetch, overtaken, batch, calls, unsure>>
        PROVE  WritesInv'
    BY <2>1 DEF WritesInv
  <2>2. ASSUME NEW k, k # "batch", NEW ids, NEW data, calls' = With(Call(k, ids, data)),
               UNCHANGED <<rows, cache, fetch, overtaken, batch, unsure>>
        PROVE  WritesInv'
    <3>1. PICK c : c = Call(k, ids, data)
      OBVIOUS
    <3>2. c.kind = k /\ c.answer = "none"
      BY <3>1 DEF Call
    <3>3. /\ BatchCalls(calls', batch, rows, unsure)
          /\ MissesExcused(cache, fetch, overtaken, calls', batch, unsure)
      BY <2>2, <3>1, <3>2, SentExcused
    <3> QED
      BY <2>2, <3>3 DEF WritesInv
  <2>3. ASSUME UNCHANGED <<cache, fetch, overtaken, batch, calls, unsure>>,
               \A i \in Ids : rows[i] = Deleted => rows'[i] = Deleted
        PROVE  WritesInv'
    <3>1. BatchFits(batch, rows') /\ BatchCalls(calls, batch, rows', unsure)
      BY <2>3, GoneStays
    <3> QED
      BY <2>3, <3>1 DEF WritesInv
  <2>4. ASSUME NEW fe, fetch' = fe, UNCHANGED <<rows, overtaken, batch, calls, unsure>>,
               MissesExcused(cache', fe, overtaken, calls, batch, unsure)
        PROVE  WritesInv'
    BY <2>4 DEF WritesInv
  <2>5. CASE UseForm
    <3>1. \/ UNCHANGED <<rows, cache, fetch, overtaken, batch, calls, unsure>>
          \/ \E k \in {"create", "update", "retry", "discard"} : \E ids, data :
               calls' = With(Call(k, ids, data))
               /\ UNCHANGED <<rows, cache, fetch, overtaken, batch, unsure>>
      <4>1. ASSUME SaveRecord \/ DiscardTask \/ \E i \in Ids : RetryTask(i)
            PROVE  \/ UNCHANGED <<rows, cache, fetch, overtaken, batch, calls, unsure>>
                   \/ \E k \in {"create", "update", "retry", "discard"} : \E ids, data :
                        calls' = With(Call(k, ids, data))
                        /\ UNCHANGED <<rows, cache, fetch, overtaken, batch, unsure>>
        BY <4>1 DEF SaveRecord, DiscardTask, RetryTask
      <4>2. ASSUME \/ OpenCreate \/ CloseDrawer \/ \E i \in Ids : OpenDetail(i)
                   \/ \E f \in RecordFields :
                        \/ Leave(f) \/ StartUpload(f)
                        \/ \E v \in {NoValue, Owner} : Type(f, v) \/ Choose(f, v)
                   \/ \E u \in uploads : EndUpload(u) \/ FailUpload(u)
            PROVE  UNCHANGED <<rows, cache, fetch, overtaken, batch, calls, unsure>>
        BY <4>2 DEF OpenCreate, CloseDrawer, OpenDetail, Leave, StartUpload, Type, Choose,
                    EndUpload, FailUpload
      <4> QED
        BY <2>5, <4>1, <4>2 DEF UseForm
    <3> QED
      BY <2>1, <2>2, <3>1
  <2>6. CASE UseTable
    <3>1. CASE BatchDelete
      <4>1. /\ BatchFits(batch', rows) /\ BatchCalls(calls', batch', rows, unsure)
            /\ MissesExcused(cache, fetch, overtaken, calls', batch', unsure)
        BY <3>1, BatchBegun
      <4>2. UNCHANGED <<rows, cache, fetch, overtaken, unsure>>
        BY <3>1 DEF BatchDelete
      <4> QED
        BY <4>1, <4>2 DEF WritesInv
    <3>2. CASE ConfirmDelete
      BY <2>2, <3>2 DEF ConfirmDelete
    <3>3. CASE BatchRetry
      BY <2>2, <3>3 DEF BatchRetry
    <3>4. CASE \/ \E i \in Ids : AskDelete(i) \/ SelectRecord(i)
               \/ \E on \in BOOLEAN : SelectAll(on)
               \/ \E p \in Pages : Turn(p)
               \/ ClearSelection \/ DismissDelete \/ AskBatchDelete \/ DismissBatchDelete
      <4>1. UNCHANGED <<rows, cache, fetch, overtaken, batch, calls, unsure>>
        BY <3>4 DEF AskDelete, SelectRecord, SelectAll, Turn, ClearSelection, DismissDelete,
                    AskBatchDelete, DismissBatchDelete
      <4> QED
        BY <2>1, <4>1
    <3> QED
      BY <2>6, <3>1, <3>2, <3>3, <3>4 DEF UseTable
  <2>7. CASE Serve
    <3>1. ASSUME NEW c \in calls, CarryOut(c) \/ Lose(c) PROVE WritesInv'
      BY <3>1, CarriedOutExcused, LostExcused
    <3>2. ASSUME NEW i \in Ids, OtherDeletes(i) \/ EngineMoves(i) PROVE WritesInv'
      <4>1. i \in Live /\ UNCHANGED <<cache, fetch, overtaken, batch, calls, unsure>>
        BY <3>2 DEF OtherDeletes, EngineMoves
      <4>2. \E w : rows' = [rows EXCEPT ![i] = w]
        BY <3>2 DEF OtherDeletes, EngineMoves
      <4>3. rows = [j \in Ids |-> rows[j]] /\ rows[i] # Deleted
        BY <4>1 DEF PageInv, TableFits, RowsFit, Live
      <4>4. \A j \in Ids : rows[j] = Deleted => rows'[j] = Deleted
        BY <4>2, <4>3
      <4> QED
        BY <2>3, <4>1, <4>4
    <3>3. ASSUME NEW p \in Pages, ListRecords(p) PROVE WritesInv'
      <4>1. PICK l : l = [row |-> [i \in OnPage(p) |-> rows[i]], misses |-> {}]
        OBVIOUS
      <4>2. l.misses = {} /\ fetch' = [fetch EXCEPT ![p] = l]
        BY <3>3, <4>1 DEF ListRecords
      <4>3. fetch = [q \in Pages |-> fetch[q]]
        BY DEF PageInv, TableFits, FetchFits
      <4>4. MissesExcused(cache, fetch', overtaken, calls, batch, unsure)
        BY <4>2, <4>3 DEF WritesInv, MissesExcused
      <4> QED
        BY <2>4, <3>3, <4>4 DEF ListRecords
    <3> QED
      BY <2>7, <3>1, <3>2, <3>3 DEF Serve
  <2>8. CASE Answer
    <3> fetch = [q \in Pages |-> fetch[q]] /\ cache = [q \in Pages |-> cache[q]]
      BY DEF PageInv, TableFits, FetchFits, CacheFits
    <3>1. CASE StartFetch
      <4>1. fetch' = [fetch EXCEPT ![pageNr] = Sent]
            /\ UNCHANGED <<rows, cache, overtaken, batch, calls, unsure>>
        BY <3>1 DEF StartFetch
      <4>2. MissesExcused(cache, fetch', overtaken, calls, batch, unsure)
        BY <4>1 DEF WritesInv, MissesExcused
      <4> QED
        BY <2>4, <4>1, <4>2
    <3>2. ASSUME NEW p \in Pages, EndFetch(p) PROVE WritesInv'
      <4>1. /\ cache' = [cache EXCEPT ![p] = [list |-> fetch[p], fresh |-> TRUE]]
            /\ fetch' = [fetch EXCEPT ![p] = NoFetch] /\ fetch[p] \notin {NoFetch, Sent}
            /\ UNCHANGED <<rows, overtaken, batch, calls, unsure>>
        BY <3>2 DEF EndFetch
      <4>2. MissesExcused(cache', fetch', overtaken, calls, batch, unsure)
        BY <4>1 DEF WritesInv, MissesExcused
      <4> QED
        BY <2>4, <4>1, <4>2
    <3>3. ASSUME NEW c \in calls, Created(c) \/ Updated(c) \/ DeleteAnswered(c) \/ Retried(c)
                                    \/ DiscardAnswered(c) \/ AllRetried(c)
          PROVE  WritesInv'
      <4>1. Invalidate /\ UNCHANGED <<rows, batch, unsure>> /\ calls' = calls \ {c}
        BY <3>3 DEF Created, Updated, DeleteAnswered, Retried, DiscardAnswered, AllRetried, Take
      <4>2. MissesExcused(cache', fetch', overtaken', calls', batch, unsure)
        BY <4>1, InvalidatedExcused
      <4>3. BatchCalls(calls', batch, rows, unsure)
        BY <4>1 DEF WritesInv, BatchCalls, Unlike
      <4> QED
        BY <4>1, <4>2, <4>3 DEF WritesInv
    <3>4. ASSUME NEW c \in calls, BatchAnswered(c) \/ BatchFailed(c) PROVE WritesInv'
      BY <3>4, BatchAnsweredExcused, BatchFailedExcused
    <3>5. ASSUME NEW c \in calls, BatchForgotten(c) PROVE WritesInv'
      <4>1. c.ids \subseteq unsure
        BY <3>5 DEF BatchForgotten, Awaited, WritesInv, BatchCalls, InBatch, AwaitedBy
      <4> QED
        BY <3>5, <4>1, EndedExcused DEF BatchForgotten
    <3>6. ASSUME NEW c \in calls, RetryAgain(c) PROVE WritesInv'
      <4>1. CallFits(c) /\ c.kind = "retry" /\ c.answer = "failed"
        BY <3>6 DEF RetryAgain, PageInv, CallsFit
      <4>2. PICK c2 : c2 = [c EXCEPT !.again = TRUE, !.answer = "none"]
        OBVIOUS
      <4>3. c2.kind = c.kind /\ c2.nr = c.nr
        BY <4>1, <4>2 DEF CallFits
      <4>4. /\ calls' = (calls \ {c}) \cup {c2}
            /\ UNCHANGED <<rows, cache, fetch, overtaken, batch, unsure>>
        BY <3>6, <4>2 DEF RetryAgain
      <4>5. BatchCalls(calls', batch, rows, unsure)
        BY <4>1, <4>3, <4>4, ReplacedInBatch DEF WritesInv
      <4>6. \A i : Excused(i, calls, batch, unsure) => Excused(i, calls', batch, unsure)
        BY <4>1, <4>4 DEF Excused
      <4>7. MissesExcused(cache, fetch, overtaken, calls', batch, unsure)
        BY <4>6, ExcusesStay DEF WritesInv
      <4> QED
        BY <4>4, <4>5, <4>7 DEF WritesInv
    <3>7. ASSUME NEW c \in calls, Failed(c) PROVE WritesInv'
      BY <3>7, EndedExcused DEF Failed
    <3> QED
      BY <2>8, <3>1, <3>2, <3>3, <3>4, <3>5, <3>6, <3>7 DEF Answer
  <2>9. CASE UNCHANGED recordsVars
    BY <2>1, <2>9 DEF recordsVars
  <2> QED
    BY <2>5, <2>6, <2>7, <2>8, <2>9 DEF RecordsNext
<1> QED
  BY <1>1, <1>2, PageInvHolds, PTL DEF RecordsSpec

\* A page of the table that counts as fresh lacks no write of the page that was
\* answered, whatever was listed, answered or lost meanwhile (the invalidations in
\* routes/_auth/records/$moulName.tsx).
THEOREM OwnWritesAlwaysShown == RecordsSpec => []OwnWritesShown
<1>1. WritesInv => OwnWritesShown
  BY DEF WritesInv, MissesExcused, Excused, OwnWritesShown
<1> QED
  BY <1>1, WritesInvHolds, PTL

\* The dialog of a batch closes with a success only when every record it named is
\* gone (handleBatchDelete).
THEOREM BatchAlwaysAllGone == RecordsSpec => BatchAllGone
<1> DEFINE Done == batch.waiting # {} /\ batch'.waiting = {} /\ selected # {} /\ selected' = {}
                     => batch.ids \cap Live = {}
<1>1. PageInv /\ WritesInv /\ [RecordsNext]_recordsVars => [Done]_recordsVars
  <2> SUFFICES ASSUME PageInv, WritesInv, RecordsNext, batch.waiting # {},
                      batch'.waiting = {}, selected # {}, selected' = {}
               PROVE  batch.ids \cap Live = {}
    OBVIOUS
  <2> USE DEF listVars, dialogVars
  <2>1. PICK c \in calls : BatchAnswered(c)
    <3>1. ASSUME UNCHANGED batch PROVE FALSE
      BY <3>1
    <3>2. CASE UseForm
      BY <3>1, <3>2 DEF UseForm, OpenCreate, CloseDrawer, SaveRecord, DiscardTask, OpenDetail,
         RetryTask, Type, Choose, Leave, StartUpload, EndUpload, FailUpload
    <3>3. CASE UseTable
      BY <3>1, <3>3 DEF UseTable, AskDelete, SelectRecord, SelectAll, Turn, ClearSelection,
         DismissDelete, ConfirmDelete, AskBatchDelete, DismissBatchDelete, BatchDelete, BatchRetry
    <3>4. CASE Serve
      BY <3>1, <3>4 DEF Serve, CarryOut, Lose, OtherDeletes, EngineMoves, ListRecords
    <3>5. CASE Answer
      BY <3>1, <3>5 DEF Answer, StartFetch, EndFetch, Created, Updated, DeleteAnswered, Retried,
         DiscardAnswered, AllRetried, BatchFailed, BatchForgotten, RetryAgain, Failed
    <3> QED
      BY <3>2, <3>3, <3>4, <3>5 DEF RecordsNext
  <2>2. c.kind = "batch" /\ c.answer = "ok" /\ c.ids \subseteq batch.waiting
    BY <2>1 DEF BatchAnswered, Take, Awaited
  <2>3. LastAwaited(c)
    <3>1. CASE ~LastAwaited(c)
      BY <2>1, <3>1 DEF BatchAnswered
    <3> QED
      BY <3>1
  <2>4. Gone(rows, c.ids) /\ Gone(rows, batch.ids \ batch.waiting)
    BY <2>2 DEF WritesInv, BatchCalls, InBatch, BatchFits
  <2> QED
    BY <2>3, <2>4 DEF LastAwaited, Gone, Live
<1> QED
  BY <1>1, PageInvHolds, WritesInvHolds, PTL DEF RecordsSpec, BatchAllGone

-----------------------------------------------------------------------------
(***************************************************************************)
(* Proof that the settings page saves what it showed and loses no edit,    *)
(* for any rules, keys, drawers and bounds.                                *)
(*                                                                         *)
(* A form differs from what was known when its drawer was opened only in   *)
(* what was typed since (SectionSound, RuleSound), and an index names the  *)
(* rule it was taken for until another list is read (DoomedSound).         *)
(***************************************************************************)

(* Forms and their keys *)

LEMMA SettingsModes ==
  /\ DOMAIN SettingsKeys = {"s3", "litestream", "rootips", "email", "global", "github",
                            "google", "apple"}
  /\ \A m \in DOMAIN SettingsKeys : "none" \notin SettingsKeys[m]
<1> DEFINE f == [s3 |-> S3Keys, litestream |-> LitestreamKeys, rootips |-> RootIPsKeys,
                 email |-> EmailKeys]
<1>1. DOMAIN f = {"s3", "litestream", "rootips", "email"}
      /\ \A m \in DOMAIN f : "none" \notin f[m]
  <2>1. "none" \notin S3Keys /\ "none" \notin LitestreamKeys /\ "none" \notin RootIPsKeys
        /\ "none" \notin EmailKeys
    BY DEF S3Keys, LitestreamKeys, RootIPsKeys, EmailKeys
  <2> QED
    BY <2>1
<1>2. DOMAIN OAuthKeys = {"global", "github", "google", "apple"}
      /\ \A m \in DOMAIN OAuthKeys : "none" \notin OAuthKeys[m]
  BY DEF OAuthKeys
<1>3. SettingsKeys = Joined(f, OAuthKeys)
  BY DEF SettingsKeys
<1> HIDE DEF f
<1>4. SettingsKeys = [m \in DOMAIN f \cup DOMAIN OAuthKeys |->
                        IF m \in DOMAIN f THEN f[m] ELSE OAuthKeys[m]]
  BY <1>3 DEF Joined
<1> QED
  BY <1>1, <1>2, <1>4

LEMMA FormModes ==
  /\ DOMAIN FormKeys = DOMAIN SettingsKeys \cup {"account", "password"}
  /\ FormKeys["account"] = AccountKeys /\ FormKeys["password"] = PasswordKeys
  /\ \A m \in DOMAIN FormKeys : "none" \notin FormKeys[m]
<1> DEFINE g == [account |-> AccountKeys, password |-> PasswordKeys]
<1>1. DOMAIN g = {"account", "password"} /\ g["account"] = AccountKeys
      /\ g["password"] = PasswordKeys
  OBVIOUS
<1>2. "none" \notin AccountKeys /\ "none" \notin PasswordKeys
  BY DEF AccountKeys, PasswordKeys
<1>3. FormKeys = Joined(SettingsKeys, g)
  BY DEF FormKeys
<1> HIDE DEF g
<1>4. FormKeys = [m \in DOMAIN SettingsKeys \cup DOMAIN g |->
                    IF m \in DOMAIN SettingsKeys THEN SettingsKeys[m] ELSE g[m]]
  BY <1>3 DEF Joined
<1> QED
  BY <1>1, <1>2, <1>4, SettingsModes

FormFits(m, form) == form = [k \in FormKeys[m] |-> form[k]]

LEMMA FormsFit ==
  ASSUME NEW m \in DOMAIN FormKeys, NEW values
  PROVE  /\ FormFits(m, Filled(m, values)) /\ Filled(m, values) # NoSnapshot
         /\ FormFits(m, BlankForm(m)) /\ BlankForm(m) # NoSnapshot
         /\ FormFits("account", [k \in AccountKeys |-> "theirs"])
         /\ [k \in AccountKeys |-> "theirs"] # NoSnapshot
<1>1. "none" \notin FormKeys[m] /\ "none" \notin AccountKeys /\ FormKeys["account"] = AccountKeys
  BY FormModes DEF AccountKeys
<1>2. DOMAIN Filled(m, values) = FormKeys[m] /\ DOMAIN BlankForm(m) = FormKeys[m]
      /\ DOMAIN NoSnapshot = {"none"}
  BY DEF Filled, BlankForm, NoSnapshot
<1>3. Filled(m, values) # NoSnapshot /\ BlankForm(m) # NoSnapshot
      /\ [k \in AccountKeys |-> "theirs"] # NoSnapshot
  BY <1>1, <1>2
<1> QED
  BY <1>1, <1>3 DEF FormFits, Filled, BlankForm

-----------------------------------------------------------------------------
(* Lists of rules *)

RuleShape(r) == r = [rule |-> r.rule, text |-> r.text] /\ r.text \in {"", "mine", "stored"}

RulesFit(l) == \E S : (\A r \in S : RuleShape(r)) /\ l \in Seq(S)

LEMMA RulesFitFacts ==
  ASSUME NEW l, RulesFit(l)
  PROVE  /\ Len(l) \in Nat /\ DOMAIN l = 1..Len(l) /\ l = [i \in 1..Len(l) |-> l[i]]
         /\ \A i \in DOMAIN l : RuleShape(l[i])
<1>1. PICK S : (\A r \in S : RuleShape(r)) /\ l \in Seq(S)
  BY DEF RulesFit
<1> QED
  BY <1>1

LEMMA RulesMade ==
  ASSUME NEW n \in Nat, NEW l, l = [i \in 1..n |-> l[i]], \A i \in 1..n : RuleShape(l[i])
  PROVE  RulesFit(l)
<1> DEFINE S == {l[i] : i \in 1..n}
<1>1. \A r \in S : RuleShape(r)
  OBVIOUS
<1>2. l \in Seq(S)
  <2>1. l \in [1..n -> S]
    OBVIOUS
  <2> HIDE DEF S
  <2> QED
    BY <2>1
<1> QED
  BY <1>1, <1>2 DEF RulesFit

LEMMA NoRules == RulesFit(<<>>)
<1>1. <<>> \in Seq({})
  OBVIOUS
<1> QED
  BY <1>1 DEF RulesFit

LEMMA AppendedFits ==
  ASSUME NEW l, RulesFit(l), NEW r, RuleShape(r)
  PROVE  RulesFit(Append(l, r))
<1>1. PICK S : (\A x \in S : RuleShape(x)) /\ l \in Seq(S)
  BY DEF RulesFit
<1> DEFINE T == S \cup {r}
<1>2. \A x \in T : RuleShape(x)
  BY <1>1
<1>3. l \in Seq(T) /\ r \in T
  BY <1>1
<1> HIDE DEF T
<1>4. Append(l, r) \in Seq(T)
  BY <1>3
<1> QED
  BY <1>2, <1>4 DEF RulesFit

LEMMA ReplacedFits ==
  ASSUME NEW l, RulesFit(l), NEW i \in Nat, NEW r, RuleShape(r)
  PROVE  RulesFit(Replaced(l, i, r))
<1>1. PICK n : n = IF i > Len(l) THEN i ELSE Len(l)
  OBVIOUS
<1>2. PICK k : k = Replaced(l, i, r)
  OBVIOUS
<1>3. n \in Nat
  BY <1>1, RulesFitFacts
<1>4. k = [j \in 1..n |-> IF j = i THEN r ELSE IF j \in DOMAIN l THEN l[j] ELSE Hole]
  BY <1>1, <1>2 DEF Replaced
<1>5. \A j \in 1..n : RuleShape(k[j])
  <2> SUFFICES ASSUME NEW j \in 1..n PROVE RuleShape(k[j])
    OBVIOUS
  <2>1. RuleShape(Hole)
    BY DEF RuleShape, Hole
  <2>2. k[j] = IF j = i THEN r ELSE IF j \in DOMAIN l THEN l[j] ELSE Hole
    BY <1>4
  <2> QED
    BY <2>1, <2>2, RulesFitFacts
<1>6. k = [j \in 1..n |-> k[j]]
  BY <1>4
<1> QED
  BY <1>2, <1>3, <1>5, <1>6, RulesMade

LEMMA WithoutFits ==
  ASSUME NEW l, RulesFit(l), NEW i \in Nat \ {0}
  PROVE  RulesFit(Without(l, i))
<1>1. PICK n : n = Len(l) - (IF i \in DOMAIN l THEN 1 ELSE 0)
  OBVIOUS
<1>2. PICK k : k = Without(l, i)
  OBVIOUS
<1>3. n \in Nat /\ (i \in DOMAIN l => n + 1 = Len(l)) /\ (i \notin DOMAIN l => n = Len(l))
  BY <1>1, RulesFitFacts
<1>4. k = [j \in 1..n |-> IF j < i THEN l[j] ELSE l[j + 1]]
  BY <1>1, <1>2 DEF Without
<1>5. \A j \in 1..n : RuleShape(k[j])
  <2> SUFFICES ASSUME NEW j \in 1..n PROVE RuleShape(k[j])
    OBVIOUS
  <2>1. k[j] = IF j < i THEN l[j] ELSE l[j + 1]
    BY <1>4
  <2>2. CASE i \in DOMAIN l
    <3>1. j \in DOMAIN l /\ j + 1 \in DOMAIN l
      BY <2>2, <1>3, RulesFitFacts
    <3> QED
      BY <2>1, <3>1, RulesFitFacts
  <2> QED
    BY <2>1, <2>2, <1>3, RulesFitFacts
<1>6. k = [j \in 1..n |-> k[j]]
  BY <1>4
<1> QED
  BY <1>2, <1>3, <1>5, <1>6, RulesMade

-----------------------------------------------------------------------------
(* The invariant *)

EngineFits(x) ==
  x = [keys |-> x.keys, throttle |-> x.throttle, rules |-> x.rules] /\ RulesFit(x.rules)

EnginesFit ==
  /\ EngineFits(engine)
  /\ known = NoData \/ EngineFits(known)
  /\ reading \in {NotReading, Asked} \/ EngineFits(reading)

DraftsFit ==
  /\ drafts = [m \in DOMAIN FormKeys |-> drafts[m]]
  /\ \A m \in DOMAIN FormKeys : FormFits(m, drafts[m])
  /\ RuleShape(ruleDraft)
  /\ known = NoData => ruleDraft.rule = NewRule

SheetShape(sh) ==
  /\ sh = [mode |-> sh.mode, at |-> sh.at, snapshot |-> sh.snapshot, index |-> sh.index,
           typed |-> sh.typed, shifted |-> sh.shifted, rule |-> sh.rule]
  /\ sh.mode \in DOMAIN FormKeys \cup {"ratelimit-add", "ratelimit-edit"}
  /\ sh.at = NoData \/ EngineFits(sh.at)
  /\ sh.shifted \in BOOLEAN

\* The form of a section shows what was known, but for what was typed in it.
SectionSound(sh, d) ==
  sh.mode \in DOMAIN SettingsKeys /\ sh.at # NoData =>
    /\ sh.snapshot = Filled(sh.mode, sh.at.keys)
    /\ \A k \in FormKeys[sh.mode] \ sh.typed :
         d[sh.mode][k] = Filled(sh.mode, sh.at.keys)[k]

AccountSound(sh, d) ==
  /\ sh.mode = "account" =>
       /\ sh.snapshot = [k \in AccountKeys |-> "theirs"]
       /\ \A k \in AccountKeys \ sh.typed : d["account"][k] = "theirs"
  /\ sh.mode = "password" => sh.snapshot = BlankForm("password")

\* The drawer of a new rule holds one; the drawer of a rule holds that rule, and
\* the list is the one it was opened from until another is read.
RuleSound(sh, r, k) ==
  /\ sh.mode = "ratelimit-add" =>
       r.rule = NewRule /\ (sh.at # NoData => sh.snapshot = BlankRule)
  /\ sh.mode = "ratelimit-edit" =>
       /\ sh.at # NoData /\ k # NoData
       /\ sh.index \in DOMAIN sh.at.rules
       /\ sh.snapshot = sh.at.rules[sh.index]
       /\ r.rule = sh.rule /\ sh.rule = sh.at.rules[sh.index].rule
       /\ ~sh.shifted => k.rules = sh.at.rules

SheetSound(sh, d, r, k) ==
  SheetShape(sh) /\ SectionSound(sh, d) /\ AccountSound(sh, d) /\ RuleSound(sh, r, k)

SheetInv == sheet # NoSheet => SheetSound(sheet, drafts, ruleDraft, known)

\* The dialog names a rule of the list it was opened from.
DoomedSound(dm, k) ==
  /\ dm = [index |-> dm.index, rule |-> dm.rule, shifted |-> dm.shifted]
  /\ dm.shifted \in BOOLEAN
  /\ dm.index \in Nat \ {0}
  /\ k # NoData
  /\ ~dm.shifted => dm.index \in DOMAIN k.rules /\ k.rules[dm.index].rule = dm.rule

DoomedInv == doomed # NoRule => DoomedSound(doomed, known)

SaveShape(s) ==
  /\ s = [what |-> s.what, keys |-> s.keys, rules |-> s.rules, throttle |-> s.throttle,
          from |-> s.from, sheet |-> s.sheet, doomed |-> s.doomed, state |-> s.state,
          latest |-> s.latest]
  /\ RulesFit(s.rules)

SaveSound(s) == SaveShape(s) /\ SectionAsShown(s) /\ RulesAsShown(s)

SavesInv == \A s \in saves : SaveSound(s)

SettingsInv == EnginesFit /\ DraftsFit /\ SheetInv /\ DoomedInv /\ SavesInv

-----------------------------------------------------------------------------
(* The parts of the state told apart *)

LEMMA EnginesTold ==
  ASSUME NEW x, EngineFits(x)
  PROVE  x # NoData /\ x # NotReading /\ x # Asked
<1>1. DOMAIN x = {"keys", "throttle", "rules"}
  BY DEF EngineFits
<1>2. DOMAIN NoData = {"unread"} /\ DOMAIN NotReading = {"idle"} /\ DOMAIN Asked = {"asked"}
  BY DEF NoData, NotReading, Asked
<1> QED
  BY <1>1, <1>2

LEMMA RulesTold ==
  ASSUME NEW r, RuleShape(r)
  PROVE  r # NoSnapshot
<1>1. DOMAIN r = {"rule", "text"}
  BY DEF RuleShape
<1>2. DOMAIN NoSnapshot = {"none"}
  BY DEF NoSnapshot
<1> QED
  BY <1>1, <1>2

LEMMA SheetsTold ==
  ASSUME NEW sh, SheetShape(sh)
  PROVE  sh # NoSheet
<1>1. DOMAIN sh = {"mode", "at", "snapshot", "index", "typed", "shifted", "rule"}
  BY DEF SheetShape
<1>2. DOMAIN NoSheet = {"mode"}
  BY DEF NoSheet
<1> QED
  BY <1>1, <1>2

LEMMA ModesTold ==
  /\ "account" \in DOMAIN FormKeys /\ "password" \in DOMAIN FormKeys
  /\ {"account", "password", "ratelimit-add", "ratelimit-edit", "none"}
       \cap DOMAIN SettingsKeys = {}
  /\ {"ratelimit-add", "ratelimit-edit", "none"} \cap DOMAIN FormKeys = {}
  /\ DOMAIN SettingsKeys \subseteq DOMAIN FormKeys
BY FormModes, SettingsModes

\* The list on the screen is a list of rules.
LEMMA ShownFit ==
  ASSUME EnginesFit
  PROVE  /\ RulesFit(RulesShown)
         /\ known # NoData => EngineFits(known) /\ RulesShown = known.rules
         /\ known = NoData => RulesShown = <<>>
BY NoRules DEF EnginesFit, EngineFits, RulesShown, Known

-----------------------------------------------------------------------------
(* Requests *)

AddAsShown(s) ==
  s.from # NoData /\ s.what = "add" =>
    \E r \in RuleValues : r.rule = NewRule /\ s.rules = Append(s.from.rules, r)

Edited(from, rules, rule) ==
  \E i \in DOMAIN from.rules, t \in {"mine", "stored"} :
    from.rules[i].rule = rule /\ rules = [from.rules EXCEPT ![i].text = t]

EditAsShown(s) ==
  s.from # NoData /\ s.what = "edit" /\ ~s.sheet.shifted =>
    Edited(s.from, s.rules, s.sheet.rule)

DeleteAsShown(s) ==
  s.from # NoData /\ s.what = "delete" /\ ~s.doomed.shifted =>
    \E i \in DOMAIN s.from.rules :
      s.from.rules[i].rule = s.doomed.rule /\ s.rules = Without(s.from.rules, i)

LEMMA EachAsShown ==
  ASSUME NEW s
  PROVE  RulesAsShown(s) <=> AddAsShown(s) /\ EditAsShown(s) /\ DeleteAsShown(s)
<1>1. CASE s.what = "add"
  BY <1>1, Zenon DEF RulesAsShown, AddAsShown, EditAsShown, DeleteAsShown
<1>2. CASE s.what = "edit"
  BY <1>2 DEF RulesAsShown, AddAsShown, EditAsShown, DeleteAsShown, Edited
<1>3. CASE s.what = "delete"
  BY <1>3 DEF RulesAsShown, AddAsShown, EditAsShown, DeleteAsShown
<1>4. CASE s.what \notin {"add", "edit", "delete"}
  BY <1>4 DEF RulesAsShown, AddAsShown, EditAsShown, DeleteAsShown
<1> QED
  BY <1>1, <1>2, <1>3, <1>4

\* A request stays sound whatever becomes of it.
LEMMA SoundWhateverState ==
  ASSUME NEW s, SaveSound(s), NEW state, NEW latest, NEW t,
         t = [what |-> s.what, keys |-> s.keys, rules |-> s.rules, throttle |-> s.throttle,
              from |-> s.from, sheet |-> s.sheet, doomed |-> s.doomed, state |-> state,
              latest |-> latest]
  PROVE  SaveSound(t)
<1>1. /\ t.what = s.what /\ t.keys = s.keys /\ t.rules = s.rules /\ t.throttle = s.throttle
      /\ t.from = s.from /\ t.sheet = s.sheet /\ t.doomed = s.doomed /\ t.state = state
      /\ t.latest = latest
  OBVIOUS
<1>2. SaveShape(t)
  BY <1>1 DEF SaveSound, SaveShape
<1>3. SectionAsShown(t)
  BY <1>1 DEF SaveSound, SectionAsShown
<1>4. RulesAsShown(t)
  <2>1. AddAsShown(s) /\ EditAsShown(s) /\ DeleteAsShown(s)
    BY EachAsShown DEF SaveSound
  <2>2. AddAsShown(t)
    BY <1>1, <2>1 DEF AddAsShown
  <2>3. EditAsShown(t)
    BY <1>1, <2>1 DEF EditAsShown
  <2>4. DeleteAsShown(t)
    BY <1>1, <2>1 DEF DeleteAsShown
  <2> QED
    BY <2>2, <2>3, <2>4, EachAsShown
<1> QED
  BY <1>2, <1>3, <1>4 DEF SaveSound

LEMMA SentSound ==
  ASSUME SavesInv, NEW s, SaveSound(s), Send(s)
  PROVE  SavesInv'
<1> SUFFICES ASSUME NEW t \in saves' PROVE SaveSound(t)
  BY DEF SavesInv
<1>1. CASE t = s
  BY <1>1
<1>2. CASE t # s
  <2>1. PICK u \in saves :
          t = [u EXCEPT !.latest = u.latest /\ MutationOf(u) # MutationOf(s)]
    BY <1>2 DEF Send
  <2>2. PICK b : b = (u.latest /\ MutationOf(u) # MutationOf(s))
    OBVIOUS
  <2>3. SaveSound(u)
    BY DEF SavesInv
  <2>4. t = [what |-> u.what, keys |-> u.keys, rules |-> u.rules, throttle |-> u.throttle,
             from |-> u.from, sheet |-> u.sheet, doomed |-> u.doomed, state |-> u.state,
             latest |-> b]
    <3>1. u = [what |-> u.what, keys |-> u.keys, rules |-> u.rules,
               throttle |-> u.throttle, from |-> u.from, sheet |-> u.sheet,
               doomed |-> u.doomed, state |-> u.state, latest |-> u.latest]
      BY <2>3 DEF SaveSound, SaveShape
    <3> QED
      BY <2>1, <2>2, <3>1
  <2> QED
    BY <2>3, <2>4, SoundWhateverState
<1> QED
  BY <1>1, <1>2

-----------------------------------------------------------------------------
(* The first state *)

LEMMA SettingsInitially ==
  ASSUME SettingsInit
  PROVE  SettingsInv
<1>1. RulesFit([i \in DOMAIN FirstRules |-> Stored(FirstRules[i])])
  <2>1. PICK n \in Nat : DOMAIN FirstRules = 1..n
    <3>1. FirstRules \in Seq(Rules)
      BY SettingsAssumption
    <3> QED
      BY <3>1
  <2>2. PICK l : l = [i \in 1..n |-> Stored(FirstRules[i])]
    OBVIOUS
  <2>3. l = [i \in 1..n |-> l[i]] /\ \A i \in 1..n : RuleShape(l[i])
    BY <2>2 DEF RuleShape, Stored
  <2>4. RulesFit(l)
    BY <2>3, RulesMade
  <2> QED
    BY <2>1, <2>2, <2>4
<1>2. EnginesFit
  BY <1>1 DEF SettingsInit, EnginesFit, EngineFits
<1>3. DraftsFit
  <2>1. drafts = [m \in DOMAIN FormKeys |-> drafts[m]]
        /\ \A m \in DOMAIN FormKeys : drafts[m] = BlankForm(m)
    BY DEF SettingsInit
  <2>2. RuleShape(ruleDraft) /\ ruleDraft.rule = NewRule
    BY DEF SettingsInit, RuleShape, BlankRule
  <2> QED
    BY <2>1, <2>2, FormsFit DEF DraftsFit
<1> QED
  BY <1>2, <1>3 DEF SettingsInit, SettingsInv, SheetInv, DoomedInv, SavesInv

-----------------------------------------------------------------------------
(* The steps of the drawer *)

\* A drawer is opened on what is known.
LEMMA OpenedShape ==
  ASSUME EnginesFit, NEW m \in DOMAIN FormKeys \cup {"ratelimit-add", "ratelimit-edit"},
         NEW snapshot, NEW i, NEW rule, NEW sh,
         sh = [mode |-> m, at |-> known, snapshot |-> snapshot, index |-> i, typed |-> {},
               shifted |-> FALSE, rule |-> rule]
  PROVE  SheetShape(sh)
BY DEF SheetShape, EnginesFit

LEMMA OpenSectionSound ==
  ASSUME SettingsInv, NEW m \in DOMAIN FormKeys, OpenSection(m)
  PROVE  SettingsInv'
<1> USE DEF SettingsInv
<1> DEFINE shown == CASE m = "account" -> [k \in AccountKeys |-> "theirs"]
                      [] m = "password" -> BlankForm(m)
                      [] m \in DOMAIN SettingsKeys /\ Known -> Filled(m, known.keys)
                      [] OTHER -> drafts[m]
<1>0. /\ drafts' = [drafts EXCEPT ![m] = shown]
      /\ sheet' = [NewSheet(m) EXCEPT !.snapshot =
                     IF m \in DOMAIN SettingsKeys /\ ~Known THEN NoSnapshot ELSE shown]
  BY Zenon DEF OpenSection
<1> HIDE DEF shown
<1>1. PICK form :
        /\ form = shown
        /\ drafts' = [drafts EXCEPT ![m] = form]
        /\ sheet' = [NewSheet(m) EXCEPT !.snapshot =
                       IF m \in DOMAIN SettingsKeys /\ ~Known THEN NoSnapshot ELSE form]
  BY <1>0
<1>2. /\ UNCHANGED <<engine, known, reading, ruleDraft, doomed, saves>>
  BY DEF OpenSection
<1>3. /\ m = "account" => form = [k \in AccountKeys |-> "theirs"]
      /\ m = "password" => form = BlankForm("password")
      /\ m \in DOMAIN SettingsKeys /\ Known => form = Filled(m, known.keys)
      /\ m \in DOMAIN SettingsKeys /\ ~Known => form = drafts[m]
  BY <1>1, ModesTold DEF shown
<1>4. FormFits(m, form)
  <2>1. CASE m = "account"
    BY <2>1, <1>3, FormsFit
  <2>2. CASE m = "password"
    BY <2>2, <1>3, FormsFit
  <2>3. CASE m \in DOMAIN SettingsKeys /\ Known
    BY <2>3, <1>3, FormsFit
  <2>4. CASE m \in DOMAIN SettingsKeys /\ ~Known
    BY <2>4, <1>3 DEF DraftsFit
  <2> QED
    BY <2>1, <2>2, <2>3, <2>4, FormModes
<1>5. /\ drafts'[m] = form
      /\ \A n \in DOMAIN FormKeys : n # m => drafts'[n] = drafts[n]
      /\ drafts' = [j \in DOMAIN FormKeys |-> drafts'[j]]
  BY <1>1 DEF DraftsFit
<1>6. DraftsFit'
  <2>1. \A n \in DOMAIN FormKeys : FormFits(n, drafts'[n])
    BY <1>4, <1>5 DEF DraftsFit
  <2>2. RuleShape(ruleDraft') /\ (known' = NoData => ruleDraft'.rule = NewRule)
    BY <1>2 DEF DraftsFit
  <2>3. drafts' = [n \in DOMAIN FormKeys |-> drafts'[n]]
    BY <1>5
  <2> QED
    BY <2>1, <2>2, <2>3 DEF DraftsFit
<1>7. PICK snapshot : snapshot =
        IF m \in DOMAIN SettingsKeys /\ ~Known THEN NoSnapshot ELSE form
  OBVIOUS
<1>8. PICK sh :
        /\ sh = [mode |-> m, at |-> known, snapshot |-> snapshot, index |-> NoIndex,
                 typed |-> {}, shifted |-> FALSE, rule |-> NewRule]
        /\ sheet' = sh
  BY <1>1, <1>7 DEF NewSheet
<1>9. SheetSound(sh, drafts', ruleDraft', known')
  <2>0. sh.mode = m /\ sh.at = known /\ sh.snapshot = snapshot /\ sh.typed = {}
    BY <1>8
  <2>1. SheetShape(sh)
    BY <1>8, OpenedShape
  <2>2. SectionSound(sh, drafts')
    BY <2>0, <1>3, <1>5, <1>7 DEF SectionSound, Known
  <2>3. AccountSound(sh, drafts')
    <3>1. m = "account" => snapshot = [k \in AccountKeys |-> "theirs"]
                           /\ drafts'["account"] = [k \in AccountKeys |-> "theirs"]
      BY <1>3, <1>5, <1>7, ModesTold
    <3>2. m = "password" => snapshot = BlankForm("password")
      BY <1>3, <1>7, ModesTold
    <3> QED
      BY <2>0, <3>1, <3>2 DEF AccountSound
  <2>4. RuleSound(sh, ruleDraft', known')
    BY <2>0, ModesTold DEF RuleSound
  <2> QED
    BY <2>1, <2>2, <2>3, <2>4 DEF SheetSound
<1>10. SheetInv'
  BY <1>8, <1>9 DEF SheetInv
<1>11. EnginesFit' /\ DoomedInv' /\ SavesInv'
  BY <1>2 DEF EnginesFit, DoomedInv, SavesInv
<1> QED
  BY <1>6, <1>10, <1>11

LEMMA OpenRuleSound ==
  ASSUME SettingsInv, NEW m \in {"ratelimit-add", "ratelimit-edit"},
         NEW i \in 0..Len(RulesShown), OpenRule(m, i)
  PROVE  SettingsInv'
<1> USE DEF SettingsInv
<1>1. PICK opened :
        /\ opened = IF i = NoIndex THEN BlankRule ELSE RulesShown[i]
        /\ ruleDraft' = IF Known THEN opened ELSE ruleDraft
        /\ sheet' = [NewSheet(m) EXCEPT !.snapshot = IF Known THEN opened ELSE NoSnapshot,
                                        !.index = i, !.rule = opened.rule]
  BY DEF OpenRule
<1>2. /\ UNCHANGED <<engine, known, reading, drafts, doomed, saves>>
      /\ m = "ratelimit-add" => i = NoIndex
      /\ m = "ratelimit-edit" => i \in DOMAIN RulesShown
  BY DEF OpenRule
<1>3. /\ m = "ratelimit-add" => opened = BlankRule
      /\ m = "ratelimit-edit" =>
           /\ known # NoData /\ opened = known.rules[i] /\ i \in DOMAIN known.rules
           /\ RuleShape(opened)
  <2>1. CASE m = "ratelimit-add"
    BY <2>1, <1>1, <1>2
  <2>2. CASE m = "ratelimit-edit"
    <3>1. i \in DOMAIN RulesShown /\ i # NoIndex
      BY <2>2, <1>2, ShownFit, RulesFitFacts DEF NoIndex
    <3>2. known # NoData
      BY <3>1, ShownFit, RulesFitFacts
    <3>3. opened = known.rules[i] /\ i \in DOMAIN known.rules
      BY <3>1, <3>2, <1>1, ShownFit
    <3>4. RulesFit(known.rules)
      BY <3>2, ShownFit DEF EngineFits
    <3> QED
      BY <2>2, <3>2, <3>3, <3>4, RulesFitFacts
  <2> QED
    BY <2>1, <2>2
<1>4. DraftsFit'
  <2>1. RuleShape(opened)
    <3>1. RuleShape(BlankRule)
      BY DEF RuleShape, BlankRule
    <3> QED
      BY <3>1, <1>3
  <2>2. RuleShape(ruleDraft')
    BY <2>1, <1>1 DEF DraftsFit
  <2>3. known' = NoData => ruleDraft'.rule = NewRule
    BY <1>1, <1>2 DEF DraftsFit, Known
  <2> QED
    BY <2>2, <2>3, <1>2 DEF DraftsFit
<1>5. PICK snapshot : snapshot = IF Known THEN opened ELSE NoSnapshot
  OBVIOUS
<1>6. PICK sh :
        /\ sh = [mode |-> m, at |-> known, snapshot |-> snapshot, index |-> i,
                 typed |-> {}, shifted |-> FALSE, rule |-> opened.rule]
        /\ sheet' = sh
  <2>1. PICK name : name = opened.rule
    OBVIOUS
  <2>2. sheet' = [NewSheet(m) EXCEPT !.snapshot = snapshot, !.index = i, !.rule = name]
    BY <1>1, <1>5, <2>1
  <2>3. sheet' = [mode |-> m, at |-> known, snapshot |-> snapshot, index |-> i,
                  typed |-> {}, shifted |-> FALSE, rule |-> name]
    BY <2>2 DEF NewSheet
  <2> QED
    BY <2>1, <2>3
<1>7. SheetSound(sh, drafts', ruleDraft', known')
  <2>0. sh.mode = m /\ sh.at = known /\ sh.snapshot = snapshot /\ sh.index = i
        /\ sh.rule = opened.rule
    BY <1>6
  <2>1. SheetShape(sh)
    BY <1>6, OpenedShape
  <2>2. SectionSound(sh, drafts') /\ AccountSound(sh, drafts')
    BY <2>0, ModesTold DEF SectionSound, AccountSound
  <2>3. RuleSound(sh, ruleDraft', known')
    <3>1. CASE m = "ratelimit-add"
      <4>0. opened.rule = NewRule
        <5>1. opened = BlankRule
          BY <3>1, <1>3
        <5>2. BlankRule.rule = NewRule
          BY DEF BlankRule
        <5> QED
          BY <5>1, <5>2
      <4>1. ruleDraft'.rule = NewRule
        BY <4>0, <1>1 DEF DraftsFit, Known
      <4> QED
        BY <3>1, <4>1, <2>0, <1>3, <1>5 DEF RuleSound, Known
    <3>2. CASE m = "ratelimit-edit"
      BY <3>2, <2>0, <1>1, <1>2, <1>3, <1>5 DEF RuleSound, Known
    <3> QED
      BY <3>1, <3>2
  <2> QED
    BY <2>1, <2>2, <2>3 DEF SheetSound
<1>8. SheetInv'
  BY <1>6, <1>7 DEF SheetInv
<1>9. EnginesFit' /\ DoomedInv' /\ SavesInv'
  BY <1>2 DEF EnginesFit, DoomedInv, SavesInv
<1> QED
  BY <1>4, <1>8, <1>9

LEMMA TypeKeySound ==
  ASSUME SettingsInv, NEW k, NEW v, TypeKey(k, v)
  PROVE  SettingsInv'
<1> USE DEF SettingsInv
<1>1. /\ sheet # NoSheet
      /\ sheet.mode \in DOMAIN FormKeys /\ k \in FormKeys[sheet.mode]
      /\ drafts' = [drafts EXCEPT ![sheet.mode][k] = v]
      /\ sheet' = [sheet EXCEPT !.typed = @ \cup {k}]
      /\ UNCHANGED <<engine, known, reading, ruleDraft, doomed, saves>>
  BY DEF TypeKey, SheetReachable
<1>2. PICK m : m = sheet.mode
  OBVIOUS
<1>3. m \in DOMAIN FormKeys /\ FormFits(m, drafts[m])
  BY <1>1, <1>2 DEF DraftsFit
<1>4. /\ drafts' = [n \in DOMAIN FormKeys |-> drafts'[n]]
      /\ \A n \in DOMAIN FormKeys : n # m => drafts'[n] = drafts[n]
      /\ drafts'[m] = [drafts[m] EXCEPT ![k] = v]
  BY <1>1, <1>2, <1>3 DEF DraftsFit
<1>5. /\ FormFits(m, drafts'[m])
      /\ \A j \in FormKeys[m] : j # k => drafts'[m][j] = drafts[m][j]
  BY <1>3, <1>4 DEF FormFits
<1>6. DraftsFit'
  BY <1>1, <1>4, <1>5 DEF DraftsFit
<1>7. SheetSound(sheet, drafts, ruleDraft, known)
  BY <1>1 DEF SheetInv
<1>8. PICK sh :
        /\ sh = [mode |-> m, at |-> sheet.at, snapshot |-> sheet.snapshot,
                 index |-> sheet.index, typed |-> sheet.typed \cup {k},
                 shifted |-> sheet.shifted, rule |-> sheet.rule]
        /\ sheet' = sh
  BY <1>1, <1>2, <1>7 DEF SheetSound, SheetShape
<1>9. /\ sh.mode = m /\ sh.at = sheet.at /\ sh.snapshot = sheet.snapshot
      /\ sh.index = sheet.index /\ sh.typed = sheet.typed \cup {k}
      /\ sh.shifted = sheet.shifted /\ sh.rule = sheet.rule
  BY <1>8
<1>10. SheetSound(sh, drafts', ruleDraft', known')
  <2>1. SheetShape(sh)
    BY <1>2, <1>7, <1>8, <1>9 DEF SheetSound, SheetShape
  <2>2. SectionSound(sh, drafts')
    BY <1>2, <1>5, <1>7, <1>9 DEF SheetSound, SectionSound
  <2>3. AccountSound(sh, drafts')
    <3>1. m = "account" => \A j \in AccountKeys : j # k => drafts'[m][j] = drafts[m][j]
      BY <1>5, FormModes
    <3> QED
      BY <3>1, <1>2, <1>7, <1>9 DEF SheetSound, AccountSound
  <2>4. RuleSound(sh, ruleDraft', known')
    BY <1>1, <1>2, <1>7, <1>9 DEF SheetSound, RuleSound
  <2> QED
    BY <2>1, <2>2, <2>3, <2>4 DEF SheetSound
<1>11. SheetInv'
  BY <1>8, <1>10 DEF SheetInv
<1>12. EnginesFit' /\ DoomedInv' /\ SavesInv'
  BY <1>1 DEF EnginesFit, DoomedInv, SavesInv
<1> QED
  BY <1>6, <1>11, <1>12

LEMMA TypeRuleSound ==
  ASSUME SettingsInv, NEW v \in {"", "mine"}, TypeRule(v)
  PROVE  SettingsInv'
<1> USE DEF SettingsInv
<1>1. /\ ruleDraft' = [ruleDraft EXCEPT !.text = v]
      /\ UNCHANGED <<engine, known, reading, sheet, drafts, doomed, saves>>
  BY DEF TypeRule
<1>2. RuleShape(ruleDraft') /\ ruleDraft'.rule = ruleDraft.rule
  BY <1>1 DEF DraftsFit, RuleShape
<1>3. DraftsFit'
  BY <1>1, <1>2 DEF DraftsFit
<1>4. SheetInv'
  BY <1>1, <1>2 DEF SheetInv, SheetSound, RuleSound
<1>5. EnginesFit' /\ DoomedInv' /\ SavesInv'
  BY <1>1 DEF EnginesFit, DoomedInv, SavesInv
<1> QED
  BY <1>3, <1>4, <1>5

LEMMA ClosedSound ==
  ASSUME SettingsInv, sheet' \in {sheet, NoSheet},
         UNCHANGED <<engine, known, reading, drafts, ruleDraft, doomed, saves>>
  PROVE  SettingsInv'
<1>1. SheetInv'
  BY DEF SettingsInv, SheetInv
<1>2. EnginesFit' /\ DraftsFit' /\ DoomedInv' /\ SavesInv'
  BY DEF SettingsInv, EnginesFit, DraftsFit, DoomedInv, SavesInv
<1> QED
  BY <1>1, <1>2 DEF SettingsInv

-----------------------------------------------------------------------------
(* What the drawer and the dialog send *)

\* A request that is sent disturbs nothing else, when it is sound.
LEMMA SendingSound ==
  ASSUME SettingsInv, NEW s, SaveSound(s), Send(s), doomed' \in {doomed, NoRule},
         UNCHANGED <<engine, known, reading, sheet, drafts, ruleDraft>>
  PROVE  SettingsInv'
<1>1. SavesInv'
  BY SentSound DEF SettingsInv
<1>2. DoomedInv'
  BY DEF SettingsInv, DoomedInv
<1>3. EnginesFit' /\ DraftsFit' /\ SheetInv'
  BY DEF SettingsInv, EnginesFit, DraftsFit, SheetInv
<1> QED
  BY <1>1, <1>2, <1>3 DEF SettingsInv

LEMMA SaveSectionSound ==
  ASSUME SettingsInv, SaveSection
  PROVE  SettingsInv'
<1>1. PICK m : m = sheet.mode
  OBVIOUS
<1>2. PICK s : s = [Save("section") EXCEPT !.keys = drafts[m]]
  OBVIOUS
<1>3. /\ sheet # NoSheet /\ m \in DOMAIN SettingsKeys
      /\ Send(s)
      /\ UNCHANGED <<engine, known, reading, sheet, drafts, ruleDraft, doomed>>
  BY <1>1, <1>2 DEF SaveSection, SheetReachable
<1>4. /\ SaveShape(s)
      /\ s.what = "section" /\ s.keys = drafts[m] /\ s.sheet = sheet
  BY <1>2, NoRules DEF Save, SaveShape
<1>5. SectionAsShown(s)
  <2>1. SheetSound(sheet, drafts, ruleDraft, known)
    BY <1>3 DEF SettingsInv, SheetInv
  <2>2. DOMAIN drafts[m] = FormKeys[m]
    <3>1. FormFits(m, drafts[m])
      BY <1>3, ModesTold DEF SettingsInv, DraftsFit
    <3> QED
      BY <3>1 DEF FormFits
  <2> QED
    BY <1>1, <1>3, <1>4, <2>1, <2>2 DEF SectionAsShown, SheetSound, SectionSound
<1>6. RulesAsShown(s)
  BY <1>4, EachAsShown DEF AddAsShown, EditAsShown, DeleteAsShown
<1> QED
  BY <1>3, <1>4, <1>5, <1>6, SendingSound DEF SaveSound

LEMMA SaveAccountSound ==
  ASSUME SettingsInv, SaveAccount
  PROVE  SettingsInv'
<1>1. PICK s : s = [Save("account") EXCEPT !.keys = drafts["account"]]
  OBVIOUS
<1>2. /\ sheet # NoSheet /\ sheet.mode = "account"
      /\ Send(s)
      /\ UNCHANGED <<engine, known, reading, sheet, drafts, ruleDraft, doomed>>
  BY <1>1 DEF SaveAccount, SheetReachable
<1>3. /\ SaveShape(s)
      /\ s.what = "account" /\ s.keys = drafts["account"] /\ s.sheet = sheet
  BY <1>1, NoRules DEF Save, SaveShape
<1>4. SectionAsShown(s)
  <2>1. SheetSound(sheet, drafts, ruleDraft, known)
    BY <1>2 DEF SettingsInv, SheetInv
  <2>2. DOMAIN drafts["account"] = AccountKeys
    <3>1. FormFits("account", drafts["account"])
      BY ModesTold DEF SettingsInv, DraftsFit
    <3> QED
      BY <3>1, FormModes DEF FormFits
  <2> QED
    BY <1>2, <1>3, <2>1, <2>2 DEF SectionAsShown, SheetSound, AccountSound
<1>5. RulesAsShown(s)
  BY <1>3, EachAsShown DEF AddAsShown, EditAsShown, DeleteAsShown
<1> QED
  BY <1>2, <1>3, <1>4, <1>5, SendingSound DEF SaveSound

\* A request that changes neither a section nor the rules shows nothing.
LEMMA OtherSavesSound ==
  ASSUME NEW s, SaveShape(s), s.what \in {"password", "toggle"}
  PROVE  SaveSound(s)
<1>1. SectionAsShown(s)
  BY DEF SectionAsShown
<1>2. RulesAsShown(s)
  BY EachAsShown DEF AddAsShown, EditAsShown, DeleteAsShown
<1> QED
  BY <1>1, <1>2 DEF SaveSound

LEMMA SavePasswordSound ==
  ASSUME SettingsInv, SavePassword
  PROVE  SettingsInv'
<1>1. PICK s : s = [Save("password") EXCEPT !.keys = drafts["password"]]
  OBVIOUS
<1>2. /\ Send(s)
      /\ UNCHANGED <<engine, known, reading, sheet, drafts, ruleDraft, doomed>>
  BY <1>1 DEF SavePassword
<1>3. SaveShape(s) /\ s.what = "password"
  BY <1>1, NoRules DEF Save, SaveShape
<1> QED
  BY <1>2, <1>3, OtherSavesSound, SendingSound

LEMMA ToggleSound ==
  ASSUME SettingsInv, ToggleRateLimiting
  PROVE  SettingsInv'
<1>1. PICK on : on = ~(Known /\ known.throttle)
  OBVIOUS
<1>2. PICK s : s = [Save("toggle") EXCEPT !.throttle = on]
  OBVIOUS
<1>3. /\ Send(s)
      /\ UNCHANGED <<engine, known, reading, sheet, drafts, ruleDraft, doomed>>
  BY <1>1, <1>2 DEF ToggleRateLimiting
<1>4. SaveShape(s) /\ s.what = "toggle"
  BY <1>2, NoRules DEF Save, SaveShape
<1> QED
  BY <1>3, <1>4, OtherSavesSound, SendingSound

LEMMA ReplacedWithin ==
  ASSUME NEW l, RulesFit(l), NEW i \in DOMAIN l, NEW r
  PROVE  Replaced(l, i, r) = [j \in DOMAIN l |-> IF j = i THEN r ELSE l[j]]
<1>1. PICK n \in Nat : n = Len(l) /\ DOMAIN l = 1..n
  BY RulesFitFacts
<1>2. i \in 1..n
  BY <1>1
<1>3. ~(i > n)
  BY <1>1, <1>2
<1> QED
  BY <1>1, <1>3, Zenon DEF Replaced

\* A rule replaced by itself with another text is the list but for that text.
LEMMA ReplacedIsEdited ==
  ASSUME NEW l, RulesFit(l), NEW i \in DOMAIN l, NEW r, RuleShape(r),
         r.text \in {"mine", "stored"}, r.rule = l[i].rule, NEW x, x.rules = l
  PROVE  Edited(x, Replaced(l, i, r), r.rule)
<1>1. PICK t : t = r.text
  OBVIOUS
<1>2. t \in {"mine", "stored"}
  BY <1>1
<1>4. Replaced(l, i, r) = [j \in DOMAIN l |-> IF j = i THEN r ELSE l[j]]
  BY ReplacedWithin
<1>5. [l[i] EXCEPT !.text = t] = r
  <2>1. PICK q : q = l[i]
    OBVIOUS
  <2>2. q = [rule |-> q.rule, text |-> q.text]
    BY <2>1, RulesFitFacts DEF RuleShape
  <2>3. r = [rule |-> r.rule, text |-> t] /\ r.rule = q.rule
    BY <2>1, <1>1 DEF RuleShape
  <2>4. PICK u : u = [q EXCEPT !.text = t]
    OBVIOUS
  <2>5. u = [rule |-> q.rule, text |-> t]
    BY <2>2, <2>4
  <2>6. u = r
    BY <2>3, <2>5
  <2> QED
    BY <2>1, <2>4, <2>6
<1>6. [l EXCEPT ![i].text = t] = [j \in DOMAIN l |-> IF j = i THEN r ELSE l[j]]
  <2>1. l = [j \in DOMAIN l |-> l[j]]
    BY RulesFitFacts
  <2> QED
    BY <2>1, <1>5
<1>7. Replaced(l, i, r) = [l EXCEPT ![i].text = t]
  BY <1>4, <1>6
<1> QED
  BY <1>2, <1>7 DEF Edited

LEMMA SaveRuleSound ==
  ASSUME SettingsInv, SaveRule
  PROVE  SettingsInv'
<1> USE DEF SettingsInv
<1>1. /\ sheet # NoSheet
      /\ sheet.mode \in {"ratelimit-add", "ratelimit-edit"}
      /\ ruleDraft.text # ""
      /\ Send(IF sheet.mode = "ratelimit-edit" /\ sheet.index # NoIndex
              THEN [Save("edit") EXCEPT !.rules = Replaced(RulesShown, sheet.index, ruleDraft)]
              ELSE [Save(IF sheet.mode = "ratelimit-edit" THEN "edit" ELSE "add") EXCEPT
                      !.rules = Append(RulesShown, ruleDraft)])
      /\ UNCHANGED <<engine, known, reading, sheet, drafts, ruleDraft, doomed>>
  BY DEF SaveRule, SheetReachable
<1>2. SheetSound(sheet, drafts, ruleDraft, known)
  BY <1>1 DEF SheetInv
<1>3. RulesFit(RulesShown) /\ RuleShape(ruleDraft)
  BY ShownFit DEF DraftsFit
<1>4. CASE sheet.mode = "ratelimit-add"
  <2>1. PICK l : l = Append(RulesShown, ruleDraft)
    OBVIOUS
  <2>2. PICK s : s = [Save("add") EXCEPT !.rules = l]
    OBVIOUS
  <2>3. RulesFit(l)
    BY <2>1, <1>3, AppendedFits
  <2>4. /\ SaveShape(s) /\ s.what = "add" /\ s.rules = l
        /\ s.from = known /\ s.sheet = sheet /\ s.doomed = doomed
    BY <2>2, <2>3 DEF Save, SaveShape
  <2>5. Send(s)
    BY <1>1, <1>4, <2>1, <2>2
  <2>6. AddAsShown(s)
    <3>1. ruleDraft.rule = NewRule
      BY <1>2, <1>4 DEF SheetSound, RuleSound
    <3>2. ruleDraft \in RuleValues
      BY <3>1, <1>3 DEF RuleValues, RuleShape
    <3>3. known # NoData => l = Append(known.rules, ruleDraft)
      BY <2>1, ShownFit
    <3> QED
      BY <3>1, <3>2, <3>3, <2>4 DEF AddAsShown
  <2>7. SaveSound(s)
    BY <2>4, <2>6, EachAsShown DEF SaveSound, SectionAsShown, EditAsShown, DeleteAsShown
  <2> QED
    BY <1>1, <2>5, <2>7, SendingSound
<1>5. CASE sheet.mode = "ratelimit-edit"
  <2>1. /\ known # NoData /\ sheet.at # NoData
        /\ sheet.index \in DOMAIN sheet.at.rules
        /\ ruleDraft.rule = sheet.rule /\ sheet.rule = sheet.at.rules[sheet.index].rule
        /\ ~sheet.shifted => known.rules = sheet.at.rules
    BY <1>2, <1>5 DEF SheetSound, RuleSound
  <2>2. sheet.index \in Nat \ {0}
    <3>1. RulesFit(sheet.at.rules)
      BY <1>2, <2>1 DEF SheetSound, SheetShape, EngineFits
    <3> QED
      BY <2>1, <3>1, RulesFitFacts
  <2>3. PICK l : l = Replaced(RulesShown, sheet.index, ruleDraft)
    OBVIOUS
  <2>4. PICK s : s = [Save("edit") EXCEPT !.rules = l]
    OBVIOUS
  <2>5. RulesFit(l)
    BY <2>2, <2>3, <1>3, ReplacedFits
  <2>6. /\ SaveShape(s) /\ s.what = "edit" /\ s.rules = l
        /\ s.from = known /\ s.sheet = sheet /\ s.doomed = doomed
    BY <2>4, <2>5 DEF Save, SaveShape
  <2>7. Send(s)
    BY <1>1, <1>5, <2>2, <2>3, <2>4 DEF NoIndex
  <2>8. EditAsShown(s)
    <3> SUFFICES ASSUME ~sheet.shifted
                 PROVE  Edited(known, l, sheet.rule)
      BY <2>6 DEF EditAsShown
    <3>1. RulesShown = known.rules /\ sheet.index \in DOMAIN known.rules
          /\ known.rules[sheet.index].rule = sheet.rule
      BY <2>1, ShownFit
    <3>2. PICK k : k = known.rules
      OBVIOUS
    <3>3. PICK i : i = sheet.index
      OBVIOUS
    <3>4. /\ RulesFit(k) /\ i \in DOMAIN k /\ ruleDraft.rule = k[i].rule
          /\ l = Replaced(k, i, ruleDraft)
      BY <3>1, <3>2, <3>3, <2>1, <2>3, <1>3
    <3>5. Edited(known, l, ruleDraft.rule)
      <4>1. ruleDraft.text \in {"mine", "stored"}
        BY <1>1, <1>3, Zenon DEF RuleShape
      <4> QED
        BY <3>2, <3>4, <4>1, <1>3, ReplacedIsEdited
    <3> QED
      BY <3>5, <2>1
  <2>9. SaveSound(s)
    BY <2>6, <2>8, EachAsShown DEF SaveSound, SectionAsShown, AddAsShown, DeleteAsShown
  <2> QED
    BY <1>1, <2>7, <2>9, SendingSound
<1> QED
  BY <1>1, <1>4, <1>5

LEMMA ConfirmDeleteSound ==
  ASSUME SettingsInv, ConfirmDeleteRule
  PROVE  SettingsInv'
<1> USE DEF SettingsInv
<1>1. /\ doomed # NoRule /\ doomed' = NoRule
      /\ Send([Save("delete") EXCEPT !.rules = Without(RulesShown, doomed.index)])
      /\ UNCHANGED <<engine, known, reading, sheet, drafts, ruleDraft>>
  BY DEF ConfirmDeleteRule
<1>2. DoomedSound(doomed, known)
  BY <1>1 DEF DoomedInv
<1>3. PICK l : l = Without(RulesShown, doomed.index)
  OBVIOUS
<1>4. PICK s : s = [Save("delete") EXCEPT !.rules = l]
  OBVIOUS
<1>5. RulesFit(l)
  BY <1>2, <1>3, ShownFit, WithoutFits DEF DoomedSound
<1>6. /\ SaveShape(s) /\ s.what = "delete" /\ s.rules = l
      /\ s.from = known /\ s.doomed = doomed
  BY <1>4, <1>5 DEF Save, SaveShape
<1>7. DeleteAsShown(s)
  <2> SUFFICES ASSUME ~doomed.shifted
               PROVE  \E i \in DOMAIN known.rules :
                        known.rules[i].rule = doomed.rule /\ l = Without(known.rules, i)
    BY <1>6 DEF DeleteAsShown
  <2> QED
    BY <1>2, <1>3, ShownFit DEF DoomedSound
<1>8. SaveSound(s)
  BY <1>6, <1>7, EachAsShown DEF SaveSound, SectionAsShown, AddAsShown, EditAsShown
<1> QED
  BY <1>1, <1>3, <1>4, <1>8, SendingSound

LEMMA HandleDeleteSound ==
  ASSUME SettingsInv, NEW i \in DOMAIN RulesShown, HandleDeleteRule(i)
  PROVE  SettingsInv'
<1> USE DEF SettingsInv
<1>1. /\ doomed' = [index |-> i, rule |-> RulesShown[i].rule, shifted |-> FALSE]
      /\ UNCHANGED <<engine, known, reading, sheet, drafts, ruleDraft, saves>>
  BY DEF HandleDeleteRule
<1>2. known # NoData /\ RulesShown = known.rules /\ i \in Nat \ {0}
  BY ShownFit, RulesFitFacts
<1>3. PICK dm : dm = [index |-> i, rule |-> known.rules[i].rule, shifted |-> FALSE]
                /\ doomed' = dm
  BY <1>1, <1>2
<1>4. DoomedSound(dm, known)
  BY <1>2, <1>3 DEF DoomedSound
<1>5. DoomedInv'
  BY <1>1, <1>3, <1>4 DEF DoomedInv
<1>6. EnginesFit' /\ DraftsFit' /\ SheetInv' /\ SavesInv'
  BY <1>1 DEF EnginesFit, DraftsFit, SheetInv, SavesInv
<1> QED
  BY <1>5, <1>6

LEMMA CancelDeleteSound ==
  ASSUME SettingsInv, CancelDeleteRule
  PROVE  SettingsInv'
BY DEF CancelDeleteRule, SettingsInv, EnginesFit, DraftsFit, SheetInv, DoomedInv, SavesInv

-----------------------------------------------------------------------------
(* The server, the answers and the query *)

LEMMA BornFits ==
  ASSUME NEW l, RulesFit(l)
  PROVE  RulesFit(Born(l))
<1>1. PICK n \in Nat : n = Len(l) /\ DOMAIN l = 1..n
  BY RulesFitFacts
<1>2. PICK b : b = Born(l)
  OBVIOUS
<1> DEFINE free == CHOOSE r \in Rules : \A i \in DOMAIN engine.rules : engine.rules[i].rule # r
<1>a. Born(l) = [i \in DOMAIN l |->
                   IF l[i].rule = NewRule THEN [l[i] EXCEPT !.rule = free] ELSE l[i]]
  BY DEF Born
<1> HIDE DEF free
<1>3. PICK new : Born(l) = [i \in DOMAIN l |->
                   IF l[i].rule = NewRule THEN [l[i] EXCEPT !.rule = new] ELSE l[i]]
  BY <1>a
<1>4. b = [i \in 1..n |-> b[i]]
  BY <1>1, <1>2, <1>3
<1>5. \A i \in 1..n : RuleShape(b[i])
  <2> SUFFICES ASSUME NEW i \in 1..n PROVE RuleShape(b[i])
    OBVIOUS
  <2>1. RuleShape(l[i])
    BY <1>1, RulesFitFacts
  <2>2. PICK q : q = l[i]
    OBVIOUS
  <2>3. q = [rule |-> q.rule, text |-> q.text] /\ q.text \in {"", "mine", "stored"}
    BY <2>1, <2>2 DEF RuleShape
  <2>4. PICK r : r = b[i]
    OBVIOUS
  <2>5. r = IF q.rule = NewRule THEN [q EXCEPT !.rule = new] ELSE q
    BY <1>1, <1>2, <1>3, <2>2, <2>4
  <2>6. RuleShape(r)
    BY <2>3, <2>5 DEF RuleShape
  <2> QED
    BY <2>4, <2>6
<1> QED
  BY <1>1, <1>2, <1>4, <1>5, RulesMade

\* What the server stores is its settings still.
LEMMA EngineStill ==
  ASSUME NEW x, EngineFits(x), NEW keys, NEW throttle, NEW rules, RulesFit(rules), NEW y,
         \/ y = [x EXCEPT !.keys = keys]
         \/ y = [x EXCEPT !.throttle = throttle]
         \/ y = [x EXCEPT !.rules = rules]
         \/ y = x
  PROVE  EngineFits(y)
<1>1. x = [keys |-> x.keys, throttle |-> x.throttle, rules |-> x.rules] /\ RulesFit(x.rules)
  BY DEF EngineFits
<1>2. CASE y = [x EXCEPT !.keys = keys]
  BY <1>1, <1>2 DEF EngineFits
<1>3. CASE y = [x EXCEPT !.throttle = throttle]
  BY <1>1, <1>3 DEF EngineFits
<1>4. CASE y = [x EXCEPT !.rules = rules]
  BY <1>1, <1>4 DEF EngineFits
<1>5. CASE y = x
  BY <1>5
<1> QED
  BY <1>2, <1>3, <1>4, <1>5

LEMMA UpdateSettingsSound ==
  ASSUME SettingsInv, NEW s \in saves, UpdateSettings(s)
  PROVE  SettingsInv'
<1> USE DEF SettingsInv
<1>1. /\ saves' = (saves \ {s}) \cup {[s EXCEPT !.state = "done"]}
      /\ UNCHANGED <<known, reading, sheet, drafts, ruleDraft, doomed>>
  BY DEF UpdateSettings
<1>2. SaveSound(s)
  BY DEF SavesInv
<1>3. PICK keys, throttle, rules :
        keys = Joined(s.keys, engine.keys) /\ throttle = s.throttle /\ rules = Born(s.rules)
  OBVIOUS
<1>4. RulesFit(rules)
  BY <1>2, <1>3, BornFits DEF SaveSound, SaveShape
<1>5. \/ engine' = [engine EXCEPT !.keys = keys]
      \/ engine' = [engine EXCEPT !.throttle = throttle]
      \/ engine' = [engine EXCEPT !.rules = rules]
      \/ engine' = engine
  BY <1>3 DEF UpdateSettings
<1>6. EngineFits(engine')
  BY <1>4, <1>5, EngineStill DEF EnginesFit
<1>7. EnginesFit'
  BY <1>1, <1>6 DEF EnginesFit
<1>8. PICK t : t = [s EXCEPT !.state = "done"]
  OBVIOUS
<1>9. SaveSound(t)
  <2>1. t = [what |-> s.what, keys |-> s.keys, rules |-> s.rules, throttle |-> s.throttle,
             from |-> s.from, sheet |-> s.sheet, doomed |-> s.doomed, state |-> "done",
             latest |-> s.latest]
    BY <1>2, <1>8 DEF SaveSound, SaveShape
  <2> QED
    BY <1>2, <2>1, SoundWhateverState
<1>10. SavesInv'
  BY <1>1, <1>8, <1>9 DEF SavesInv
<1>11. DraftsFit' /\ SheetInv' /\ DoomedInv'
  BY <1>1 DEF DraftsFit, SheetInv, DoomedInv
<1> QED
  BY <1>7, <1>10, <1>11

LEMMA RefusedSound ==
  ASSUME SettingsInv, NEW s \in saves, RefuseSettings(s)
  PROVE  SettingsInv'
BY DEF RefuseSettings, SettingsInv, EnginesFit, DraftsFit, SheetInv, DoomedInv, SavesInv

LEMMA SavedSound ==
  ASSUME SettingsInv, NEW s \in saves, Saved(s)
  PROVE  SettingsInv'
<1> USE DEF SettingsInv
<1>1. /\ saves' = saves \ {s}
      /\ sheet' = NoSheet
      /\ reading' \in {reading, Asked}
      /\ drafts' = IF s.what = "password"
                   THEN [drafts EXCEPT !["password"] = BlankForm("password")] ELSE drafts
      /\ UNCHANGED <<engine, known, ruleDraft, doomed>>
  BY DEF Saved
<1>2. DraftsFit'
  <2>1. /\ drafts' = [m \in DOMAIN FormKeys |-> drafts'[m]]
        /\ \A m \in DOMAIN FormKeys :
             drafts'[m] = drafts[m] \/ (m = "password" /\ drafts'[m] = BlankForm(m))
    BY <1>1, ModesTold DEF DraftsFit
  <2>2. \A m \in DOMAIN FormKeys : FormFits(m, drafts'[m])
    BY <2>1, FormsFit DEF DraftsFit
  <2> QED
    BY <1>1, <2>1, <2>2 DEF DraftsFit
<1>3. EnginesFit' /\ SheetInv' /\ DoomedInv' /\ SavesInv'
  BY <1>1 DEF EnginesFit, SheetInv, DoomedInv, SavesInv
<1> QED
  BY <1>2, <1>3

LEMMA QueriedSound ==
  ASSUME SettingsInv, LookAgain \/ GetSettings
  PROVE  SettingsInv'
<1>1. reading' \in {Asked, engine} /\ UNCHANGED <<engine, known, sheet, drafts, ruleDraft,
                                                 doomed, saves>>
  BY DEF LookAgain, GetSettings
<1>2. EnginesFit'
  BY <1>1 DEF SettingsInv, EnginesFit
<1> QED
  BY <1>1, <1>2 DEF SettingsInv, DraftsFit, SheetInv, DoomedInv, SavesInv

LEMMA SettingsReadSound ==
  ASSUME SettingsInv, SettingsRead
  PROVE  SettingsInv'
<1> USE DEF SettingsInv
<1>1. PICK moved \in BOOLEAN : moved = Moved
  BY DEF Moved, Known
<1>2. /\ reading \notin {NotReading, Asked}
      /\ known' = reading /\ reading' = NotReading
      /\ sheet' = IF sheet = NoSheet THEN sheet ELSE [sheet EXCEPT !.shifted = @ \/ moved]
      /\ doomed' = IF doomed = NoRule THEN doomed ELSE [doomed EXCEPT !.shifted = @ \/ moved]
      /\ UNCHANGED <<engine, drafts, ruleDraft, saves>>
  BY <1>1 DEF SettingsRead
<1>3. EngineFits(known') /\ known' # NoData
  BY <1>2, EnginesTold DEF EnginesFit
<1>4. known # NoData /\ ~moved => known'.rules = known.rules
  BY <1>1, <1>2 DEF Moved, Known
<1>5. EnginesFit' /\ DraftsFit' /\ SavesInv'
  BY <1>2, <1>3 DEF EnginesFit, DraftsFit, SavesInv
<1>6. SheetInv'
  <2> SUFFICES ASSUME sheet # NoSheet
               PROVE  SheetInv'
    BY <1>2 DEF SheetInv
  <2>1. SheetSound(sheet, drafts, ruleDraft, known)
    BY DEF SheetInv
  <2>2. PICK shifted : shifted = (sheet.shifted \/ moved)
    OBVIOUS
  <2>3. shifted \in BOOLEAN /\ (~shifted => ~sheet.shifted /\ ~moved)
    BY <2>1, <2>2 DEF SheetSound, SheetShape
  <2>4. PICK sh :
          /\ sh = [mode |-> sheet.mode, at |-> sheet.at, snapshot |-> sheet.snapshot,
                   index |-> sheet.index, typed |-> sheet.typed, shifted |-> shifted,
                   rule |-> sheet.rule]
          /\ sheet' = sh
    BY <1>2, <2>1, <2>2 DEF SheetSound, SheetShape
  <2>5. /\ sh.mode = sheet.mode /\ sh.at = sheet.at /\ sh.snapshot = sheet.snapshot
        /\ sh.index = sheet.index /\ sh.typed = sheet.typed /\ sh.shifted = shifted
        /\ sh.rule = sheet.rule
    BY <2>4
  <2>6. SheetShape(sh)
    BY <2>1, <2>3, <2>4, <2>5 DEF SheetSound, SheetShape
  <2>7. SectionSound(sh, drafts') /\ AccountSound(sh, drafts')
    BY <1>2, <2>1, <2>5 DEF SheetSound, SectionSound, AccountSound
  <2>8. RuleSound(sh, ruleDraft', known')
    BY <1>2, <1>3, <1>4, <2>1, <2>3, <2>5 DEF SheetSound, RuleSound
  <2> QED
    BY <2>4, <2>6, <2>7, <2>8 DEF SheetInv, SheetSound
<1>7. DoomedInv'
  <2> SUFFICES ASSUME doomed # NoRule
               PROVE  DoomedInv'
    BY <1>2 DEF DoomedInv
  <2>1. DoomedSound(doomed, known)
    BY DEF DoomedInv
  <2>2. PICK shifted : shifted = (doomed.shifted \/ moved)
    OBVIOUS
  <2>3. shifted \in BOOLEAN /\ (~shifted => ~doomed.shifted /\ ~moved)
    BY <2>1, <2>2 DEF DoomedSound
  <2>4. PICK dm : dm = [index |-> doomed.index, rule |-> doomed.rule, shifted |-> shifted]
                  /\ doomed' = dm
    BY <1>2, <2>1, <2>2 DEF DoomedSound
  <2>5. DoomedSound(dm, known')
    BY <1>3, <1>4, <2>1, <2>3, <2>4 DEF DoomedSound
  <2> QED
    BY <2>4, <2>5 DEF DoomedInv
<1> QED
  BY <1>5, <1>6, <1>7

LEMMA OtherAdministratorSound ==
  ASSUME SettingsInv, OtherSaves
  PROVE  SettingsInv'
<1> USE DEF SettingsInv
<1>1. UNCHANGED <<known, reading, sheet, drafts, ruleDraft, doomed, saves>>
  BY DEF OtherSaves
<1>2. EngineFits(engine')
  <2>1. CASE \E k \in KeysEdited \cap SettingKeys :
               engine' = [engine EXCEPT !.keys[k] = "theirs"]
    <3>1. PICK k : engine' = [engine EXCEPT !.keys[k] = "theirs"]
      BY <2>1
    <3>2. PICK keys : keys = [engine.keys EXCEPT ![k] = "theirs"]
      OBVIOUS
    <3>3. engine' = [engine EXCEPT !.keys = keys]
      BY <3>1, <3>2
    <3> QED
      BY <3>3, NoRules, EngineStill DEF EnginesFit
  <2>2. CASE \E i \in DOMAIN engine.rules :
               engine' = [engine EXCEPT !.rules = Without(engine.rules, i)]
    <3>1. PICK i \in DOMAIN engine.rules :
            engine' = [engine EXCEPT !.rules = Without(engine.rules, i)]
      BY <2>2
    <3>2. PICK rules : rules = Without(engine.rules, i)
      OBVIOUS
    <3>3. RulesFit(rules)
      BY <3>2, RulesFitFacts, WithoutFits DEF EnginesFit, EngineFits
    <3> QED
      BY <3>1, <3>2, <3>3, EngineStill DEF EnginesFit
  <2> QED
    BY <2>1, <2>2 DEF OtherSaves
<1>3. EnginesFit'
  BY <1>1, <1>2 DEF EnginesFit
<1> QED
  BY <1>1, <1>3 DEF DraftsFit, SheetInv, DoomedInv, SavesInv

-----------------------------------------------------------------------------
(* What is saved, and what is not lost *)

LEMMA SettingsStep ==
  ASSUME SettingsInv, [SettingsNext]_settingsVars
  PROVE  SettingsInv'
<1>1. CASE UNCHANGED settingsVars
  BY <1>1 DEF settingsVars, SettingsInv, EnginesFit, DraftsFit, SheetInv, DoomedInv, SavesInv
<1>2. ASSUME NEW t, SelectTab(t) PROVE SettingsInv'
  BY <1>2, ClosedSound DEF SelectTab
<1>3. ASSUME RequestClose \/ KeepEditing \/ DiscardChanges PROVE SettingsInv'
  <2>1. sheet' \in {sheet, NoSheet}
        /\ UNCHANGED <<engine, known, reading, drafts, ruleDraft, doomed, saves>>
    BY <1>3 DEF RequestClose, KeepEditing, DiscardChanges
  <2> QED
    BY <2>1, ClosedSound
<1>4. ASSUME NEW m \in DOMAIN FormKeys, OpenSection(m) PROVE SettingsInv'
  BY <1>4, OpenSectionSound
<1>5. ASSUME NEW m \in {"ratelimit-add", "ratelimit-edit"}, NEW i \in 0..Len(RulesShown),
             OpenRule(m, i)
      PROVE  SettingsInv'
  BY <1>5, OpenRuleSound
<1>6. ASSUME NEW k, NEW v, TypeKey(k, v) PROVE SettingsInv'
  BY <1>6, TypeKeySound
<1>7. ASSUME NEW v \in {"", "mine"}, TypeRule(v) PROVE SettingsInv'
  BY <1>7, TypeRuleSound
<1>8. ASSUME NEW i \in DOMAIN RulesShown, HandleDeleteRule(i) PROVE SettingsInv'
  BY <1>8, HandleDeleteSound
<1>9. ASSUME NEW s \in saves, UpdateSettings(s) \/ RefuseSettings(s) \/ Saved(s)
      PROVE  SettingsInv'
  BY <1>9, UpdateSettingsSound, RefusedSound, SavedSound
<1>10. CASE SaveSection \/ SaveRule \/ SaveAccount \/ SavePassword \/ ToggleRateLimiting
  BY <1>10, SaveSectionSound, SaveRuleSound, SaveAccountSound, SavePasswordSound, ToggleSound
<1>11. CASE CancelDeleteRule \/ ConfirmDeleteRule
  BY <1>11, CancelDeleteSound, ConfirmDeleteSound
<1>12. CASE LookAgain \/ GetSettings \/ SettingsRead \/ OtherSaves
  BY <1>12, QueriedSound, SettingsReadSound, OtherAdministratorSound
<1> QED
  BY <1>1, <1>2, <1>3, <1>4, <1>5, <1>6, <1>7, <1>8, <1>9, <1>10, <1>11, <1>12, Zenon
     DEF SettingsNext

LEMMA SettingsInvHolds == SettingsSpec => []SettingsInv
BY SettingsInitially, SettingsStep, PTL DEF SettingsSpec

\* What is saved is what was shown, for every set of rules, of drawers and of
\* keys, and however many requests are under way.
THEOREM AlwaysSavesWhatWasShown == SettingsSpec => []SavesWhatWasShown
<1>1. SettingsInv => SavesWhatWasShown
  BY DEF SettingsInv, SavesInv, SaveSound, SavesWhatWasShown
<1> QED
  BY <1>1, SettingsInvHolds, PTL

\* A form without edits shows what the drawer was opened with.
LEMMA CleanIsShown ==
  ASSUME SettingsInv, sheet # NoSheet, sheet.at # NoData, ~IsDrawerDirty
  PROVE  FormShown =
           (CASE sheet.mode \in DOMAIN SettingsKeys -> Filled(sheet.mode, sheet.at.keys)
              [] sheet.mode = "account" -> [k \in AccountKeys |-> "theirs"]
              [] sheet.mode = "password" -> BlankForm("password")
              [] sheet.mode = "ratelimit-add" -> BlankRule
              [] OTHER -> sheet.at.rules[sheet.index])
<1>1. SheetSound(sheet, drafts, ruleDraft, known)
  BY DEF SettingsInv, SheetInv
<1>2. sheet.snapshot = NoSnapshot \/ FormShown = sheet.snapshot
  BY DEF IsDrawerDirty
<1>3. CASE sheet.mode \in DOMAIN SettingsKeys
  <2>1. sheet.snapshot = Filled(sheet.mode, sheet.at.keys)
    BY <1>1, <1>3 DEF SheetSound, SectionSound
  <2>2. Filled(sheet.mode, sheet.at.keys) # NoSnapshot
    BY <1>3, ModesTold, FormsFit
  <2> QED
    BY <1>2, <1>3, <2>1, <2>2, ModesTold
<1>4. CASE sheet.mode = "account"
  <2>1. sheet.snapshot = [k \in AccountKeys |-> "theirs"]
    BY <1>1, <1>4 DEF SheetSound, AccountSound
  <2>2. [k \in AccountKeys |-> "theirs"] # NoSnapshot
    BY ModesTold, FormsFit
  <2> QED
    BY <1>2, <1>4, <2>1, <2>2, ModesTold
<1>5. CASE sheet.mode = "password"
  <2>1. sheet.snapshot = BlankForm("password")
    BY <1>1, <1>5 DEF SheetSound, AccountSound
  <2>2. BlankForm("password") # NoSnapshot
    BY ModesTold, FormsFit
  <2> QED
    BY <1>2, <1>5, <2>1, <2>2, ModesTold
<1>6. CASE sheet.mode = "ratelimit-add"
  <2>1. sheet.snapshot = BlankRule
    BY <1>1, <1>6 DEF SheetSound, RuleSound
  <2>2. BlankRule # NoSnapshot
    BY RulesTold DEF RuleShape, BlankRule
  <2> QED
    BY <1>2, <1>6, <2>1, <2>2, ModesTold
<1>7. CASE sheet.mode = "ratelimit-edit"
  <2>1. sheet.snapshot = sheet.at.rules[sheet.index] /\ sheet.index \in DOMAIN sheet.at.rules
    BY <1>1, <1>7 DEF SheetSound, RuleSound
  <2>2. RulesFit(sheet.at.rules)
    BY <1>1 DEF SheetSound, SheetShape, EngineFits
  <2>3. sheet.at.rules[sheet.index] # NoSnapshot
    BY <2>1, <2>2, RulesFitFacts, RulesTold
  <2> QED
    BY <1>2, <1>7, <2>1, <2>3, ModesTold
<1> QED
  BY <1>1, <1>3, <1>4, <1>5, <1>6, <1>7, FormModes DEF SheetSound, SheetShape

\* An open drawer that a step changes is open still.
LEMMA StaysOpen ==
  ASSUME SettingsInv, sheet # NoSheet,
         (\E k, v : TypeKey(k, v)) \/ SettingsRead
  PROVE  sheet' # NoSheet
<1>1. DOMAIN sheet = {"mode", "at", "snapshot", "index", "typed", "shifted", "rule"}
  BY DEF SettingsInv, SheetInv, SheetSound, SheetShape
<1>2. DOMAIN sheet' = DOMAIN sheet
  BY <1>1 DEF TypeKey, SettingsRead
<1>3. DOMAIN NoSheet = {"mode"}
  BY DEF NoSheet
<1> QED
  BY <1>1, <1>2, <1>3

LEMMA ClosingStep ==
  ASSUME SettingsInv, SettingsNext, sheet # NoSheet, sheet' = NoSheet, saves' = saves
  PROVE  doubting \/ ~IsDrawerDirty
<1>1. ASSUME NEW s \in saves, UpdateSettings(s) \/ RefuseSettings(s) \/ Saved(s)
      PROVE  FALSE
  BY <1>1 DEF UpdateSettings, RefuseSettings, Saved
<1>2. ASSUME NEW k, NEW v, TypeKey(k, v) PROVE FALSE
  BY <1>2, StaysOpen
<1>3. CASE SettingsRead
  BY <1>3, StaysOpen
<1>4. ASSUME NEW t, SelectTab(t) PROVE FALSE
  BY <1>4 DEF SelectTab
<1>5. ASSUME NEW m, OpenSection(m) PROVE FALSE
  BY <1>5 DEF OpenSection, TabsReachable
<1>6. ASSUME NEW m, NEW i, OpenRule(m, i) PROVE FALSE
  BY <1>6 DEF OpenRule, TabsReachable
<1>7. ASSUME NEW v, TypeRule(v) PROVE FALSE
  BY <1>7 DEF TypeRule
<1>8. CASE RequestClose
  BY <1>8 DEF RequestClose
<1>9. CASE KeepEditing \/ DiscardChanges
  BY <1>9 DEF KeepEditing, DiscardChanges
<1>10. ASSUME NEW i, HandleDeleteRule(i) PROVE FALSE
  BY <1>10 DEF HandleDeleteRule
<1>11. CASE SaveSection \/ SaveRule \/ SaveAccount \/ SavePassword \/ ToggleRateLimiting
  BY <1>11 DEF SaveSection, SaveRule, SaveAccount, SavePassword, ToggleRateLimiting
<1>12. CASE CancelDeleteRule \/ ConfirmDeleteRule \/ LookAgain \/ GetSettings \/ OtherSaves
  BY <1>12 DEF CancelDeleteRule, ConfirmDeleteRule, LookAgain, GetSettings, OtherSaves
<1> QED
  BY <1>1, <1>2, <1>3, <1>4, <1>5, <1>6, <1>7, <1>8, <1>9, <1>10, <1>11, <1>12, Zenon
     DEF SettingsNext

\* A drawer with unsaved edits is closed by "Discard Changes" or by an answer,
\* whatever the settings are and whoever else changes them.
THEOREM DraftsAlwaysKept == SettingsSpec => DraftsKept
<1>1. ASSUME SettingsInv, [SettingsNext]_settingsVars
      PROVE  [sheet # NoSheet /\ sheet.at # NoData /\ sheet' = NoSheet /\ saves' = saves =>
                doubting \/ FormShown =
                  (CASE sheet.mode \in DOMAIN SettingsKeys ->
                          Filled(sheet.mode, sheet.at.keys)
                     [] sheet.mode = "account" -> [k \in AccountKeys |-> "theirs"]
                     [] sheet.mode = "password" -> BlankForm("password")
                     [] sheet.mode = "ratelimit-add" -> BlankRule
                     [] OTHER -> sheet.at.rules[sheet.index])]_settingsVars
  BY <1>1, ClosingStep, CleanIsShown, Zenon
<1> QED
  BY <1>1, SettingsInvHolds, PTL DEF SettingsSpec, DraftsKept

-----------------------------------------------------------------------------
(***************************************************************************)
(* Proof that a long sequence of edits leaves a schema what it is meant to *)
(* be, for any targets, lengths and bounds.                                *)
(*                                                                         *)
(* Every list of fields, in the editor, on the server and under way, keeps *)
(* ids and names apart (ListGood); what the editor lacks of what was read  *)
(* was removed in it (DraftFits).                                          *)
(***************************************************************************)

(* Names given by default                                                    *)

LEMMA LeastNumber ==
  ASSUME NEW T \in SUBSET Nat, T # {}
  PROVE  \E n \in T : \A m \in T : n <= m
<1>1. PICK n \in T : \A m \in T : ~ (<<m, n>> \in OpToRel(<, Nat))
  BY NatLessThanWellFounded, WFMin
<1>2. \A m \in T : ~ (m < n)
  BY <1>1 DEF OpToRel
<1> QED
  BY <1>2

FieldShape(f) ==
  /\ f = [id |-> f.id, name |-> f.name, type |-> f.type, required |-> f.required,
          unique |-> f.unique, options |-> f.options, target |-> f.target]
  /\ f.required \in BOOLEAN /\ f.unique \in BOOLEAN

FieldsFit(l) == \E S : (\A f \in S : FieldShape(f)) /\ l \in Seq(S)

LEMMA FieldsFitFacts ==
  ASSUME NEW l, FieldsFit(l)
  PROVE  /\ Len(l) \in Nat /\ DOMAIN l = 1..Len(l) /\ l = [i \in 1..Len(l) |-> l[i]]
         /\ \A i \in DOMAIN l : FieldShape(l[i])
<1>1. PICK S : (\A f \in S : FieldShape(f)) /\ l \in Seq(S)
  BY DEF FieldsFit
<1> QED
  BY <1>1

LEMMA FieldsMade ==
  ASSUME NEW n \in Nat, NEW l, l = [i \in 1..n |-> l[i]], \A i \in 1..n : FieldShape(l[i])
  PROVE  FieldsFit(l) /\ Len(l) = n /\ DOMAIN l = 1..n
<1> DEFINE S == {l[i] : i \in 1..n}
<1>1. \A f \in S : FieldShape(f)
  OBVIOUS
<1>2. l \in Seq(S)
  <2>1. l \in [1..n -> S]
    OBVIOUS
  <2> HIDE DEF S
  <2> QED
    BY <2>1
<1>3. Len(l) = n /\ DOMAIN l = 1..n
  <2> HIDE DEF S
  <2> QED
    BY <1>2
<1> QED
  BY <1>1, <1>2, <1>3 DEF FieldsFit

\* A list has fewer names than there are numbers to try.
LEMMA NamesRunOut ==
  ASSUME NEW l, FieldsFit(l), NEW a \in Nat, NEW stem
  PROVE  \E n \in a..(a + Len(l)) : [stem |-> stem, nr |-> n] \notin NamesIn(l)
<1> SUFFICES ASSUME \A n \in a..(a + Len(l)) : [stem |-> stem, nr |-> n] \in NamesIn(l)
             PROVE  FALSE
  OBVIOUS
<1>1. PICK k \in Nat : k = Len(l) /\ DOMAIN l = 1..k
  BY FieldsFitFacts
<1>2. \A n \in a..(a + k) : \E i \in 1..k : l[i].name = [stem |-> stem, nr |-> n]
  BY <1>1 DEF NamesIn
<1>3. PICK at : at = [n \in a..(a + k) |->
                        CHOOSE i \in 1..k : l[i].name = [stem |-> stem, nr |-> n]]
  OBVIOUS
<1>4. \A n \in a..(a + k) : at[n] \in 1..k /\ l[at[n]].name = [stem |-> stem, nr |-> n]
  BY <1>2, <1>3
<1>5. at \in Injection(a..(a + k), 1..k)
  <2>1. at \in [a..(a + k) -> 1..k]
    BY <1>3, <1>4
  <2>2. ASSUME NEW n \in a..(a + k), NEW m \in a..(a + k), at[n] = at[m] PROVE n = m
    <3>1. [stem |-> stem, nr |-> n] = [stem |-> stem, nr |-> m]
      BY <1>4, <2>2
    <3> QED
      BY <3>1
  <2> QED
    BY <2>1, <2>2 DEF Injection, IsInjective
<1>6. IsFiniteSet(1..k) /\ Cardinality(1..k) = k
  BY FS_Interval
<1>7. Cardinality(a..(a + k)) = k + 1
  BY FS_Interval
<1>8. Cardinality(a..(a + k)) <= Cardinality(1..k)
  BY <1>5, <1>6, FS_Injection
<1> QED
  BY <1>6, <1>7, <1>8

LEMMA FieldNameFree ==
  ASSUME NEW l, FieldsFit(l)
  PROVE  NextFieldName(l) \notin NamesIn(l)
<1> DEFINE free == {n \in 1..(Len(l) + 1) : [stem |-> "field", nr |-> n] \notin NamesIn(l)}
<1>1. free \in SUBSET Nat /\ free # {}
  <2>1. \E n \in 1..(1 + Len(l)) : [stem |-> "field", nr |-> n] \notin NamesIn(l)
    BY NamesRunOut
  <2> QED
    BY <2>1, FieldsFitFacts
<1>2. \A n \in free : [stem |-> "field", nr |-> n] \notin NamesIn(l)
  OBVIOUS
<1>3. NextFieldName(l) = [stem |-> "field", nr |-> CHOOSE n \in free : \A m \in free : n <= m]
  BY DEF NextFieldName
<1> HIDE DEF free
<1>4. (CHOOSE n \in free : \A m \in free : n <= m) \in free
  BY <1>1, LeastNumber
<1> QED
  BY <1>2, <1>3, <1>4

LEMMA RelationNameFree ==
  ASSUME NEW l, FieldsFit(l), NEW target
  PROVE  NextRelationName(target, l) \notin NamesIn(l)
<1> DEFINE free == {n \in {0} \cup 2..(Len(l) + 2) :
                      [stem |-> target, nr |-> n] \notin NamesIn(l)}
<1>1. free \in SUBSET Nat /\ free # {}
  <2>1. \E n \in 2..(2 + Len(l)) : [stem |-> target, nr |-> n] \notin NamesIn(l)
    BY NamesRunOut
  <2> QED
    BY <2>1, FieldsFitFacts
<1>2. \A n \in free : [stem |-> target, nr |-> n] \notin NamesIn(l)
  OBVIOUS
<1>3. NextRelationName(target, l) =
        [stem |-> target, nr |-> CHOOSE n \in free : \A m \in free : n <= m]
  BY DEF NextRelationName
<1> HIDE DEF free
<1>4. (CHOOSE n \in free : \A m \in free : n <= m) \in free
  BY <1>1, LeastNumber
<1> QED
  BY <1>2, <1>3, <1>4
-----------------------------------------------------------------------------
(* Lists of fields *)

IdsGiven(l, b) == \A i \in DOMAIN l : l[i].id \in 1..b
IdsDiffer(l) == \A i, j \in DOMAIN l : l[i].id = l[j].id => i = j
NamesDiffer(l) ==
  \A i, j \in DOMAIN l : i # j /\ l[i].name = l[j].name => l[i].name.stem = "title"
DemandsAgree(f) == f.unique => f.required /\ f.type \in Eligible
AllAgree(l) == \A i \in DOMAIN l : DemandsAgree(l[i])

\* What every list keeps: in the editor, on the server and under way.
ListGood(l, b) ==
  FieldsFit(l) /\ IdsGiven(l, b) /\ IdsDiffer(l) /\ NamesDiffer(l) /\ AllAgree(l)

LEMMA EmptyGood ==
  ASSUME NEW b
  PROVE  ListGood(<<>>, b)
<1>1. <<>> \in Seq({})
  OBVIOUS
<1>2. FieldsFit(<<>>)
  BY <1>1 DEF FieldsFit
<1> QED
  BY <1>2 DEF ListGood, IdsGiven, IdsDiffer, NamesDiffer, AllAgree

LEMMA GoodLater ==
  ASSUME NEW b \in Nat, NEW l, ListGood(l, b)
  PROVE  ListGood(l, b + 1)
BY DEF ListGood, IdsGiven

\* A field with a new id and a new name at the end.
WithField(l, f) == Append(l, f)

LEMMA AppendedGood ==
  ASSUME NEW b \in Nat, NEW c, c = b + 1, NEW l, ListGood(l, b), NEW f, FieldShape(f),
         f.id = c, f.name \notin NamesIn(l), DemandsAgree(f), NEW m, m = WithField(l, f)
  PROVE  /\ ListGood(m, c)
         /\ \E k : DOMAIN m = DOMAIN l \cup {k} /\ k \notin DOMAIN l /\ m[k] = f
         /\ \A i \in DOMAIN l : m[i] = l[i]
<1>1. PICK k \in Nat : k = Len(l) /\ DOMAIN l = 1..k
  BY FieldsFitFacts DEF ListGood
<1>2. PICK S : (\A x \in S : FieldShape(x)) /\ l \in Seq(S)
  BY DEF ListGood, FieldsFit
<1>3. PICK T : T = S \cup {f}
  OBVIOUS
<1>4. m \in Seq(T) /\ Len(m) = k + 1 /\ \A i \in 1..(k + 1) : m[i] = IF i <= k THEN l[i] ELSE f
  <2>1. l \in Seq(T) /\ f \in T
    BY <1>2, <1>3
  <2> QED
    BY <2>1, <1>1 DEF WithField
<1>5. FieldsFit(m)
  BY <1>2, <1>3, <1>4 DEF FieldsFit
<1>6. DOMAIN m = 1..(k + 1) /\ (\A i \in 1..k : m[i] = l[i]) /\ m[k + 1] = f
  BY <1>4
<1>7. IdsGiven(m, c) /\ IdsDiffer(m)
  BY <1>1, <1>6 DEF ListGood, IdsGiven, IdsDiffer
<1>8. NamesDiffer(m)
  BY <1>1, <1>6 DEF ListGood, NamesDiffer, NamesIn
<1>9. AllAgree(m)
  BY <1>1, <1>6 DEF ListGood, AllAgree
<1>10. DOMAIN m = DOMAIN l \cup {k + 1} /\ k + 1 \notin DOMAIN l
  BY <1>1, <1>6
<1> QED
  BY <1>1, <1>5, <1>6, <1>7, <1>8, <1>9, <1>10 DEF ListGood

\* The list a list is made from, place by place, without a place twice.
LEMMA PickedGood ==
  ASSUME NEW b, NEW l, ListGood(l, b), NEW n \in Nat, NEW m, m = [i \in 1..n |-> m[i]],
         NEW from, \A i \in 1..n : from[i] \in DOMAIN l /\ m[i] = l[from[i]],
         \A i, j \in 1..n : from[i] = from[j] => i = j
  PROVE  ListGood(m, b)
<1>1. \A i \in 1..n : FieldShape(m[i])
  BY FieldsFitFacts DEF ListGood
<1>2. FieldsFit(m) /\ DOMAIN m = 1..n
  BY <1>1, FieldsMade
<1>3. IdsGiven(m, b)
  BY <1>2 DEF ListGood, IdsGiven
<1>4. IdsDiffer(m)
  BY <1>2 DEF ListGood, IdsDiffer
<1>5. NamesDiffer(m)
  BY <1>2 DEF ListGood, NamesDiffer
<1>6. AllAgree(m)
  BY <1>2 DEF ListGood, AllAgree
<1> QED
  BY <1>2, <1>3, <1>4, <1>5, <1>6 DEF ListGood

LEMMA WithoutGood ==
  ASSUME NEW b, NEW l, ListGood(l, b), NEW i \in DOMAIN l
  PROVE  LET m == ListWithout(l, i) IN
         /\ ListGood(m, b)
         /\ i \in Nat \ {0} /\ Len(l) \in Nat /\ DOMAIN l = 1..Len(l)
         /\ Len(m) = Len(l) - 1 /\ DOMAIN m = 1..(Len(l) - 1)
         /\ \A j \in DOMAIN m : m[j] = IF j < i THEN l[j] ELSE l[j + 1]
<1>1. PICK k \in Nat : k = Len(l) /\ DOMAIN l = 1..k
  BY FieldsFitFacts DEF ListGood
<1>2. PICK m : m = ListWithout(l, i)
  OBVIOUS
<1>3. PICK n \in Nat : k = n + 1
  <2>1. i \in 1..k
    BY <1>1
  <2>2. k - 1 \in Nat /\ k = (k - 1) + 1
    BY <2>1
  <2> QED
    BY <2>2
<1>4. m = [j \in 1..n |-> IF j < i THEN l[j] ELSE l[j + 1]]
  <2>1. Len(l) - 1 = n
    BY <1>1, <1>3
  <2> QED
    BY <1>2, <2>1 DEF ListWithout
<1>5. m = [j \in 1..n |-> m[j]] /\ \A j \in 1..n : m[j] = IF j < i THEN l[j] ELSE l[j + 1]
  BY <1>4
<1>6. PICK from : from = [j \in 1..n |-> IF j < i THEN j ELSE j + 1]
  OBVIOUS
<1>7. i \in 1..k
  BY <1>1
<1>8. /\ \A j \in 1..n : from[j] \in DOMAIN l /\ m[j] = l[from[j]]
      /\ \A j, h \in 1..n : from[j] = from[h] => j = h
  BY <1>1, <1>3, <1>5, <1>6, <1>7
<1>9. ListGood(m, b)
  BY <1>3, <1>5, <1>8, PickedGood
<1>10. \A j \in 1..n : FieldShape(m[j])
  BY <1>8, FieldsFitFacts DEF ListGood
<1>11. Len(m) = n /\ DOMAIN m = 1..n
  BY <1>5, <1>10, FieldsMade
<1>12. Len(l) - 1 = n
  BY <1>1, <1>3
<1> QED
  BY <1>1, <1>2, <1>5, <1>7, <1>9, <1>11, <1>12

LEMMA SwappedGood ==
  ASSUME NEW b, NEW l, ListGood(l, b), NEW i \in DOMAIN l, NEW j \in DOMAIN l
  PROVE  LET m == Swapped(l, i, j) IN
         /\ ListGood(m, b)
         /\ DOMAIN m = DOMAIN l
         /\ m[j] = l[i] /\ m[i] = l[j]
         /\ \A h \in DOMAIN l \ {i, j} : m[h] = l[h]
<1>1. PICK k \in Nat : k = Len(l) /\ DOMAIN l = 1..k /\ l = [h \in 1..k |-> l[h]]
  BY FieldsFitFacts DEF ListGood
<1>2. PICK m : m = Swapped(l, i, j)
  OBVIOUS
<1>3. /\ m = [h \in 1..k |-> m[h]]
      /\ m[j] = l[i] /\ m[i] = l[j] /\ \A h \in DOMAIN l \ {i, j} : m[h] = l[h]
  BY <1>1, <1>2 DEF Swapped
<1>4. PICK from : from = [h \in 1..k |-> IF h = i THEN j ELSE IF h = j THEN i ELSE h]
  OBVIOUS
<1>5. /\ \A h \in 1..k : from[h] \in DOMAIN l /\ m[h] = l[from[h]]
      /\ \A h, g \in 1..k : from[h] = from[g] => h = g
  BY <1>1, <1>3, <1>4
<1>6. ListGood(m, b)
  BY <1>3, <1>5, PickedGood
<1> QED
  BY <1>1, <1>2, <1>3, <1>6

\* A field that is changed where it is.
LEMMA ChangedGood ==
  ASSUME NEW b, NEW l, ListGood(l, b), NEW i \in DOMAIN l, NEW f, FieldShape(f),
         f.id = l[i].id, DemandsAgree(f),
         \/ f.name = l[i].name
         \/ f.name.stem = "title"
         \/ \A j \in DOMAIN l \ {i} : f.name # l[j].name,
         NEW m, m = [l EXCEPT ![i] = f]
  PROVE  /\ ListGood(m, b) /\ DOMAIN m = DOMAIN l
         /\ m[i] = f /\ \A j \in DOMAIN l \ {i} : m[j] = l[j]
         /\ \A j \in DOMAIN l : m[j].id = l[j].id
<1>1. PICK k \in Nat : k = Len(l) /\ DOMAIN l = 1..k /\ l = [h \in 1..k |-> l[h]]
  BY FieldsFitFacts DEF ListGood
<1>2. m = [h \in 1..k |-> m[h]] /\ m[i] = f /\ \A h \in 1..k \ {i} : m[h] = l[h]
  BY <1>1
<1>3. \A h \in 1..k : FieldShape(m[h])
  BY <1>1, <1>2, FieldsFitFacts DEF ListGood
<1>4. FieldsFit(m) /\ DOMAIN m = 1..k
  BY <1>2, <1>3, FieldsMade
<1>5. \A j \in 1..k : m[j].id = l[j].id
  BY <1>1, <1>2
<1>6. IdsGiven(m, b) /\ IdsDiffer(m)
  <2>1. IdsGiven(l, b) /\ IdsDiffer(l)
    BY DEF ListGood
  <2>2. IdsGiven(m, b)
    BY <2>1, <1>1, <1>4, <1>5 DEF IdsGiven
  <2>3. IdsDiffer(m)
    <3> SUFFICES ASSUME NEW h \in 1..k, NEW g \in 1..k, m[h].id = m[g].id PROVE h = g
      BY <1>4 DEF IdsDiffer
    <3>1. l[h].id = l[g].id
      BY <1>5
    <3> QED
      BY <2>1, <3>1, <1>1 DEF IdsDiffer
  <2> QED
    BY <2>2, <2>3
<1>7. NamesDiffer(m)
  <2> SUFFICES ASSUME NEW h \in 1..k, NEW g \in 1..k, h # g, m[h].name = m[g].name
               PROVE  m[h].name.stem = "title"
    BY <1>4 DEF NamesDiffer
  <2>1. CASE h # i /\ g # i
    BY <2>1, <1>1, <1>2 DEF ListGood, NamesDiffer
  <2>2. CASE h = i
    BY <2>2, <1>1, <1>2 DEF ListGood, NamesDiffer
  <2>3. CASE g = i
    BY <2>3, <1>1, <1>2 DEF ListGood, NamesDiffer
  <2> QED
    BY <2>1, <2>2, <2>3
<1>8. AllAgree(m)
  BY <1>1, <1>2, <1>4 DEF ListGood, AllAgree
<1> QED
  BY <1>1, <1>2, <1>4, <1>5, <1>6, <1>7, <1>8 DEF ListGood

-----------------------------------------------------------------------------
(* The invariant *)

PutFits(p, b) ==
  /\ p = [kind |-> p.kind, fields |-> p.fields, base |-> p.base, givenUp |-> p.givenUp,
          done |-> p.done]
  /\ ListGood(p.fields, b)
  /\ p.kind = "save" /\ p.base.read =>
       NamesIn(p.base.fields) \ NamesIn(p.fields) \subseteq p.givenUp

\* The lists on the server and under way.
ElsewhereFits ==
  /\ schema = [dropped |-> schema.dropped, fields |-> schema.fields,
               columns |-> schema.columns]
  /\ ListGood(schema.fields, born)
  /\ ListGood(asking.fields, born)
  /\ \A p \in puts : PutFits(p, born)

\* The names that the list in the editor lacks of those read were given up in it.
DraftFits ==
  /\ ListGood(draftFields, born)
  /\ moul.read => NamesIn(moul.fields) \ NamesIn(draftFields) \subseteq givenUp

PanelsFit(l, open, meant) ==
  /\ open \subseteq DOMAIN l /\ meant \subseteq IdsIn(l)
  /\ \A i \in DOMAIN l : i \in open <=> l[i].id \in meant

PanelsInv == displaced \in BOOLEAN /\ (~displaced => PanelsFit(draftFields, expanded, panelsMeant))

EditorInv == born \in Nat /\ ElsewhereFits /\ DraftFits /\ PanelsInv

LEMMA EditorInitially ==
  ASSUME EditorInit
  PROVE  EditorInv
<1>1. PICK l : l = FirstFields
  OBVIOUS
<1>2. PICK f : f = NewField(1, [stem |-> "title", nr |-> 0])
  OBVIOUS
<1>3. PICK g : g = NewField(2, [stem |-> "field", nr |-> 2])
  OBVIOUS
<1>4. /\ FieldShape(f) /\ f.id = 1 /\ f.name.stem = "title" /\ ~f.unique
      /\ FieldShape(g) /\ g.id = 2 /\ g.name.stem = "field" /\ ~g.unique
  BY <1>2, <1>3 DEF NewField, FieldShape
<1>5. l = <<f, g>>
  BY <1>1, <1>2, <1>3 DEF FirstFields
<1>6. l \in Seq({f, g}) /\ DOMAIN l = 1..2 /\ l[1] = f /\ l[2] = g
  BY <1>5
<1>7. FieldsFit(l)
  BY <1>4, <1>6 DEF FieldsFit
<1>8. ListGood(l, 2)
  <2>1. \A i \in DOMAIN l : i = 1 \/ i = 2
    BY <1>6
  <2>2. IdsGiven(l, 2)
    BY <1>4, <1>6, <2>1 DEF IdsGiven
  <2>3. IdsDiffer(l)
    BY <1>4, <1>6, <2>1 DEF IdsDiffer
  <2>4. NamesDiffer(l)
    BY <1>4, <1>6, <2>1 DEF NamesDiffer
  <2>5. AllAgree(l)
    BY <1>4, <1>6, <2>1 DEF AllAgree, DemandsAgree
  <2> QED
    BY <1>7, <2>2, <2>3, <2>4, <2>5 DEF ListGood
<1>9. born = 2 /\ schema = [dropped |-> FALSE, fields |-> l, columns |-> NamesIn(l)]
  BY <1>1 DEF EditorInit
<1>10. ElsewhereFits
  <2>1. asking.fields = <<>> /\ puts = {}
    BY DEF EditorInit, Waiting
  <2> QED
    BY <1>8, <1>9, <2>1, EmptyGood DEF ElsewhereFits
<1>11. DraftFits
  BY EmptyGood DEF EditorInit, DraftFits, NotRead
<1>12. PanelsInv
  BY DEF EditorInit, PanelsInv, PanelsFit
<1> QED
  BY <1>9, <1>10, <1>11, <1>12 DEF EditorInv

-----------------------------------------------------------------------------
(* The steps of the editor *)

LEMMA EditedSound ==
  ASSUME EditorInv, UNCHANGED <<schema, moul, asking, puts, displaced>>,
         born' \in {born, born + 1}, ListGood(draftFields', born'),
         givenUp \cup (NamesIn(draftFields) \ NamesIn(draftFields')) \subseteq givenUp',
         ~displaced => PanelsFit(draftFields', expanded', panelsMeant')
  PROVE  EditorInv'
<1>1. born' \in Nat
  BY DEF EditorInv
<1>2. \A l : ListGood(l, born) => ListGood(l, born')
  BY GoodLater DEF EditorInv
<1>3. ElsewhereFits'
  <2>1. \A p \in puts : PutFits(p, born')
    BY <1>2 DEF EditorInv, ElsewhereFits, PutFits
  <2> QED
    BY <1>2, <2>1 DEF EditorInv, ElsewhereFits
<1>4. DraftFits'
  BY DEF EditorInv, DraftFits
<1>5. PanelsInv'
  BY DEF EditorInv, PanelsInv
<1> QED
  BY <1>1, <1>3, <1>4, <1>5 DEF EditorInv

\* A field is changed where it is, its name given up or kept, and its panel opened or
\* left.
LEMMA FieldEditedSound ==
  ASSUME EditorInv, NEW i \in DOMAIN draftFields, NEW f, FieldShape(f),
         f.id = draftFields[i].id, DemandsAgree(f),
         \/ f.name = draftFields[i].name
         \/ f.name.stem = "title"
         \/ \A j \in DOMAIN draftFields \ {i} : f.name # draftFields[j].name,
         SetField(i, f),
         UNCHANGED <<schema, moul, asking, puts, displaced, born>>,
         givenUp \subseteq givenUp',
         f.name = draftFields[i].name \/ draftFields[i].name \in givenUp',
         \/ UNCHANGED <<expanded, panelsMeant>>
         \/ expanded' = expanded \cup {i}
            /\ panelsMeant' = panelsMeant \cup {draftFields[i].id}
  PROVE  EditorInv'
<1>1. ListGood(draftFields, born)
  BY DEF EditorInv, DraftFits
<1>2. /\ ListGood(draftFields', born) /\ DOMAIN draftFields' = DOMAIN draftFields
      /\ draftFields'[i] = f
      /\ \A j \in DOMAIN draftFields \ {i} : draftFields'[j] = draftFields[j]
      /\ \A j \in DOMAIN draftFields : draftFields'[j].id = draftFields[j].id
  BY <1>1, ChangedGood DEF SetField
<1>3. NamesIn(draftFields) \ NamesIn(draftFields') \subseteq givenUp'
  <2> SUFFICES ASSUME NEW j \in DOMAIN draftFields, draftFields[j].name \notin givenUp'
               PROVE  draftFields[j].name \in NamesIn(draftFields')
    BY DEF NamesIn
  <2>1. draftFields'[j].name = draftFields[j].name
    BY <1>2
  <2> QED
    BY <1>2, <2>1 DEF NamesIn
<1>4. ~displaced => PanelsFit(draftFields', expanded', panelsMeant')
  <2> SUFFICES ASSUME ~displaced PROVE PanelsFit(draftFields', expanded', panelsMeant')
    OBVIOUS
  <2>1. PanelsFit(draftFields, expanded, panelsMeant)
    BY DEF EditorInv, PanelsInv
  <2>2. draftFields[i].id \in 1..born
        /\ \A j \in DOMAIN draftFields : draftFields[j].id = draftFields[i].id => j = i
    BY <1>1 DEF ListGood, IdsGiven, IdsDiffer
  <2>3. IdsIn(draftFields') = IdsIn(draftFields) /\ draftFields[i].id \in IdsIn(draftFields)
    BY <1>2 DEF IdsIn
  <2> QED
    BY <1>2, <2>1, <2>2, <2>3 DEF PanelsFit
<1> QED
  BY <1>2, <1>3, <1>4, EditedSound

LEMMA AddFieldSound ==
  ASSUME EditorInv, AddField
  PROVE  EditorInv'
<1>1. PICK name : name = NextFieldName(draftFields)
  OBVIOUS
<1>2. PICK c : c = born + 1
  OBVIOUS
<1>3. PICK f : f = NewField(c, name)
  OBVIOUS
<1>4. /\ draftFields' = WithField(draftFields, f) /\ born' = c
      /\ UNCHANGED <<schema, moul, asking, puts, displaced, givenUp, expanded, panelsMeant>>
  BY <1>1, <1>2, <1>3 DEF AddField, WithField
<1>5. born \in Nat /\ ListGood(draftFields, born)
  BY DEF EditorInv, DraftFits
<1>6. FieldShape(f) /\ f.id = c /\ f.name \notin NamesIn(draftFields) /\ DemandsAgree(f)
  <2>1. name \notin NamesIn(draftFields)
    BY <1>1, <1>5, FieldNameFree DEF ListGood
  <2> QED
    BY <1>3, <2>1 DEF NewField, FieldShape, DemandsAgree
<1>7. /\ ListGood(draftFields', c)
      /\ \E k : /\ DOMAIN draftFields' = DOMAIN draftFields \cup {k} /\ k \notin DOMAIN draftFields
                /\ draftFields'[k] = f
      /\ \A i \in DOMAIN draftFields : draftFields'[i] = draftFields[i]
  BY <1>2, <1>4, <1>5, <1>6, AppendedGood
<1>8. NamesIn(draftFields) \subseteq NamesIn(draftFields')
      /\ IdsIn(draftFields) \subseteq IdsIn(draftFields')
  BY <1>7 DEF NamesIn, IdsIn
<1>9. ~displaced => PanelsFit(draftFields', expanded', panelsMeant')
  <2> SUFFICES ASSUME ~displaced
               PROVE  PanelsFit(draftFields', expanded, panelsMeant)
    BY <1>4
  <2>1. PanelsFit(draftFields, expanded, panelsMeant)
    BY DEF EditorInv, PanelsInv
  <2>2. c \notin 1..born
    BY <1>2, <1>5
  <2>3. c \notin panelsMeant
    BY <1>5, <2>1, <2>2 DEF PanelsFit, IdsIn, ListGood, IdsGiven
  <2> QED
    BY <1>6, <1>7, <1>8, <2>1, <2>3 DEF PanelsFit
<1> QED
  BY <1>2, <1>4, <1>7, <1>8, <1>9, EditedSound

LEMMA MoveFieldSound ==
  ASSUME EditorInv, NEW i, NEW j, MoveField(i, j)
  PROVE  EditorInv'
<1>1. /\ i \in DOMAIN draftFields /\ j \in DOMAIN draftFields /\ j \in {i - 1, i + 1}
      /\ draftFields' = Swapped(draftFields, i, j)
      /\ expanded' = (expanded \ {i, j}) \cup (IF i \in expanded THEN {j} ELSE {})
                                         \cup (IF j \in expanded THEN {i} ELSE {})
      /\ UNCHANGED <<schema, moul, asking, puts, displaced, givenUp, panelsMeant, born>>
  BY DEF MoveField
<1>2. ListGood(draftFields, born)
  BY DEF EditorInv, DraftFits
<1>3. /\ ListGood(draftFields', born) /\ DOMAIN draftFields' = DOMAIN draftFields
      /\ draftFields'[j] = draftFields[i] /\ draftFields'[i] = draftFields[j]
      /\ \A h \in DOMAIN draftFields \ {i, j} : draftFields'[h] = draftFields[h]
  BY <1>1, <1>2, SwappedGood
<1>4. IdsIn(draftFields') = IdsIn(draftFields) /\ NamesIn(draftFields') = NamesIn(draftFields)
  BY <1>1, <1>3 DEF IdsIn, NamesIn
<1>5. i # j
  <2>1. i \in Nat
    BY <1>1, <1>2, FieldsFitFacts DEF ListGood
  <2> QED
    BY <1>1, <2>1
<1>6. ~displaced => PanelsFit(draftFields', expanded', panelsMeant')
  <2> SUFFICES ASSUME ~displaced
               PROVE  PanelsFit(draftFields', expanded', panelsMeant)
    BY <1>1
  <2>1. PanelsFit(draftFields, expanded, panelsMeant)
    BY DEF EditorInv, PanelsInv
  <2>2. /\ i \in expanded' <=> j \in expanded
        /\ j \in expanded' <=> i \in expanded
        /\ \A h \in DOMAIN draftFields \ {i, j} : h \in expanded' <=> h \in expanded
        /\ expanded' \subseteq expanded \cup {i, j}
    BY <1>1, <1>5
  <2> QED
    BY <1>1, <1>3, <1>4, <2>1, <2>2 DEF PanelsFit
<1> QED
  BY <1>1, <1>3, <1>4, <1>6, EditedSound

LEMMA RemoveFieldSound ==
  ASSUME EditorInv, NEW i, RemoveField(i)
  PROVE  EditorInv'
<1>1. /\ i \in DOMAIN draftFields
      /\ draftFields' = ListWithout(draftFields, i)
      /\ expanded' = {j \in expanded : j < i} \cup {j - 1 : j \in {k \in expanded : k > i}}
      /\ panelsMeant' = panelsMeant \ {draftFields[i].id}
      /\ givenUp' = givenUp \cup {draftFields[i].name}
      /\ UNCHANGED <<schema, moul, asking, puts, displaced, born>>
  BY DEF RemoveField
<1>2. ListGood(draftFields, born)
  BY DEF EditorInv, DraftFits
<1>3. PICK n \in Nat : n = Len(draftFields) /\ DOMAIN draftFields = 1..n /\ i \in 1..n
  BY <1>1, <1>2, WithoutGood
<1>4. /\ ListGood(draftFields', born) /\ DOMAIN draftFields' = 1..(n - 1)
      /\ \A j \in 1..(n - 1) :
           draftFields'[j] = IF j < i THEN draftFields[j] ELSE draftFields[j + 1]
  BY <1>1, <1>2, <1>3, WithoutGood
<1>5. \A j \in 1..n : j = i \/ \E h \in 1..(n - 1) : draftFields'[h] = draftFields[j]
  <2> SUFFICES ASSUME NEW j \in 1..n, j # i
               PROVE  \E h \in 1..(n - 1) : draftFields'[h] = draftFields[j]
    OBVIOUS
  <2>1. CASE j < i
    <3>1. j \in 1..(n - 1) /\ draftFields'[j] = draftFields[j]
      BY <1>3, <1>4, <2>1
    <3> QED
      BY <3>1
  <2>2. CASE j > i
    <3>1. PICK h \in 1..(n - 1) : h + 1 = j /\ ~ (h < i)
      <4>1. j - 1 \in 1..(n - 1) /\ (j - 1) + 1 = j /\ ~ (j - 1 < i)
        BY <1>3, <2>2
      <4> QED
        BY <4>1
    <3> QED
      BY <1>4, <3>1
  <2> QED
    BY <1>3, <2>1, <2>2
<1>6. NamesIn(draftFields) \ NamesIn(draftFields') \subseteq givenUp'
      /\ IdsIn(draftFields) \ {draftFields[i].id} \subseteq IdsIn(draftFields')
  <2>1. PICK l, m : l = draftFields /\ m = draftFields'
    OBVIOUS
  <2>2. DOMAIN l = 1..n /\ DOMAIN m = 1..(n - 1)
    BY <1>3, <1>4, <2>1
  <2>3. \A j \in 1..n : j = i \/ \E h \in 1..(n - 1) : m[h] = l[j]
    BY <1>5, <2>1
  <2>4. NamesIn(l) \ NamesIn(m) \subseteq {l[i].name}
    BY <2>2, <2>3 DEF NamesIn
  <2>5. IdsIn(l) \ {l[i].id} \subseteq IdsIn(m)
    BY <2>2, <2>3 DEF IdsIn
  <2> QED
    BY <1>1, <2>1, <2>4, <2>5
<1>7. \A j \in 1..(n - 1) : draftFields'[j].id # draftFields[i].id
  <2> SUFFICES ASSUME NEW j \in 1..(n - 1) PROVE draftFields'[j].id # draftFields[i].id
    OBVIOUS
  <2>1. PICK h \in 1..n : h # i /\ draftFields'[j] = draftFields[h]
    <3>1. j \in 1..n /\ j + 1 \in 1..n /\ (j < i \/ j + 1 # i)
      BY <1>3
    <3>2. CASE j < i
      BY <1>3, <1>4, <3>1, <3>2
    <3>3. CASE ~ (j < i)
      BY <1>4, <3>1, <3>3
    <3> QED
      BY <3>2, <3>3
  <2> QED
    BY <1>2, <1>3, <2>1 DEF ListGood, IdsDiffer
<1>8. ~displaced => PanelsFit(draftFields', expanded', panelsMeant')
  <2> SUFFICES ASSUME ~displaced
               PROVE  PanelsFit(draftFields', expanded', panelsMeant')
    OBVIOUS
  <2>1. PanelsFit(draftFields, expanded, panelsMeant)
    BY DEF EditorInv, PanelsInv
  <2>2. expanded \subseteq 1..n
    BY <1>3, <2>1 DEF PanelsFit
  <2>3. expanded' \subseteq 1..(n - 1)
    <3> SUFFICES ASSUME NEW h \in expanded' PROVE h \in 1..(n - 1)
      OBVIOUS
    <3>1. CASE h \in expanded /\ h < i
      BY <3>1, <1>3, <2>2
    <3>2. CASE \E k \in expanded : k > i /\ h = k - 1
      <4>1. PICK k \in 1..n : k > i /\ h = k - 1
        BY <3>2, <2>2
      <4> QED
        BY <4>1, <1>3
    <3> QED
      BY <1>1, <3>1, <3>2
  <2>4. ASSUME NEW j \in 1..(n - 1), j < i PROVE j \in expanded' <=> j \in expanded
    BY <1>1, <1>3, <2>2, <2>4
  <2>5. ASSUME NEW j \in 1..(n - 1), ~ (j < i) PROVE j \in expanded' <=> j + 1 \in expanded
    <3>1. j + 1 > i /\ (j + 1) - 1 = j
      BY <1>3, <2>5
    <3>2. ASSUME j + 1 \in expanded PROVE j \in expanded'
      BY <1>1, <3>1, <3>2
    <3>3. ASSUME j \in expanded' PROVE j + 1 \in expanded
      <4>1. PICK k \in expanded : k > i /\ j = k - 1
        BY <1>1, <2>5, <3>3
      <4>2. k = j + 1
        BY <2>2, <4>1
      <4> QED
        BY <4>1, <4>2
    <3> QED
      BY <3>2, <3>3
  <2>6. \A j \in 1..(n - 1) : j \in expanded' <=> draftFields'[j].id \in panelsMeant'
    <3> SUFFICES ASSUME NEW j \in 1..(n - 1)
                 PROVE  j \in expanded' <=> draftFields'[j].id \in panelsMeant
      BY <1>1, <1>7
    <3>1. j \in 1..n /\ j + 1 \in 1..n
      BY <1>3
    <3>2. CASE j < i
      BY <3>1, <3>2, <1>3, <1>4, <2>1, <2>4 DEF PanelsFit
    <3>3. CASE ~ (j < i)
      BY <3>1, <3>3, <1>3, <1>4, <2>1, <2>5 DEF PanelsFit
    <3> QED
      BY <3>2, <3>3
  <2> QED
    BY <1>1, <1>4, <1>6, <2>1, <2>3, <2>6 DEF PanelsFit
<1> QED
  BY <1>1, <1>4, <1>6, <1>8, EditedSound

\* A field given another type keeps its id, and its name or gets a free one.
LEMMA TypedField ==
  ASSUME NEW b, ListGood(draftFields, b), NEW i \in DOMAIN draftFields, NEW t \in FieldKinds,
         NEW h, h = OfType(i, t)
  PROVE  /\ FieldShape(h) /\ h.id = draftFields[i].id /\ DemandsAgree(h)
         /\ \/ h.name = draftFields[i].name
            \/ \A j \in DOMAIN draftFields \ {i} : h.name # draftFields[j].name
<1>1. PICK g : g = draftFields[i]
  OBVIOUS
<1>2. FieldShape(g) /\ DemandsAgree(g)
  BY <1>1, FieldsFitFacts DEF ListGood, AllAgree
<1>3. PICK f : f = [g EXCEPT !.type = t, !.unique = @ /\ t \in Eligible]
  OBVIOUS
<1>4. PICK target : target = IF f.target = NoTarget THEN Targets[1] ELSE f.target
  OBVIOUS
<1>5. PICK name : name = NextRelationName(Targets[1], ListWithout(draftFields, i))
  OBVIOUS
<1>6. PICK r : r = [f EXCEPT !.target = target,
                             !.name = IF @.stem = "field" THEN name ELSE @]
  OBVIOUS
<1>7. PICK s : s = [f EXCEPT !.options = {"option1", "option2"}]
  OBVIOUS
<1>8. h = CASE t = "relation" -> r [] t = "select" /\ f.options = {} -> s [] OTHER -> f
  BY <1>1, <1>3, <1>4, <1>5, <1>6, <1>7, Zenon DEF OfType
<1>9. h \in {r, s, f}
  BY <1>8
<1>10. FieldShape(f) /\ f.id = g.id /\ f.name = g.name /\ DemandsAgree(f)
  BY <1>2, <1>3 DEF FieldShape, DemandsAgree
<1>11. FieldShape(r) /\ r.id = f.id /\ r.name \in {f.name, name} /\ DemandsAgree(r)
  BY <1>6, <1>10 DEF FieldShape, DemandsAgree
<1>12. FieldShape(s) /\ s.id = f.id /\ s.name = f.name /\ DemandsAgree(s)
  BY <1>7, <1>10 DEF FieldShape, DemandsAgree
<1>13. \A j \in DOMAIN draftFields \ {i} : name # draftFields[j].name
  <2> SUFFICES ASSUME NEW j \in DOMAIN draftFields, j # i
               PROVE  draftFields[j].name # name
    OBVIOUS
  <2>1. PICK m : m = ListWithout(draftFields, i)
    OBVIOUS
  <2>2. PICK n \in Nat : /\ n = Len(draftFields) /\ DOMAIN draftFields = 1..n /\ i \in 1..n
                         /\ ListGood(m, b) /\ DOMAIN m = 1..(n - 1)
                         /\ \A k \in 1..(n - 1) :
                              m[k] = IF k < i THEN draftFields[k] ELSE draftFields[k + 1]
    BY <2>1, WithoutGood
  <2>3. \E k \in 1..(n - 1) : m[k] = draftFields[j]
    <3>1. CASE j < i
      <4>1. j \in 1..(n - 1) /\ m[j] = draftFields[j]
        BY <2>2, <3>1
      <4> QED
        BY <4>1
    <3>2. CASE j > i
      <4>1. PICK k \in 1..(n - 1) : k + 1 = j /\ ~ (k < i)
        <5>1. j - 1 \in 1..(n - 1) /\ (j - 1) + 1 = j /\ ~ (j - 1 < i)
          BY <2>2, <3>2
        <5> QED
          BY <5>1
      <4> QED
        BY <2>2, <4>1
    <3> QED
      BY <2>2, <3>1, <3>2
  <2>4. name \notin NamesIn(m)
    BY <1>5, <2>1, <2>2, RelationNameFree DEF ListGood
  <2> QED
    BY <2>2, <2>3, <2>4 DEF NamesIn
<1> QED
  BY <1>1, <1>9, <1>10, <1>11, <1>12, <1>13

LEMMA ChangeTypeSound ==
  ASSUME EditorInv, NEW i, NEW t \in FieldKinds, ChangeType(i, t)
  PROVE  EditorInv'
<1>1. PICK h : h = OfType(i, t)
  OBVIOUS
<1>2. /\ i \in DOMAIN draftFields /\ SetField(i, h)
      /\ \/ expanded' = expanded \cup {i}
            /\ panelsMeant' = panelsMeant \cup {draftFields[i].id}
         \/ UNCHANGED <<expanded, panelsMeant>>
      /\ UNCHANGED <<schema, moul, asking, puts, displaced, born>>
      /\ givenUp \subseteq givenUp'
      /\ h.name = draftFields[i].name \/ draftFields[i].name \in givenUp'
  BY <1>1 DEF ChangeType
<1>3. ListGood(draftFields, born)
  BY DEF EditorInv, DraftFits
<1>4. /\ FieldShape(h) /\ h.id = draftFields[i].id /\ DemandsAgree(h)
      /\ \/ h.name = draftFields[i].name
         \/ \A j \in DOMAIN draftFields \ {i} : h.name # draftFields[j].name
  BY <1>1, <1>2, <1>3, TypedField
<1> QED
  BY <1>2, <1>4, FieldEditedSound

\* A change of a field that keeps its id, its name and what is demanded of it.
LEMMA DetailEditedSound ==
  ASSUME EditorInv, NEW i \in DOMAIN draftFields, NEW f, FieldShape(f),
         f.id = draftFields[i].id, f.name = draftFields[i].name, DemandsAgree(f),
         SetField(i, f),
         UNCHANGED <<schema, moul, asking, puts, displaced, givenUp, born, expanded, panelsMeant>>
  PROVE  EditorInv'
BY FieldEditedSound

LEMMA FieldAt ==
  ASSUME EditorInv, NEW i \in DOMAIN draftFields
  PROVE  FieldShape(draftFields[i]) /\ DemandsAgree(draftFields[i])
BY FieldsFitFacts DEF EditorInv, DraftFits, ListGood, AllAgree

LEMMA ChangeDemandsSound ==
  ASSUME EditorInv, NEW i, NEW required \in BOOLEAN, NEW unique \in BOOLEAN,
         ChangeDemands(i, required, unique)
  PROVE  EditorInv'
<1>1. i \in DOMAIN draftFields
  BY DEF ChangeDemands
<1>2. PICK g : g = draftFields[i]
  OBVIOUS
<1>3. FieldShape(g) /\ DemandsAgree(g)
  BY <1>1, <1>2, FieldAt
<1>4. PICK f : f = Demanded(g, required, unique)
  OBVIOUS
<1>5. /\ SetField(i, f) /\ (unique => g.type \in Eligible)
      /\ UNCHANGED <<schema, moul, asking, puts, displaced, givenUp, born, expanded, panelsMeant>>
  BY <1>2, <1>4 DEF ChangeDemands
<1>6. CASE unique # g.unique
  <2>1. f = [g EXCEPT !.unique = unique, !.required = @ \/ unique]
    BY <1>4, <1>6 DEF Demanded
  <2>2. FieldShape(f) /\ f.id = g.id /\ f.name = g.name /\ DemandsAgree(f)
    BY <2>1, <1>3, <1>5 DEF FieldShape, DemandsAgree
  <2> QED
    BY <2>2, <1>1, <1>2, <1>5, DetailEditedSound
<1>7. CASE unique = g.unique
  <2>1. f = [g EXCEPT !.required = required, !.unique = @ /\ required]
    BY <1>4, <1>7 DEF Demanded
  <2>2. FieldShape(f) /\ f.id = g.id /\ f.name = g.name /\ DemandsAgree(f)
    BY <2>1, <1>3 DEF FieldShape, DemandsAgree
  <2> QED
    BY <2>2, <1>1, <1>2, <1>5, DetailEditedSound
<1> QED
  BY <1>6, <1>7

LEMMA RenameSound ==
  ASSUME EditorInv, NEW i, Rename(i)
  PROVE  EditorInv'
<1>1. i \in DOMAIN draftFields
  BY DEF Rename
<1>2. PICK g : g = draftFields[i]
  OBVIOUS
<1>3. PICK f : f = [g EXCEPT !.name = [stem |-> "title", nr |-> 0]]
  OBVIOUS
<1>4. FieldShape(f) /\ f.id = g.id /\ f.name.stem = "title" /\ DemandsAgree(f)
  <2>1. FieldShape(g) /\ DemandsAgree(g)
    BY <1>1, <1>2, FieldAt
  <2> QED
    BY <2>1, <1>3 DEF FieldShape, DemandsAgree
<1>5. /\ SetField(i, f) /\ givenUp' = givenUp \cup {g.name}
      /\ UNCHANGED <<schema, moul, asking, puts, displaced, born, expanded, panelsMeant>>
  BY <1>2, <1>3 DEF Rename
<1> QED
  BY <1>1, <1>2, <1>4, <1>5, FieldEditedSound

LEMMA ToggleExpandSound ==
  ASSUME EditorInv, NEW i, ToggleExpand(i)
  PROVE  EditorInv'
<1>1. i \in DOMAIN draftFields
  BY DEF ToggleExpand
<1>2. UNCHANGED <<schema, moul, asking, puts, displaced, givenUp, born, draftFields>>
  BY DEF ToggleExpand
<1>3. ListGood(draftFields, born)
  BY DEF EditorInv, DraftFits
<1>4. ASSUME ~displaced PROVE PanelsFit(draftFields, expanded', panelsMeant')
  <2>1. PanelsFit(draftFields, expanded, panelsMeant)
    BY <1>4 DEF EditorInv, PanelsInv
  <2>2. draftFields[i].id \in IdsIn(draftFields)
        /\ \A j \in DOMAIN draftFields : draftFields[j].id = draftFields[i].id => j = i
    BY <1>1, <1>3 DEF IdsIn, ListGood, IdsDiffer
  <2>3. CASE i \in expanded
    <3>1. expanded' = expanded \ {i} /\ panelsMeant' = panelsMeant \ {draftFields[i].id}
      BY <2>3 DEF ToggleExpand
    <3> QED
      BY <1>1, <2>1, <2>2, <3>1 DEF PanelsFit
  <2>4. CASE i \notin expanded
    <3>1. expanded' = expanded \cup {i} /\ panelsMeant' = panelsMeant \cup {draftFields[i].id}
      BY <2>4 DEF ToggleExpand
    <3> QED
      BY <1>1, <2>1, <2>2, <3>1 DEF PanelsFit
  <2> QED
    BY <2>3, <2>4
<1> QED
  BY <1>2, <1>3, <1>4, EditedSound

LEMMA ChangeTargetSound ==
  ASSUME EditorInv, NEW i, NEW t, ChangeTarget(i, t)
  PROVE  EditorInv'
<1>1. i \in DOMAIN draftFields
  BY DEF ChangeTarget
<1>2. PICK g : g = draftFields[i]
  OBVIOUS
<1>3. PICK f : f = [g EXCEPT !.target = t]
  OBVIOUS
<1>4. FieldShape(f) /\ f.id = g.id /\ f.name = g.name /\ DemandsAgree(f)
  <2>1. FieldShape(g) /\ DemandsAgree(g)
    BY <1>1, <1>2, FieldAt
  <2> QED
    BY <2>1, <1>3 DEF FieldShape, DemandsAgree
<1>5. /\ SetField(i, f)
      /\ UNCHANGED <<schema, moul, asking, puts, displaced, givenUp, born, expanded, panelsMeant>>
  BY <1>2, <1>3 DEF ChangeTarget
<1> QED
  BY <1>1, <1>2, <1>4, <1>5, DetailEditedSound

LEMMA OptionsSound ==
  ASSUME EditorInv, NEW i \in DOMAIN draftFields, NEW options,
         SetField(i, [draftFields[i] EXCEPT !.options = options]),
         UNCHANGED <<schema, moul, asking, puts, displaced, givenUp, born, expanded, panelsMeant>>
  PROVE  EditorInv'
<1>1. PICK g : g = draftFields[i]
  OBVIOUS
<1>2. PICK f : f = [g EXCEPT !.options = options]
  OBVIOUS
<1>3. FieldShape(f) /\ f.id = g.id /\ f.name = g.name /\ DemandsAgree(f)
  <2>1. FieldShape(g) /\ DemandsAgree(g)
    BY <1>1, FieldAt
  <2> QED
    BY <2>1, <1>2 DEF FieldShape, DemandsAgree
<1>4. SetField(i, f)
  BY <1>1, <1>2
<1> QED
  BY <1>1, <1>3, <1>4, DetailEditedSound

LEMMA AddOptionSound ==
  ASSUME EditorInv, NEW i, AddOption(i)
  PROVE  EditorInv'
<1>1. PICK g : g = draftFields[i]
  OBVIOUS
<1>2. PICK options : options = g.options \cup {typedOption[i]}
  OBVIOUS
<1>3. /\ i \in DOMAIN draftFields /\ SetField(i, [draftFields[i] EXCEPT !.options = options])
      /\ UNCHANGED <<schema, moul, asking, puts, displaced, givenUp, born, expanded, panelsMeant>>
  BY <1>1, <1>2 DEF AddOption
<1> QED
  BY <1>3, OptionsSound

LEMMA RemoveOptionSound ==
  ASSUME EditorInv, NEW i, NEW o, RemoveOption(i, o)
  PROVE  EditorInv'
<1>1. PICK g : g = draftFields[i]
  OBVIOUS
<1>2. PICK options : options = g.options \ {o}
  OBVIOUS
<1>3. /\ i \in DOMAIN draftFields /\ SetField(i, [draftFields[i] EXCEPT !.options = options])
      /\ UNCHANGED <<schema, moul, asking, puts, displaced, givenUp, born, expanded, panelsMeant>>
  BY <1>1, <1>2 DEF RemoveOption
<1> QED
  BY <1>3, OptionsSound

LEMMA TypeOptionSound ==
  ASSUME EditorInv, NEW i, NEW o, TypeOption(i, o)
  PROVE  EditorInv'
<1>1. UNCHANGED <<schema, moul, asking, puts, displaced, draftFields, expanded, panelsMeant,
                  givenUp, born>>
  BY DEF TypeOption
<1> QED
  BY <1>1 DEF EditorInv, ElsewhereFits, DraftFits, PanelsInv

-----------------------------------------------------------------------------
(* The steps of saving, deleting and reading *)

LEMMA AfarSound ==
  ASSUME EditorInv, UNCHANGED editVars, ElsewhereFits', moul' = moul \/ ~moul'.read
  PROVE  EditorInv'
<1>1. UNCHANGED <<displaced, draftFields, expanded, panelsMeant, givenUp, born>>
  BY DEF editVars
<1>2. DraftFits'
  BY <1>1 DEF EditorInv, DraftFits
<1> QED
  BY <1>1, <1>2 DEF EditorInv, PanelsInv

LEMMA PutsSound ==
  ASSUME EditorInv, UNCHANGED <<schema, editVars>>, moul' = moul \/ ~moul'.read,
         asking' \in {asking, Quiet, Waiting},
         \A p \in puts' : p \in puts \/ PutFits(p, born)
  PROVE  EditorInv'
<1>1. born' = born /\ schema' = schema
  BY DEF editVars
<1>2. ListGood(asking'.fields, born)
  BY EmptyGood DEF EditorInv, ElsewhereFits, Quiet, Waiting
<1>3. ElsewhereFits'
  BY <1>1, <1>2 DEF EditorInv, ElsewhereFits
<1> QED
  BY <1>3, AfarSound

LEMMA HandleSaveSound ==
  ASSUME EditorInv, HandleSave
  PROVE  EditorInv'
<1>1. PICK p : p = [kind |-> "save", fields |-> draftFields, base |-> moul,
                    givenUp |-> givenUp, done |-> FALSE]
  OBVIOUS
<1>2. puts' = puts \cup {p} /\ UNCHANGED <<schema, moul, asking, editVars>>
  BY <1>1 DEF HandleSave
<1>3. PutFits(p, born)
  BY <1>1 DEF EditorInv, DraftFits, PutFits
<1> QED
  BY <1>2, <1>3, PutsSound

LEMMA DropSound ==
  ASSUME EditorInv, AskDrop \/ DismissDrop \/ ConfirmDrop
  PROVE  EditorInv'
<1>1. PICK p : p = [kind |-> "drop", fields |-> <<>>, base |-> moul, givenUp |-> {},
                    done |-> FALSE]
  OBVIOUS
<1>2. puts' \subseteq puts \cup {p} /\ UNCHANGED <<schema, moul, asking, editVars>>
  BY <1>1 DEF AskDrop, DismissDrop, ConfirmDrop
<1>3. PutFits(p, born)
  BY <1>1, EmptyGood DEF PutFits
<1> QED
  BY <1>2, <1>3, PutsSound

LEMMA CarryPutSound ==
  ASSUME EditorInv, NEW p \in puts, CarryPut(p)
  PROVE  EditorInv'
<1>1. PICK q : q = [p EXCEPT !.done = TRUE]
  OBVIOUS
<1>2. /\ puts' = (puts \ {p}) \cup {q} /\ UNCHANGED <<moul, asking, editVars>>
      /\ schema' = IF p.kind = "save"
                   THEN [schema EXCEPT !.fields = p.fields,
                                       !.columns = (@ \ ColumnsLost(p)) \cup NamesIn(p.fields)]
                   ELSE Dropped
  BY <1>1 DEF CarryPut
<1>3. PutFits(p, born)
  BY DEF EditorInv, ElsewhereFits
<1>4. PutFits(q, born)
  BY <1>1, <1>3 DEF PutFits
<1>5. /\ schema' = [dropped |-> schema'.dropped, fields |-> schema'.fields,
                     columns |-> schema'.columns]
      /\ ListGood(schema'.fields, born)
  <2>1. CASE p.kind = "save"
    <3>1. PICK s : s = [schema EXCEPT !.fields = p.fields,
                                      !.columns = (@ \ ColumnsLost(p)) \cup NamesIn(p.fields)]
      OBVIOUS
    <3>2. /\ s = [dropped |-> s.dropped, fields |-> s.fields, columns |-> s.columns]
          /\ s.fields = p.fields
      BY <3>1 DEF EditorInv, ElsewhereFits
    <3> QED
      BY <1>2, <1>3, <2>1, <3>1, <3>2 DEF PutFits
  <2>2. CASE p.kind # "save"
    BY <1>2, <2>2, EmptyGood DEF Dropped
  <2> QED
    BY <2>1, <2>2
<1>6. born' = born
  BY <1>2 DEF editVars
<1>7. ElsewhereFits'
  BY <1>2, <1>4, <1>5, <1>6 DEF EditorInv, ElsewhereFits
<1> QED
  BY <1>2, <1>7, AfarSound

LEMMA PutEndedSound ==
  ASSUME EditorInv, NEW p \in puts, PutFailed(p) \/ SchemaSaved(p) \/ CollectionDropped(p)
  PROVE  EditorInv'
<1>1. /\ puts' \subseteq puts /\ UNCHANGED <<schema, editVars>>
      /\ asking' \in {asking, Waiting} /\ (moul' = moul \/ moul' = NotRead)
  BY DEF PutFailed, SchemaSaved, CollectionDropped
<1>2. ~NotRead.read
  BY DEF NotRead
<1> QED
  BY <1>1, <1>2, PutsSound

LEMMA AskedSound ==
  ASSUME EditorInv, LookAtSchema \/ SchemaUnread
  PROVE  EditorInv'
<1>1. asking' \in {Quiet, Waiting} /\ UNCHANGED <<schema, moul, editVars, puts>>
  BY DEF LookAtSchema, SchemaUnread
<1> QED
  BY <1>1, PutsSound

LEMMA GetMoulSound ==
  ASSUME EditorInv, GetMoul
  PROVE  EditorInv'
<1>1. /\ asking' = [state |-> "answered", fields |-> schema.fields]
      /\ UNCHANGED <<schema, moul, editVars, puts>>
  BY DEF GetMoul
<1>2. asking'.fields = schema.fields /\ born' = born
  BY <1>1 DEF editVars
<1>3. ElsewhereFits'
  BY <1>1, <1>2 DEF EditorInv, ElsewhereFits
<1> QED
  BY <1>1, <1>3, AfarSound

LEMMA SchemaReadSound ==
  ASSUME EditorInv, SchemaRead
  PROVE  EditorInv'
<1>1. moul' = [read |-> TRUE, fields |-> asking.fields] /\ asking' = Quiet
      /\ UNCHANGED <<schema, puts>>
  BY DEF SchemaRead
<1>2. CASE moul' = moul
  <2>1. UNCHANGED editVars
    BY <1>2 DEF SchemaRead
  <2> QED
    BY <1>1, <1>2, <2>1, PutsSound
<1>3. CASE moul' # moul
  <2>1. /\ draftFields' = asking.fields /\ givenUp' = {}
        /\ displaced' = (displaced \/ ~KeepsPlaces(draftFields, asking.fields))
        /\ UNCHANGED <<expanded, panelsMeant, born>>
    BY <1>3 DEF SchemaRead
  <2>2. PICK l : l = asking.fields
    OBVIOUS
  <2>3. ListGood(l, born) /\ ListGood(draftFields, born)
    BY <2>2 DEF EditorInv, ElsewhereFits, DraftFits
  <2>4. ElsewhereFits'
    BY <1>1, <2>1, EmptyGood DEF EditorInv, ElsewhereFits, Quiet
  <2>5. DraftFits'
    BY <1>1, <2>1, <2>2, <2>3 DEF DraftFits
  <2>6. ASSUME ~displaced' PROVE PanelsFit(l, expanded, panelsMeant)
    <3>1. ~displaced /\ KeepsPlaces(draftFields, l)
      BY <2>1, <2>2, <2>6
    <3>2. PanelsFit(draftFields, expanded, panelsMeant)
      BY <3>1 DEF EditorInv, PanelsInv
    <3>3. DOMAIN draftFields \subseteq DOMAIN l
          /\ \A i \in DOMAIN draftFields : l[i].id = draftFields[i].id
      BY <3>1 DEF KeepsPlaces
    <3>4. expanded \subseteq DOMAIN l /\ panelsMeant \subseteq IdsIn(l)
      BY <3>2, <3>3 DEF PanelsFit, IdsIn
    <3>5. ASSUME NEW i \in DOMAIN l, i \notin DOMAIN draftFields
          PROVE  i \notin expanded /\ l[i].id \notin panelsMeant
      <4>1. \A j \in DOMAIN draftFields : draftFields[j].id # l[i].id
        BY <2>3, <3>3, <3>5 DEF ListGood, IdsDiffer
      <4> QED
        BY <3>2, <3>5, <4>1 DEF PanelsFit, IdsIn
    <3> QED
      BY <3>2, <3>3, <3>4, <3>5 DEF PanelsFit
  <2>7. PanelsInv'
    BY <2>1, <2>2, <2>6 DEF EditorInv, PanelsInv
  <2> QED
    BY <2>1, <2>4, <2>5, <2>7 DEF EditorInv
<1> QED
  BY <1>2, <1>3

LEMMA OtherEditsSound ==
  ASSUME EditorInv, OtherEdits
  PROVE  EditorInv'
<1>1. /\ born \in Nat /\ ListGood(schema.fields, born)
      /\ schema = [dropped |-> schema.dropped, fields |-> schema.fields,
                   columns |-> schema.columns]
  BY DEF EditorInv, ElsewhereFits
<1>2. UNCHANGED <<moul, asking, draftFields, expanded, panelsMeant, givenUp, displaced, puts>>
  BY DEF OtherEdits
<1>3. PICK c : c = born + 1
  OBVIOUS
<1>4. PICK f : f = NewField(c, [stem |-> "other", nr |-> born])
  OBVIOUS
<1>5. /\ born' \in {born, born + 1} /\ ListGood(schema'.fields, born')
      /\ schema' = [dropped |-> schema'.dropped, fields |-> schema'.fields,
                    columns |-> schema'.columns]
  <2>1. CASE /\ [stem |-> "other", nr |-> born] \notin NamesIn(schema.fields)
             /\ schema' = WithList(WithField(schema.fields, f)) /\ born' = c
    <3>1. PICK l : l = schema.fields
      OBVIOUS
    <3>2. FieldShape(f) /\ f.id = c /\ f.name \notin NamesIn(l) /\ DemandsAgree(f)
      BY <1>4, <2>1, <3>1 DEF NewField, FieldShape, DemandsAgree
    <3>3. PICK m : m = WithField(l, f)
      OBVIOUS
    <3>4. ListGood(m, c)
      BY <1>1, <1>3, <3>1, <3>2, <3>3, AppendedGood
    <3> QED
      BY <1>1, <1>3, <2>1, <3>1, <3>3, <3>4 DEF WithList
  <2>2. CASE (\E i \in DOMAIN schema.fields :
                schema' = WithList(ListWithout(schema.fields, i)))
             /\ born' = born
    <3>1. PICK l : l = schema.fields
      OBVIOUS
    <3>2. PICK i \in DOMAIN l : schema' = WithList(ListWithout(l, i))
      BY <2>2, <3>1
    <3>3. PICK m : m = ListWithout(l, i)
      OBVIOUS
    <3>4. ListGood(m, born)
      BY <1>1, <3>1, <3>2, <3>3, WithoutGood
    <3> QED
      BY <1>1, <2>2, <3>1, <3>2, <3>3, <3>4 DEF WithList
  <2> QED
    BY <1>3, <1>4, <2>1, <2>2 DEF OtherEdits, WithField
<1>6. \A l : ListGood(l, born) => ListGood(l, born')
  BY <1>1, <1>5, GoodLater
<1>7. ElsewhereFits'
  <2>1. \A p \in puts : PutFits(p, born')
    BY <1>6 DEF EditorInv, ElsewhereFits, PutFits
  <2> QED
    BY <1>2, <1>5, <1>6, <2>1 DEF EditorInv, ElsewhereFits
<1>8. DraftFits'
  BY <1>2, <1>6 DEF EditorInv, DraftFits
<1>9. PanelsInv'
  BY <1>2 DEF EditorInv, PanelsInv
<1>10. born' \in Nat
  BY <1>1, <1>5
<1> QED
  BY <1>7, <1>8, <1>9, <1>10 DEF EditorInv

LEMMA EditorStep ==
  EditorInv /\ [EditorNext]_editorVars => EditorInv'
<1> SUFFICES ASSUME EditorInv, [EditorNext]_editorVars PROVE EditorInv'
  OBVIOUS
<1>1. CASE UNCHANGED editorVars
  BY <1>1 DEF editorVars, editVars, EditorInv, ElsewhereFits, DraftFits, PanelsInv
<1>2. CASE AddField
  BY <1>2, AddFieldSound
<1>3. ASSUME NEW i, NEW j, MoveField(i, j) PROVE EditorInv'
  BY <1>3, MoveFieldSound
<1>4. ASSUME NEW i, RemoveField(i) PROVE EditorInv'
  BY <1>4, RemoveFieldSound
<1>5. ASSUME NEW i, Rename(i) PROVE EditorInv'
  BY <1>5, RenameSound
<1>6. ASSUME NEW i, ToggleExpand(i) PROVE EditorInv'
  BY <1>6, ToggleExpandSound
<1>7. ASSUME NEW i, AddOption(i) PROVE EditorInv'
  BY <1>7, AddOptionSound
<1>8. ASSUME NEW i, NEW t \in FieldKinds, ChangeType(i, t) PROVE EditorInv'
  BY <1>8, ChangeTypeSound
<1>9. ASSUME NEW i, NEW required \in BOOLEAN, NEW unique \in BOOLEAN,
             ChangeDemands(i, required, unique)
      PROVE  EditorInv'
  BY <1>9, ChangeDemandsSound
<1>10. ASSUME NEW i, NEW t, ChangeTarget(i, Targets[t]) PROVE EditorInv'
  BY <1>10, ChangeTargetSound
<1>11. ASSUME NEW i, NEW o, TypeOption(i, o) \/ RemoveOption(i, o) PROVE EditorInv'
  BY <1>11, TypeOptionSound, RemoveOptionSound
<1>12. CASE HandleSave
  BY <1>12, HandleSaveSound
<1>13. CASE AskDrop \/ DismissDrop \/ ConfirmDrop
  BY <1>13, DropSound
<1>14. ASSUME NEW p \in puts, CarryPut(p) PROVE EditorInv'
  BY <1>14, CarryPutSound
<1>15. ASSUME NEW p \in puts, PutFailed(p) \/ SchemaSaved(p) \/ CollectionDropped(p)
       PROVE  EditorInv'
  BY <1>15, PutEndedSound
<1>16. CASE LookAtSchema \/ SchemaUnread
  BY <1>16, AskedSound
<1>17. CASE GetMoul
  BY <1>17, GetMoulSound
<1>18. CASE SchemaRead
  BY <1>18, SchemaReadSound
<1>19. CASE OtherEdits
  BY <1>19, OtherEditsSound
<1> QED
  BY <1>1, <1>2, <1>3, <1>4, <1>5, <1>6, <1>7, <1>8, <1>9, <1>10, <1>11, <1>12, <1>13, <1>14,
     <1>15, <1>16, <1>17, <1>18, <1>19 DEF EditorNext

LEMMA EditedAsMeant ==
  ASSUME EditorInv
  PROVE  SchemaAsEdited
<1>1. DropsOnlyGivenUp
  BY DEF EditorInv, ElsewhereFits, PutFits, DropsOnlyGivenUp, ColumnsLost
<1>2. PanelsFollowFields
  BY DEF EditorInv, PanelsInv, PanelsFit, PanelsFollowFields
<1>3. DefaultNamesDiffer
  BY DEF EditorInv, DraftFits, ListGood, NamesDiffer, DefaultNamesDiffer
<1>4. UniqueIsRequired
  BY DEF EditorInv, DraftFits, ListGood, AllAgree, DemandsAgree, UniqueIsRequired
<1> QED
  BY <1>1, <1>2, <1>3, <1>4 DEF SchemaAsEdited

\* However long the fields of a schema are edited, moved, renamed, retyped,
\* saved and read again beside another administrator: of the columns that were read
\* a save drops only those whose name was given up in the editor, by a removal or by
\* a renaming; a panel stays with its field as long as no list is read that moves
\* one; names given by default differ; and a unique field is required and of a type
\* that can be unique.
THEOREM SchemaAlwaysAsEdited == EditorSpec => []SchemaAsEdited
<1>1. EditorInit => EditorInv
  BY EditorInitially
<1>2. EditorInv /\ [EditorNext]_editorVars => EditorInv'
  BY EditorStep
<1>3. EditorInv => SchemaAsEdited
  BY EditedAsMeant
<1> QED
  BY <1>1, <1>2, <1>3, PTL DEF EditorSpec

-----------------------------------------------------------------------------
(***************************************************************************)
(* The dashboard: a page that is mounted behaves as it does by itself, and *)
(* one that is not stays as it is, so that what is proved of each page     *)
(* holds of the dashboard.                                                 *)
(***************************************************************************)

LEMMA DashboardBegins ==
  ASSUME DashboardInit
  PROVE  /\ RecordsInit /\ TransferInit /\ SettingsInit /\ EditorInit /\ CollectionsInit
         /\ QueueInit /\ FlagsInit /\ StreamInit /\ AdminInit
BY DEF DashboardInit

LEMMA DashboardSteps ==
  ASSUME [DashboardNext]_dashboardVars
  PROVE  /\ [RecordsNext]_recordsVars /\ [TransferNext]_transferVars
         /\ [SettingsNext]_settingsVars /\ [EditorNext]_editorVars
         /\ [CollectionsNext]_collectionsVars /\ [QueueNext]_queueVars
         /\ [FlagsNext]_flagVars /\ [StreamNext]_streamVars /\ [AdminNext]_adminVars
<1>1. CASE UNCHANGED dashboardVars
  BY <1>1, Zenon DEF dashboardVars
<1>2. CASE Only("records") /\ RecordsNext
  BY <1>2 DEF Only
<1>3. CASE Only("forms") /\ FormNext
  BY <1>3 DEF Only
<1>4. CASE Only("transfer") /\ TransferNext
  BY <1>4 DEF Only
<1>5. CASE Only("settings") /\ SettingsNext
  BY <1>5 DEF Only
<1>6. CASE Only("schema") /\ EditorNext
  BY <1>6 DEF Only
<1>7. CASE Only("collections") /\ CollectionsNext
  BY <1>7 DEF Only
<1>8. CASE Only("workers") /\ QueueNext
  BY <1>8 DEF Only
<1>9. CASE Only("flags") /\ FlagsNext
  BY <1>9 DEF Only
<1>10. CASE Only("realtime") /\ StreamNext
  BY <1>10 DEF Only
<1>11. CASE Only("session") /\ AdminNext
  BY <1>11 DEF Only
<1> QED
  BY <1>1, <1>2, <1>3, <1>4, <1>5, <1>6, <1>7, <1>8, <1>9, <1>10, <1>11, Zenon
     DEF DashboardNext

\* While the forms are not mounted nothing is submitted in them.
FormsMounted == IF route = "forms" THEN FormInv ELSE verdict = "entered"

LEMMA FormsMountedKept ==
  ASSUME FormsMounted, [DashboardNext]_dashboardVars
  PROVE  FormsMounted'
<1>1. CASE UNCHANGED route /\ [FormNext]_formVars /\ route = "forms"
  BY <1>1, FormStep DEF FormsMounted
<1>2. CASE UNCHANGED route /\ UNCHANGED formVars /\ route # "forms"
  BY <1>2 DEF FormsMounted, formVars
<1>3. CASE UNCHANGED dashboardVars
  BY <1>1, <1>2, <1>3 DEF dashboardVars
<1>4. CASE Only("forms") /\ FormNext
  BY <1>1, <1>4 DEF Only
<1>5. ASSUME NEW r \in Routes, r # "forms", Only(r) PROVE FormsMounted'
  BY <1>2, <1>5, Zenon DEF Only
<1> QED
  BY <1>3, <1>4, <1>5 DEF DashboardNext, Routes

LEMMA FormsMountedHolds == DashboardSpec => []FormsMounted
<1>1. DashboardInit => FormsMounted
  BY DEF DashboardInit, FormsMounted, FormInit, FormInv
<1> QED
  BY <1>1, FormsMountedKept, PTL DEF DashboardSpec

LEMMA EachPage ==
  DashboardSpec =>
    /\ RecordsSpec /\ TransferSpec /\ SettingsSpec /\ EditorSpec /\ CollectionsSpec
    /\ QueueSpec /\ FlagsSpec /\ StreamSpec /\ AdminSessionSpec
BY DashboardBegins, DashboardSteps, PTL
   DEF DashboardSpec, RecordsSpec, TransferSpec, SettingsSpec, EditorSpec, CollectionsSpec,
       QueueSpec, FlagsSpec, StreamSpec, AdminSessionSpec

\* Whichever page is mounted, everything proved of the pages holds of the dashboard.
THEOREM DashboardAlwaysSound ==
  DashboardSpec =>
    [](/\ DrawerSound /\ OwnWritesShown /\ FormsAgree /\ TransfersAsShown
       /\ SavesWhatWasShown /\ SchemaAsEdited /\ CreatedAsChosen /\ OrdersGoHome
       /\ FlagsAsDone /\ LogShowsStream /\ SessionAgrees)
<1>1. FormsMounted => FormsAgree
  BY FormsJudged DEF FormsMounted
<1>2. DashboardSpec => []FormsAgree
  BY <1>1, FormsMountedHolds, PTL
<1> QED
  BY <1>2, EachPage, DrawerAlwaysSound, OwnWritesAlwaysShown, TransfersAlwaysAsShown,
     AlwaysSavesWhatWasShown, SchemaAlwaysAsEdited, AlwaysCreatedAsChosen, OrdersAlwaysGoHome,
     FlagsAlwaysAsDone, LogAlwaysShowsStream, SessionAlwaysAgrees, PTL

\* On whichever page, a batch is reported gone only when it is, and a drawer of the
\* settings keeps its edits.
THEOREM DashboardLosesNothing == DashboardSpec => BatchAllGone /\ DraftsKept
BY EachPage, BatchAlwaysAllGone, DraftsAlwaysKept, PTL

=============================================================================
