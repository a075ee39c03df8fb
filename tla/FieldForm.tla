------------------------------ MODULE FieldForm ------------------------------
(***************************************************************************)
(* What the dashboard's forms refuse by themselves (utils/fieldValidation) *)
(* beside what the server refuses (internal/handlers: records.go, moul.go, *)
(* auth/validation.go): values of fields, credentials and schemas.  The    *)
(* two are written twice, in two languages, and the properties say where   *)
(* they agree.  An entry is submitted once: the form judges it, cleans it  *)
(* and sends it, and the server answers.                                   *)
(*                                                                         *)
(* A text is how many characters it has, with and without the blanks       *)
(* around it, and the formats it satisfies; names likewise.  The caller is *)
(* the root user, whom no rule refuses, and the files of a file field are  *)
(* uploads of RecordsPage.                                                 *)
(***************************************************************************)
EXTENDS Integers, FiniteSets, Sequences

CONSTANTS
  EnteredFields,      \* definitions of fields a value is entered for
  FormatSets,  \* the sets of formats a text may satisfy
  MaxChars,    \* bound on the length of texts, on numbers and on lists
  Passwords,   \* passwords, as lengths and whether of mixed characters
  Schemas,     \* lists of field definitions
  NameKey,     \* a name in lower case, without blanks around it
  Camel        \* the names that are camelCase

\* looseEmail, goUrl and goDatetime are what the server's parsers take; date,
\* number and json are the same for both.  local is what a datetime-local input
\* gives.  The last four are of JSON texts: they parse to null, to an empty
\* string, to one that is not JSON itself, and to one that is.
Formats == {"email", "looseEmail", "url", "goUrl", "date", "datetime", "goDatetime",
            "local", "json", "number", "option", "toNull", "toEmpty", "toText", "toJson"}

FieldTypes == {"text", "number", "bool", "email", "url", "date", "datetime", "file",
               "json", "editor", "select", "relation", "cloak"}
NoBound == -1
Definitions == [name : DOMAIN NameKey, type : FieldTypes, required : BOOLEAN,
                unique : BOOLEAN, min : Int, max : Int, options : Nat,
                target : {"none", "1:1", "1:N", "M:N"}]

ASSUME FieldFormAssumption ==
  /\ EnteredFields \subseteq Definitions
  /\ \A f \in FormatSets : f \subseteq Formats
  /\ \A f \in FormatSets : /\ "email" \in f => "looseEmail" \in f
                           /\ "goUrl" \in f => "url" \in f
                           /\ "goDatetime" \in f \/ "local" \in f => "datetime" \in f
                           /\ \A g, h \in f \cap {"toNull", "toEmpty", "toText", "toJson"} : g = h
  /\ MaxChars \in Nat
  /\ \A w \in Passwords : w.length \in Nat /\ w.bytes \in Nat /\ w.length <= w.bytes
  /\ \A s \in Schemas : s \in Seq(Definitions)
  /\ Camel \subseteq DOMAIN NameKey

NoEntry == [shape |-> "nothing"]
Texts == {[shape |-> "text", chars |-> c, trimmed |-> t, is |-> f] :
            c \in 0..MaxChars, t \in 0..MaxChars, f \in FormatSets}
\* A blank text has no format; the number of a text is its trimmed length.
PossibleTexts == {t \in Texts : t.trimmed <= t.chars /\ (t.trimmed = 0 => t.is = {})}
NumberEntries == {[shape |-> "number", size |-> n] : n \in 0..MaxChars}
ListEntries == {[shape |-> "list", size |-> n] : n \in 0..1}
ObjectEntries == {[shape |-> "object", size |-> n] : n \in 0..1}
BooleanEntries == {[shape |-> "bool", size |-> n] : n \in 0..1}

\* The values an input of the form can hold; a json field holds what its text
\* parses to, as soon as it does, which may be a text again.
Enterable(field) ==
  {NoEntry} \cup
  (CASE field.type = "number" -> NumberEntries
     [] field.type = "bool" -> BooleanEntries
     [] field.type = "file" -> {[shape |-> "object", size |-> 1]}
     [] field.type = "json" -> ObjectEntries \cup PossibleTexts
     [] field.type = "relation" /\ field.target = "M:N" -> ListEntries
     [] field.type = "relation" -> {t \in PossibleTexts : t.trimmed = t.chars}
     [] OTHER -> PossibleTexts)

\* What may stand in the way of a value beside itself: no key to encrypt with, a
\* record that refers to one which is gone, another record with the same value.
Obstacles(field) ==
  {"none"} \cup {o \in {"no key", "gone", "taken"} :
     CASE o = "no key" -> field.type = "cloak"
       [] o = "gone" -> field.type = "relation"
       [] o = "taken" -> field.unique \/ (field.type = "relation" /\ field.target = "1:1")}

VARIABLES
  entry,    \* what is entered, and where
  verdict   \* "entered", then "refused by the form", "refused" or "stored"

formVars == <<entry, verdict>>

-----------------------------------------------------------------------------
(* Values.                                                                    *)

IsBlank(val) == val = NoEntry \/ (val.shape = "text" /\ val.trimmed = 0)
Below(field, n) == field.min # NoBound /\ n < field.min
Above(field, n) == field.max # NoBound /\ n > field.max
Is(val, format) == val.shape = "text" /\ format \in val.is
NumberOf(val) == IF val.shape = "text" THEN val.trimmed ELSE val.size

Lacking(field, val) ==
  /\ field.required
  /\ \/ IsBlank(val)
     \/ val.shape = "list" /\ val.size = 0
     \/ val.shape = "object" /\ val.size = 0 /\ field.type = "file"

Malformed(field, val) ==
  CASE field.type = "number" ->
         \/ val.shape = "text" /\ "number" \notin val.is
         \/ Below(field, NumberOf(val)) \/ Above(field, NumberOf(val))
    [] field.type \in {"text", "editor"} ->
         val.shape = "text" /\ (Below(field, val.chars) \/ Above(field, val.chars))
    [] field.type \in {"email", "url", "date", "datetime", "json"} ->
         val.shape = "text" /\ field.type \notin val.is
    [] field.type = "select" -> field.options > 0 /\ ~Is(val, "option")
    [] OTHER -> FALSE

FormRefuses(field, val) ==
  Lacking(field, val) \/ (~IsBlank(val) /\ Malformed(field, val))

\* Mutant: a datetime-local value is sent as the input gives it.
CleanedAsEntered(field, val) ==
  IF field.type = "number" /\ IsBlank(val) THEN NoEntry
  ELSE IF val.shape # "text" THEN val ELSE [val EXCEPT !.chars = val.trimmed]

\* A JSON text as the value it stands for.
Parsed(val) ==
  CASE Is(val, "toNull") -> NoEntry
    [] Is(val, "toEmpty") -> [val EXCEPT !.chars = 0, !.trimmed = 0, !.is = {}]
    [] Is(val, "toText") -> [val EXCEPT !.is = {}]
    [] Is(val, "toJson") -> [val EXCEPT !.is = {"json"}]
    [] OTHER -> [shape |-> "object", size |-> 1]

\* A text without the blanks around it.  The formats are those of the trimmed
\* text already, but for an option, which is one as it stands.
Trimmed(val) ==
  [val EXCEPT !.chars = val.trimmed,
              !.is = IF val.trimmed < val.chars THEN @ \ {"option"} ELSE @]

\* What is sent: numbers as numbers, JSON texts as what they parse to, a local time
\* with its seconds and zone, other texts without the blanks around them; blank
\* times and JSON texts as they are.
Cleaned(field, val) ==
  CASE field.type = "number" ->
         IF IsBlank(val) THEN NoEntry ELSE [shape |-> "number", size |-> NumberOf(val)]
    [] field.type # "number" /\ val.shape # "text" -> val
    [] field.type = "json" /\ val.shape = "text" -> IF Is(val, "json") THEN Parsed(val) ELSE val
    [] field.type = "datetime" /\ val.shape = "text" ->
         IF IsBlank(val) THEN val
         ELSE [Trimmed(val) EXCEPT !.is = IF "local" \in @ THEN (@ \cup {"goDatetime"}) \ {"local"}
                                          ELSE @]
    [] OTHER -> Trimmed(val)

\* What validateFieldConstraints refuses.
BreaksConstraints(field, val) ==
  \/ field.required /\ IsBlank(val)
  \/ /\ val # NoEntry
     /\ CASE field.type = "number" ->
               val.shape # "number" \/ Below(field, val.size) \/ Above(field, val.size)
          [] field.type = "text" ->
               val.shape = "text" /\ (Below(field, val.chars) \/ Above(field, val.chars))
          [] field.type = "bool" -> val.shape \notin {"bool", "number"}
          [] field.type = "date" ->
               val.shape # "text" \/ (val.chars > 0 /\ "date" \notin val.is)
          [] field.type = "datetime" ->
               val.shape # "text" \/ (val.chars > 0 /\ "goDatetime" \notin val.is)
          [] field.type = "url" ->
               val.shape # "text" \/ (val.chars > 0 /\ "goUrl" \notin val.is)
          [] field.type = "email" ->
               val.shape # "text" \/ (val.chars > 0 /\ "looseEmail" \notin val.is)
          [] field.type = "json" ->
               val.shape = "text" /\ val.chars > 0 /\ "json" \notin val.is
          [] field.type = "select" ->
               /\ field.options > 0
               /\ val.shape # "text" \/ (val.chars > 0 /\ "option" \notin val.is)
          [] OTHER -> FALSE

\* Nothing to convert: null or the empty text.
IsEmpty(val) == val = NoEntry \/ (val.shape = "text" /\ val.chars = 0)

\* What the handlers refuse of a value within its constraints, where they convert
\* it for its column and look for the records it refers to, or where the table
\* does.  The numbers that reach canonicalNumber from here are finite ones.
BreaksConversion(field, val, obstacle) ==
  \/ field.unique /\ val # NoEntry /\ obstacle = "taken"
  \/ /\ ~IsEmpty(val)
     /\ CASE field.type = "select" -> field.options = 0 \/ val.shape # "text"
          [] field.type = "cloak" -> obstacle = "no key"
          [] field.type = "file" -> val.shape # "object" \/ val.size = 0
          [] field.type = "relation" ->
               \/ field.target = "none"
               \/ field.target = "M:N" /\ val.shape \notin {"list", "text"}
               \/ field.target \in {"1:1", "1:N"} /\ val.shape # "text"
               \/ obstacle = "gone" /\ (val.shape = "text" \/ val.size > 0)
               \/ obstacle = "taken" /\ field.target = "1:1"
          [] OTHER -> FALSE

ServerRefuses(field, val, obstacle) ==
  BreaksConstraints(field, val) \/ BreaksConversion(field, val, obstacle)

-----------------------------------------------------------------------------
(* Credentials of an auth record: username and email by their length and      *)
(* format, and two passwords.  The form counts characters, the server bytes,  *)
(* and bcrypt takes no more than BcryptLimit of them.                         *)

BcryptLimit == 72
NoPassword == [length |-> 0, bytes |-> 0, mixed |-> FALSE]
Credentials == [username : 0..3, email : {"none", "odd", "email"},
                password : Passwords \cup {NoPassword},
                confirm : Passwords \cup {NoPassword}, create : BOOLEAN, taken : BOOLEAN]

CredentialErrors(c) ==
  {e \in {"username", "email", "password", "passwordConfirm"} :
     CASE e = "username" -> IF c.username = 0 THEN c.create ELSE c.username < 3
       [] e = "email" -> IF c.email = "none" THEN c.create ELSE c.email = "odd"
       [] e = "password" -> (c.create \/ c.password # NoPassword) /\ c.password.length < 8
       [] e = "passwordConfirm" ->
            IF c.create THEN c.confirm = NoPassword \/ c.confirm # c.password
            ELSE c.password # NoPassword /\ c.confirm # NoPassword
                   /\ c.confirm # c.password}

ServerRefusesCredentials(c) ==
  \/ c.create /\ (c.username = 0 \/ c.email = "none")
  \/ /\ c.password # NoPassword \/ (c.create /\ c.confirm # NoPassword)
     /\ \/ c.password # c.confirm
        \/ c.password.bytes < 8 \/ ~c.password.mixed \/ c.password.bytes > BcryptLimit
  \/ c.taken /\ (c.username # 0 \/ c.email # "none")

-----------------------------------------------------------------------------
(* Schemas.                                                                   *)

Reserved == {"id", "createdat", "updatedat"}
ReservedHere == Reserved \cup {"created_at", "updated_at"}
ReservedInAuth == {"username", "email", "passwordhash", "password"}
Unnamed(f) == NameKey[f.name] = ""
UniqueTypes == {"text", "number", "date", "datetime", "url", "email"}

BadField(s, i, type) ==
  LET f == s[i] IN
  \/ Unnamed(f)
  \/ NameKey[f.name] \in ReservedHere \cup (IF type = "auth" THEN ReservedInAuth ELSE {})
  \/ f.name \notin Camel
  \/ \E j \in 1..(i - 1) : NameKey[s[j].name] = NameKey[f.name]
  \/ f.min # NoBound /\ f.max # NoBound /\ f.min > f.max
  \/ f.type = "select" /\ f.options = 0
  \/ f.type = "relation" /\ f.target = "none"
  \/ f.unique /\ f.type \notin UniqueTypes

BadFields(s, type) == {i \in DOMAIN s : BadField(s, i, type)}

ServerRefusesSchema(s, type, cloak) ==
  \E i \in DOMAIN s :
    LET f == s[i] IN
    \/ Unnamed(f) \/ f.name \notin Camel
    \/ \E j \in 1..(i - 1) : NameKey[s[j].name] = NameKey[f.name]
    \/ NameKey[f.name] \in Reserved \cup (IF type = "auth" THEN ReservedInAuth ELSE {})
    \/ f.type = "editor"
    \/ f.type = "cloak" /\ ~cloak
    \/ f.type = "select" /\ f.options = 0
    \/ f.type = "relation" /\ f.target = "none"
    \/ f.unique /\ f.type \notin UniqueTypes

-----------------------------------------------------------------------------

FormEntries ==
  (UNION {[field : {f}, val : Enterable(f), obstacle : Obstacles(f)] : f \in EnteredFields})
    \cup [credentials : Credentials]
    \cup [schema : Schemas, type : {"base", "auth"}, cloak : BOOLEAN]

IsValue == "field" \in DOMAIN entry
IsCredentials == "credentials" \in DOMAIN entry

FormInit == entry \in FormEntries /\ verdict = "entered"

RefusedByForm ==
  CASE IsValue -> FormRefuses(entry.field, entry.val)
    [] IsCredentials -> CredentialErrors(entry.credentials) # {}
    [] OTHER -> BadFields(entry.schema, entry.type) # {}

RefusedByServer ==
  CASE IsValue -> ServerRefuses(entry.field, Cleaned(entry.field, entry.val), entry.obstacle)
    [] IsCredentials -> ServerRefusesCredentials(entry.credentials)
    [] OTHER -> ServerRefusesSchema(entry.schema, entry.type, entry.cloak)

Submit ==
  /\ verdict = "entered"
  /\ verdict' = CASE RefusedByForm -> "refused by the form"
                  [] ~RefusedByForm /\ RefusedByServer -> "refused"
                  [] OTHER -> "stored"
  /\ UNCHANGED entry

FormNext == Submit
FormSpec == FormInit /\ [][FormNext]_formVars

-----------------------------------------------------------------------------
(* Properties.                                                                *)

\* A value the form takes and cleans is stored, with these exceptions: a text
\* that loses its minimum with the blanks around it (the blank one above all), a
\* blank text under a negative maximum, which a number field that became a text one
\* may have kept, a time of nothing but blanks, a JSON text that is blank or stands
\* for a string that is not JSON, or for nothing where something is required, a URL or
\* a time that only the browser's parsers understand, an option that is one only with
\* the blanks around it, any choice where there are no options, and what the form
\* cannot see: a missing key, a record that is gone, a value that is taken.
ValuesAgree ==
  IsValue /\ verdict = "refused" =>
    LET f == entry.field  v == entry.val IN
    \/ f.type = "text" /\ Below(f, v.trimmed) /\ (v.trimmed < v.chars \/ v.trimmed = 0)
    \/ f.type = "text" /\ Above(f, 0) /\ v.trimmed = 0
    \/ f.type \in {"json", "datetime"} /\ v.trimmed = 0 /\ v.chars > 0
    \/ f.type = "json" /\ "toText" \in v.is
    \/ f.type = "json" /\ f.required /\ v.is \cap {"toNull", "toEmpty"} # {}
    \/ f.type = "url" /\ "goUrl" \notin v.is
    \/ f.type = "datetime" /\ v.is \cap {"goDatetime", "local"} = {}
    \/ f.type = "select" /\ (f.options = 0 \/ v.trimmed < v.chars)
    \/ f.type = "relation" /\ f.target = "none"
    \/ entry.obstacle # "none"

\* A text entered within its limits, without blanks around it and with nothing in its
\* way, is stored, and one beyond them is not: the limits mean the same in both
\* languages.
LimitsAgree ==
  IsValue /\ verdict # "entered" =>
    LET f == entry.field  v == entry.val IN
    /\ f.type = "text" /\ v.shape = "text" /\ v.chars = v.trimmed /\ v.chars > 0
    /\ entry.obstacle = "none"
    => (verdict = "stored" <=> ~Below(f, v.chars) /\ ~Above(f, v.chars))

\* Credentials the form takes are refused only for a password without an upper
\* case letter, a lower case one and a digit, for one too long for bcrypt, for a
\* username or an email that is taken or, when a record is changed, for a password
\* that is not repeated.
CredentialsAgree ==
  IsCredentials /\ verdict = "refused" =>
    \/ ~entry.credentials.password.mixed
    \/ entry.credentials.password.bytes > BcryptLimit
    \/ entry.credentials.taken
    \/ ~entry.credentials.create /\ entry.credentials.confirm = NoPassword

\* A schema the editor takes is refused only for a rich text field, which the
\* editor offers and the server does not know, or an encrypted one while no key
\* is configured.
SchemasAgree ==
  "schema" \in DOMAIN entry /\ verdict = "refused" =>
    \E i \in DOMAIN entry.schema :
      \/ entry.schema[i].type = "editor"
      \/ entry.schema[i].type = "cloak" /\ ~entry.cloak

\* What the forms take, the server takes, with the exceptions named above.
FormsAgree == ValuesAgree /\ LimitsAgree /\ CredentialsAgree /\ SchemasAgree

=============================================================================
