------------------------------ MODULE SettingsPage ------------------------------
(***************************************************************************)
(* The settings page of the dashboard (ui routes/_auth/settings.tsx): tabs *)
(* that show the settings last read, one drawer for the form of a section, *)
(* of a rate limit rule, of the account or of the password, two dialogs,   *)
(* and the requests in flight, of one administrator beside another.        *)
(*                                                                         *)
(* The forms are kept while the page is open; the rules are one setting, a *)
(* list that is read, changed and written as a whole.                      *)
(***************************************************************************)
EXTENDS Integers, FiniteSets, Sequences

CONSTANTS
  DrawersUsed,     \* the drawers that are opened
  KeysEdited,      \* the keys that are typed in
  Rules,           \* the rules that may exist
  FirstRules,      \* the list of those that exist at first
  SettingsBudgets  \* bounds on the steps of each sort, one of which is chosen

S3Keys == {"file_s3_enabled", "file_s3_bucket", "file_s3_endpoint", "file_s3_region",
           "file_s3_access_key", "file_s3_secret_key", "file_s3_force_path_style"}
LitestreamKeys ==
  {"litestream_enabled", "litestream_s3_bucket", "litestream_s3_endpoint",
   "litestream_s3_region", "litestream_access_key_id", "litestream_secret_access_key",
   "litestream_s3_force_path_style", "litestream_replica_path"}
RootIPsKeys == {"root_user_ip_enabled", "root_user_allowed_ips"}
EmailKeys == {"email_provider", "email_enabled", "email_from_address", "email_from_name",
              "email_api_key", "email_api_secret", "email_domain", "email_region",
              "email_endpoint"}
OAuthKeys ==
  [global |-> {"oauth_redirect_url"},
   github |-> {"oauth_github_enabled", "oauth_github_client_id",
               "oauth_github_client_secret"},
   google |-> {"oauth_google_enabled", "oauth_google_client_id",
               "oauth_google_client_secret"},
   apple |-> {"oauth_apple_enabled", "oauth_apple_client_id", "oauth_apple_client_secret",
              "oauth_apple_team_id", "oauth_apple_key_id", "oauth_apple_private_key"}]
AccountKeys == {"username", "name", "email"}
PasswordKeys == {"currentPassword", "newPassword", "passwordConfirm"}

\* What both f and g are defined for is f's.
Joined(f, g) == [x \in DOMAIN f \cup DOMAIN g |-> IF x \in DOMAIN f THEN f[x] ELSE g[x]]

SettingsKeys ==
  Joined([s3 |-> S3Keys, litestream |-> LitestreamKeys, rootips |-> RootIPsKeys,
          email |-> EmailKeys], OAuthKeys)
FormKeys == Joined(SettingsKeys, [account |-> AccountKeys, password |-> PasswordKeys])

\* The drawers that the buttons of each tab open.
StorageDrawers == [s3 |-> {"s3"}, litestream |-> {"litestream"}]
SecurityDrawers == [rootips |-> {"rootips"}, email |-> {"email"}]
OAuthDrawers == [oauth |-> {"global", "github", "google", "apple"}]
AccountDrawers == [account |-> {"account", "password"}]
RateLimitDrawers == [ratelimit |-> {"ratelimit-add", "ratelimit-edit"}]
DrawersOf == Joined(StorageDrawers, Joined(SecurityDrawers, Joined(OAuthDrawers,
               Joined(AccountDrawers, RateLimitDrawers))))

Inputs == {"mine", "theirs"}
KeyValues == {"", "false", "console"} \cup Inputs
SettingKeys == UNION {SettingsKeys[m] : m \in DOMAIN SettingsKeys}

\* A rule by what is told apart: which it is, and what was typed in it.  A null
\* in the list is what an assignment past its end leaves.
NewRule == 0
Hole == [rule |-> -1, text |-> ""]
RuleValues == [rule : Rules \cup {NewRule}, text : {"", "mine", "stored"}]
Stored(r) == [rule |-> r, text |-> "stored"]

ASSUME SettingsAssumption ==
  /\ DrawersUsed \subseteq UNION {DrawersOf[t] : t \in DOMAIN DrawersOf}
  /\ Rules \subseteq Nat \ {0}
  /\ FirstRules \in Seq(Rules)
  /\ SettingsBudgets \subseteq
       [{"opens", "edits", "requests", "looks", "others", "faults"} -> Nat]

VARIABLES
  tab,        \* selectedTab
  engine,     \* the settings on the server: keys, rules, throttle
  known,      \* settingsData, the answer of the settings query
  reading,    \* the settings query, while it is under way
  sheet,      \* drawerMode, initialSnapshot, editingRuleIndex
  drafts,     \* the forms, each kept from one opening to the next
  ruleDraft,  \* rateLimitForm
  doubting,   \* showDiscardDialog
  doomed,     \* ruleToDelete
  saves,      \* requests in flight
  unspent     \* what is left of the bounds

settingsVars == <<tab, engine, known, reading, sheet, drafts, ruleDraft, doubting,
                  doomed, saves, unspent>>

NoData == [unread |-> TRUE]
NotReading == [idle |-> TRUE]
Asked == [asked |-> TRUE]
NoSheet == [mode |-> "none"]
NoIndex == 0
NoRule == [index |-> NoIndex]
NoSnapshot == [none |-> TRUE]

Pay(what) == unspent[what] > 0 /\ unspent' = [unspent EXCEPT ![what] = @ - 1]

-----------------------------------------------------------------------------
(* The drawer.  at, typed, rule and shifted are history: what was known when  *)
(* it was opened, the keys typed in since, the rule it was opened for, that   *)
(* the list of rules was read again with other rules.                         *)

DefaultOf(k) == IF k = "email_provider" THEN "console"
                ELSE IF k \in {"file_s3_enabled", "file_s3_force_path_style",
                               "litestream_enabled", "litestream_s3_force_path_style",
                               "root_user_ip_enabled", "email_enabled",
                               "oauth_github_enabled", "oauth_google_enabled",
                               "oauth_apple_enabled"} THEN "false" ELSE ""

Filled(m, values) == [k \in FormKeys[m] |-> IF values[k] = "" THEN DefaultOf(k) ELSE values[k]]
BlankForm(m) == [k \in FormKeys[m] |-> DefaultOf(k)]
BlankRule == [rule |-> NewRule, text |-> ""]

Known == known # NoData
RulesShown == IF Known THEN known.rules ELSE <<>>
NewSheet(m) == [mode |-> m, at |-> known, snapshot |-> NoSnapshot, index |-> NoIndex, typed |-> {},
                shifted |-> FALSE, rule |-> NewRule]

\* A dialog covers the drawer, the drawer covers the tabs; a list with a null
\* in it cannot be rendered.
TabsReachable ==
  sheet = NoSheet /\ ~doubting /\ doomed = NoRule
    /\ (tab = "ratelimit" => \A i \in DOMAIN RulesShown : RulesShown[i] # Hole)
SheetReachable == sheet # NoSheet /\ ~doubting

SelectTab(t) ==
  /\ TabsReachable /\ t # tab
  /\ DrawersOf[t] \cap DrawersUsed # {}
  /\ tab' = t
  /\ UNCHANGED <<engine, known, reading, sheet, drafts, ruleDraft, doubting, doomed,
                 saves, unspent>>

\* Before the settings are known a drawer opens with the form as it is.  What is
\* known of the account is taken from the session until the query answers.
OpenSection(m) ==
  /\ TabsReachable
  /\ m \in DrawersOf[tab] \cap DrawersUsed \cap DOMAIN FormKeys
  /\ Pay("opens")
  /\ LET form == CASE m = "account" -> [k \in AccountKeys |-> "theirs"]
                   [] m = "password" -> BlankForm(m)
                   [] m \in DOMAIN SettingsKeys /\ Known -> Filled(m, known.keys)
                   [] OTHER -> drafts[m]
     IN /\ drafts' = [drafts EXCEPT ![m] = form]
        /\ sheet' = [NewSheet(m) EXCEPT !.snapshot =
                       IF m \in DOMAIN SettingsKeys /\ ~Known THEN NoSnapshot ELSE form]
  /\ UNCHANGED <<tab, engine, known, reading, ruleDraft, doubting, doomed, saves>>

\* Mutant: the index of the edited rule is not kept.
OpenRuleUnindexed(m, i) ==
  /\ TabsReachable
  /\ tab = "ratelimit" /\ m \in DrawersUsed
  /\ m = "ratelimit-add" => i = NoIndex
  /\ m = "ratelimit-edit" => i \in DOMAIN RulesShown
  /\ Pay("opens")
  /\ LET rule == IF i = NoIndex THEN BlankRule ELSE RulesShown[i] IN
     /\ ruleDraft' = IF Known THEN rule ELSE ruleDraft
     /\ sheet' = [NewSheet(m) EXCEPT !.snapshot = rule, !.rule = rule.rule]
  /\ UNCHANGED <<tab, engine, known, reading, drafts, doubting, doomed, saves>>

OpenRule(m, i) ==
  /\ TabsReachable
  /\ tab = "ratelimit" /\ m \in DrawersUsed
  /\ m = "ratelimit-add" => i = NoIndex
  /\ m = "ratelimit-edit" => i \in DOMAIN RulesShown
  /\ Pay("opens")
  /\ LET rule == IF i = NoIndex THEN BlankRule ELSE RulesShown[i] IN
     /\ ruleDraft' = IF Known THEN rule ELSE ruleDraft
     /\ sheet' = [NewSheet(m) EXCEPT !.snapshot = IF Known THEN rule ELSE NoSnapshot,
                                     !.index = i, !.rule = rule.rule]
  /\ UNCHANGED <<tab, engine, known, reading, drafts, doubting, doomed, saves>>

TypeKey(k, v) ==
  /\ SheetReachable
  /\ sheet.mode \in DOMAIN FormKeys /\ k \in FormKeys[sheet.mode]
  /\ Pay("edits")
  /\ drafts' = [drafts EXCEPT ![sheet.mode][k] = v]
  /\ sheet' = [sheet EXCEPT !.typed = @ \cup {k}]
  /\ UNCHANGED <<tab, engine, known, reading, ruleDraft, doubting, doomed, saves>>

TypeRule(v) ==
  /\ SheetReachable
  /\ sheet.mode \in {"ratelimit-add", "ratelimit-edit"}
  /\ Pay("edits")
  /\ ruleDraft' = [ruleDraft EXCEPT !.text = v]
  /\ UNCHANGED <<tab, engine, known, reading, sheet, drafts, doubting, doomed, saves>>

FormShown == IF sheet.mode \in DOMAIN FormKeys THEN drafts[sheet.mode] ELSE ruleDraft

\* Mutant: the switch has no case for the drawer that edits a rule.
IsDrawerDirtyInSections ==
  /\ sheet.mode # "ratelimit-edit"
  /\ sheet.snapshot # NoSnapshot /\ FormShown # sheet.snapshot

IsDrawerDirty == sheet.snapshot # NoSnapshot /\ FormShown # sheet.snapshot

RequestClose ==
  /\ SheetReachable
  /\ IF IsDrawerDirty THEN doubting' = TRUE /\ UNCHANGED sheet
                      ELSE sheet' = NoSheet /\ UNCHANGED doubting
  /\ UNCHANGED <<tab, engine, known, reading, drafts, ruleDraft, doomed, saves, unspent>>

KeepEditing ==
  /\ doubting /\ doubting' = FALSE
  /\ UNCHANGED <<tab, engine, known, reading, sheet, drafts, ruleDraft, doomed, saves,
                 unspent>>

DiscardChanges ==
  /\ doubting /\ doubting' = FALSE
  /\ sheet' = NoSheet
  /\ UNCHANGED <<tab, engine, known, reading, drafts, ruleDraft, doomed, saves, unspent>>

-----------------------------------------------------------------------------
(* Requests.  What is sent carries, as history, what it was made from.        *)

NoPatch == [k \in {} |-> ""]
Save(what) == [what |-> what, keys |-> NoPatch, rules |-> <<>>, throttle |-> FALSE,
               from |-> known, sheet |-> sheet, doomed |-> doomed, state |-> "sent",
               latest |-> TRUE]
MutationOf(s) == IF s.what \in {"account", "password"} THEN s.what ELSE "settings"
Send(s) ==
  saves' = {[t EXCEPT !.latest = t.latest /\ MutationOf(t) # MutationOf(s)] : t \in saves}
             \cup {s}
SavePending == \E s \in saves : s.latest

SaveSection ==
  /\ SheetReachable
  /\ sheet.mode \in DOMAIN SettingsKeys
  /\ ~SavePending
  /\ Pay("requests")
  /\ Send([Save("section") EXCEPT !.keys = drafts[sheet.mode]])
  /\ UNCHANGED <<tab, engine, known, reading, sheet, drafts, ruleDraft, doubting, doomed>>

\* Assigning past the end of a list leaves nulls before it.
Replaced(rules, i, r) ==
  [j \in 1..(IF i > Len(rules) THEN i ELSE Len(rules)) |->
     IF j = i THEN r ELSE IF j \in DOMAIN rules THEN rules[j] ELSE Hole]

SaveRule ==
  /\ SheetReachable
  /\ sheet.mode \in {"ratelimit-add", "ratelimit-edit"}
  /\ ~SavePending
  /\ ruleDraft.text # ""
  /\ Pay("requests")
  /\ Send(IF sheet.mode = "ratelimit-edit" /\ sheet.index # NoIndex
          THEN [Save("edit") EXCEPT !.rules = Replaced(RulesShown, sheet.index, ruleDraft)]
          ELSE [Save(IF sheet.mode = "ratelimit-edit" THEN "edit" ELSE "add") EXCEPT
                  !.rules = Append(RulesShown, ruleDraft)])
  /\ UNCHANGED <<tab, engine, known, reading, sheet, drafts, ruleDraft, doubting, doomed>>

SaveAccount ==
  /\ SheetReachable
  /\ sheet.mode = "account"
  /\ ~SavePending
  /\ drafts["account"]["username"] # ""
  /\ Pay("requests")
  /\ Send([Save("account") EXCEPT !.keys = drafts["account"]])
  /\ UNCHANGED <<tab, engine, known, reading, sheet, drafts, ruleDraft, doubting, doomed>>

SavePassword ==
  /\ SheetReachable
  /\ sheet.mode = "password"
  /\ ~SavePending
  /\ \A k \in {"currentPassword", "newPassword"} : drafts["password"][k] # ""
  /\ drafts["password"]["newPassword"] = drafts["password"]["passwordConfirm"]
  /\ Pay("requests")
  /\ Send([Save("password") EXCEPT !.keys = drafts["password"]])
  /\ UNCHANGED <<tab, engine, known, reading, sheet, drafts, ruleDraft, doubting, doomed>>

\* The switch of the tab, also while a request is under way.
ToggleRateLimiting ==
  /\ TabsReachable /\ tab = "ratelimit"
  /\ Pay("requests")
  /\ Send([Save("toggle") EXCEPT !.throttle = ~(Known /\ known.throttle)])
  /\ UNCHANGED <<tab, engine, known, reading, sheet, drafts, ruleDraft, doubting, doomed>>

HandleDeleteRule(i) ==
  /\ TabsReachable /\ tab = "ratelimit"
  /\ i \in DOMAIN RulesShown
  /\ doomed' = [index |-> i, rule |-> RulesShown[i].rule, shifted |-> FALSE]
  /\ UNCHANGED <<tab, engine, known, reading, sheet, drafts, ruleDraft, doubting, saves,
                 unspent>>

CancelDeleteRule ==
  /\ doomed # NoRule /\ doomed' = NoRule
  /\ UNCHANGED <<tab, engine, known, reading, sheet, drafts, ruleDraft, doubting, saves,
                 unspent>>

Without(rules, i) ==
  [j \in 1..(Len(rules) - (IF i \in DOMAIN rules THEN 1 ELSE 0)) |->
     IF j < i THEN rules[j] ELSE rules[j + 1]]

\* Not disabled by a request under way.
ConfirmDeleteRule ==
  /\ doomed # NoRule
  /\ Pay("requests")
  /\ Send([Save("delete") EXCEPT !.rules = Without(RulesShown, doomed.index)])
  /\ doomed' = NoRule
  /\ UNCHANGED <<tab, engine, known, reading, sheet, drafts, ruleDraft, doubting>>

-----------------------------------------------------------------------------
(* The server, the answers and the query.                                     *)

\* A new rule is known by an id of its own once it is stored.
Born(rules) ==
  LET new == CHOOSE r \in Rules : \A i \in DOMAIN engine.rules : engine.rules[i].rule # r
  IN [i \in DOMAIN rules |->
        IF rules[i].rule = NewRule THEN [rules[i] EXCEPT !.rule = new] ELSE rules[i]]

UpdateSettings(s) ==
  /\ s.state = "sent"
  /\ engine' = CASE s.what = "section" -> [engine EXCEPT !.keys = Joined(s.keys, @)]
                 [] s.what \in {"add", "edit", "delete"} ->
                      [engine EXCEPT !.rules = Born(s.rules)]
                 [] s.what = "toggle" -> [engine EXCEPT !.throttle = s.throttle]
                 [] OTHER -> engine
  /\ saves' = (saves \ {s}) \cup {[s EXCEPT !.state = "done"]}
  /\ UNCHANGED <<tab, known, reading, sheet, drafts, ruleDraft, doubting, doomed, unspent>>

\* A request is refused, or it or its answer is lost.
RefuseSettings(s) ==
  /\ Pay("faults")
  /\ saves' = saves \ {s}
  /\ UNCHANGED <<tab, engine, known, reading, sheet, drafts, ruleDraft, doubting, doomed>>

\* Whichever drawer is open by then is closed.
Saved(s) ==
  /\ s.state = "done"
  /\ saves' = saves \ {s}
  /\ sheet' = NoSheet
  /\ reading' = IF s.what \in {"account", "password"} THEN reading ELSE Asked
  /\ drafts' = IF s.what = "password"
               THEN [drafts EXCEPT !["password"] = BlankForm("password")] ELSE drafts
  /\ UNCHANGED <<tab, engine, known, ruleDraft, doubting, doomed, unspent>>

\* The query is asked again when the page is looked at after a while.
LookAgain ==
  /\ reading = NotReading
  /\ Pay("looks")
  /\ reading' = Asked
  /\ UNCHANGED <<tab, engine, known, sheet, drafts, ruleDraft, doubting, doomed, saves>>

GetSettings ==
  /\ reading = Asked
  /\ reading' = engine
  /\ UNCHANGED <<tab, engine, known, sheet, drafts, ruleDraft, doubting, doomed, saves,
                 unspent>>

Moved == Known /\ reading.rules # known.rules
SettingsRead ==
  /\ reading \notin {NotReading, Asked}
  /\ known' = reading
  /\ reading' = NotReading
  /\ sheet' = IF sheet = NoSheet THEN sheet ELSE [sheet EXCEPT !.shifted = @ \/ Moved]
  /\ doomed' = IF doomed = NoRule THEN doomed ELSE [doomed EXCEPT !.shifted = @ \/ Moved]
  /\ UNCHANGED <<tab, engine, drafts, ruleDraft, doubting, saves, unspent>>

\* The other administrator.
OtherSaves ==
  /\ Pay("others")
  /\ \/ \E k \in KeysEdited \cap SettingKeys : engine' = [engine EXCEPT !.keys[k] = "theirs"]
     \/ \E i \in DOMAIN engine.rules :
          engine' = [engine EXCEPT !.rules = Without(engine.rules, i)]
  /\ UNCHANGED <<tab, known, reading, sheet, drafts, ruleDraft, doubting, doomed, saves>>

-----------------------------------------------------------------------------

SettingsInit ==
  /\ engine = [keys |-> [k \in SettingKeys |-> ""], throttle |-> FALSE,
               rules |-> [i \in DOMAIN FirstRules |-> Stored(FirstRules[i])]]
  /\ tab = CHOOSE t \in DOMAIN DrawersOf : DrawersOf[t] \cap DrawersUsed # {}
  /\ known = NoData
  /\ reading = Asked
  /\ sheet = NoSheet
  /\ drafts = [m \in DOMAIN FormKeys |-> BlankForm(m)]
  /\ ruleDraft = BlankRule
  /\ doubting = FALSE
  /\ doomed = NoRule
  /\ saves = {}
  /\ unspent \in SettingsBudgets

SettingsNext ==
  \/ \E t \in DOMAIN DrawersOf : SelectTab(t)
  \/ \E m \in DOMAIN FormKeys : OpenSection(m)
  \/ \E m \in {"ratelimit-add", "ratelimit-edit"}, i \in 0..Len(RulesShown) : OpenRule(m, i)
  \/ \E k \in KeysEdited, v \in {"", "mine"} : TypeKey(k, v)
  \/ \E v \in {"", "mine"} : TypeRule(v)
  \/ RequestClose \/ KeepEditing \/ DiscardChanges
  \/ SaveSection \/ SaveRule \/ SaveAccount \/ SavePassword \/ ToggleRateLimiting
  \/ \E i \in DOMAIN RulesShown : HandleDeleteRule(i)
  \/ CancelDeleteRule \/ ConfirmDeleteRule
  \/ \E s \in saves : UpdateSettings(s) \/ RefuseSettings(s) \/ Saved(s)
  \/ LookAgain \/ GetSettings \/ SettingsRead \/ OtherSaves

SettingsSpec == SettingsInit /\ [][SettingsNext]_settingsVars

-----------------------------------------------------------------------------
(* Properties.                                                                *)

\* A save of a drawer sends what was read when it was opened, but for what was
\* typed in it since, and nothing typed and discarded before; unless it was
\* opened before the settings were read.
SectionAsShown(s) ==
  s.what \in {"section", "account"} /\ s.sheet.at # NoData =>
    \A k \in DOMAIN s.keys \ s.sheet.typed :
      s.keys[k] = IF s.what = "account" THEN "theirs"
                  ELSE Filled(s.sheet.mode, s.sheet.at.keys)[k]

\* A list of rules that is sent differs from the one on the screen in the rule
\* that was added, edited or named by the dialog, and in no other; unless the
\* list was read again, with other rules, while the drawer or the dialog was
\* open.
RulesAsShown(s) ==
  s.from # NoData =>
    CASE s.what = "add" ->
           \E r \in RuleValues : r.rule = NewRule /\ s.rules = Append(s.from.rules, r)
      [] s.what = "edit" /\ ~s.sheet.shifted ->
           \E i \in DOMAIN s.from.rules, t \in {"mine", "stored"} :
             /\ s.from.rules[i].rule = s.sheet.rule
             /\ s.rules = [s.from.rules EXCEPT ![i].text = t]
      [] s.what = "delete" /\ ~s.doomed.shifted ->
           \E i \in DOMAIN s.from.rules :
             s.from.rules[i].rule = s.doomed.rule /\ s.rules = Without(s.from.rules, i)
      [] OTHER -> TRUE

\* What is saved is what was shown.
SavesWhatWasShown == \A s \in saves : SectionAsShown(s) /\ RulesAsShown(s)

\* A drawer with unsaved edits closes by "Discard Changes" or by the answer to a
\* request, and never by itself; unless it was opened before the settings were
\* read.
DraftsKept ==
  [][sheet # NoSheet /\ sheet.at # NoData /\ sheet' = NoSheet /\ saves' = saves =>
       doubting \/ FormShown =
         (CASE sheet.mode \in DOMAIN SettingsKeys -> Filled(sheet.mode, sheet.at.keys)
            [] sheet.mode = "account" -> [k \in AccountKeys |-> "theirs"]
            [] sheet.mode = "password" -> BlankForm("password")
            [] sheet.mode = "ratelimit-add" -> BlankRule
            [] OTHER -> sheet.at.rules[sheet.index])]_settingsVars

=============================================================================
