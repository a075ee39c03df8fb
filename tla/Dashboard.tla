------------------------------- MODULE Dashboard -------------------------------
(***************************************************************************)
(* The dashboard as a whole (ui main.tsx): one page is mounted at a time.  *)
(* Leaving a page unmounts it, with all it holds, so that its behaviours   *)
(* are those of the page that is entered.  "session" is the part around    *)
(* the pages, with those for signing in; "forms" stands for the validation *)
(* that the forms of several pages call.                                   *)
(***************************************************************************)
EXTENDS RecordsPage, FieldForm, TransferDialogs, SettingsPage, SchemaEditor,
        CollectionsPage, WorkersPage, FlagsPage, RealtimePage, AdminSession

VARIABLE route

Routes == {"records", "forms", "transfer", "settings", "schema", "collections", "workers",
           "flags", "realtime", "session"}

dashboardVars == <<route, recordsVars, formVars, transferVars, settingsVars, editorVars,
                   collectionsVars, queueVars, flagVars, streamVars, adminVars>>

\* A page that is not mounted does nothing.
Spent(bounds) == \A what \in DOMAIN bounds : bounds[what] = 0
Mounted(r, bounds) == Spent(bounds) <=> route # r

DashboardInit ==
  /\ route \in Routes
  /\ RecordsInit /\ Mounted("records", budget)
  /\ route # "records" => moulType = (CHOOSE k \in Kinds : TRUE)
  /\ IF route = "forms" THEN FormInit
     ELSE entry = (CHOOSE e \in FormEntries : TRUE) /\ verdict = "entered"
  /\ TransferInit /\ Mounted("transfer", transfers)
  /\ route # "transfer" => searched = [filter |-> NoFilter, text |-> FALSE]
  /\ SettingsInit /\ Mounted("settings", unspent)
  /\ EditorInit /\ Mounted("schema", effort)
  /\ CollectionsInit /\ Mounted("collections", allowance)
  /\ QueueInit /\ Mounted("workers", queueBudget)
  /\ FlagsInit /\ Mounted("flags", flagBudget)
  /\ StreamInit /\ Mounted("realtime", streamBudget)
  /\ AdminInit /\ Mounted("session", sessionBudget)

\* What is not mounted stays as it is.
Only(r) ==
  /\ route = r
  /\ UNCHANGED route
  /\ IF r = "records" THEN TRUE ELSE UNCHANGED recordsVars
  /\ IF r = "forms" THEN TRUE ELSE UNCHANGED formVars
  /\ IF r = "transfer" THEN TRUE ELSE UNCHANGED transferVars
  /\ IF r = "settings" THEN TRUE ELSE UNCHANGED settingsVars
  /\ IF r = "schema" THEN TRUE ELSE UNCHANGED editorVars
  /\ IF r = "collections" THEN TRUE ELSE UNCHANGED collectionsVars
  /\ IF r = "workers" THEN TRUE ELSE UNCHANGED queueVars
  /\ IF r = "flags" THEN TRUE ELSE UNCHANGED flagVars
  /\ IF r = "realtime" THEN TRUE ELSE UNCHANGED streamVars
  /\ IF r = "session" THEN TRUE ELSE UNCHANGED adminVars

DashboardNext ==
  \/ Only("records") /\ RecordsNext
  \/ Only("forms") /\ FormNext
  \/ Only("transfer") /\ TransferNext
  \/ Only("settings") /\ SettingsNext
  \/ Only("schema") /\ EditorNext
  \/ Only("collections") /\ CollectionsNext
  \/ Only("workers") /\ QueueNext
  \/ Only("flags") /\ FlagsNext
  \/ Only("realtime") /\ StreamNext
  \/ Only("session") /\ AdminNext

DashboardSpec == DashboardInit /\ [][DashboardNext]_dashboardVars

=============================================================================
