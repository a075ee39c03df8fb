-------------------------------- MODULE FlagsPage --------------------------------
(***************************************************************************)
(* The page of the feature flags (ui routes/_auth/flags): the list with    *)
(* its switches, the drawer in which a flag is created, the playground in  *)
(* which one is evaluated, and the dialog in which one is deleted.         *)
(*                                                                         *)
(* A switch sends the opposite of what the list says, and waits for no     *)
(* answer, so that pressed twice it sends the same twice.                  *)
(***************************************************************************)
EXTENDS Integers, FiniteSets

CONSTANTS
  FlagKeys,     \* keys a flag may have
  NoFlag,       \* not a key
  FlagBudgets   \* bounds on the steps of each sort, one of which is chosen

ASSUME FlagsAssumption ==
  /\ NoFlag \notin FlagKeys
  /\ FlagBudgets \subseteq
       [{"creates", "toggles", "deletes", "evals", "others", "faults"} -> Nat]

VARIABLES
  flagState,   \* of each flag on the server: "on", "off" or "none"
  flags,       \* the cached list: what it says and what it misses
  flagsAsked,  \* that query, while it is under way
  newFlag,     \* isCreateOpen, newKey, newEnabled
  flagToDelete,
  playground,  \* isEvalOpen, evalFlagKey, evalJsonError, and evalResult: of which flag
  flagCalls,   \* requests in flight
  doubtful,    \* history: flags written by a request whose answer was lost
  flagBudget   \* what is left of the bounds

flagVars == <<flagState, flags, flagsAsked, newFlag, flagToDelete, playground, flagCalls,
              doubtful, flagBudget>>

\* misses is history: the flags this page has written since the list was made.
NoFlags == [of |-> [k \in FlagKeys |-> "none"], misses |-> {}]
NotAsked == [state |-> "idle", list |-> NoFlags]
AskedFlags == [state |-> "asked", list |-> NoFlags]
ClosedForm == [open |-> FALSE, key |-> NoFlag, enabled |-> TRUE]
ClosedPlayground == [open |-> FALSE, key |-> NoFlag, result |-> NoFlag, error |-> FALSE,
                     changed |-> FALSE]

UseFlags(what) == flagBudget[what] > 0 /\ flagBudget' = [flagBudget EXCEPT ![what] = @ - 1]
FlagsOnList == {k \in FlagKeys : flags.of[k] # "none"}
CardsReachable == ~newFlag.open /\ flagToDelete = NoFlag /\ ~playground.open
FlagCall(kind, key, value) ==
  [kind |-> kind, key |-> key, value |-> value, answer |-> "none",
   nr |-> flagBudget["toggles"]]  \* tells two presses of a switch apart
PendingFlag(kind) == \E c \in flagCalls : c.kind = kind

-----------------------------------------------------------------------------
(* Creating, switching and deleting.                                          *)

\* The form is as it was left, unless a creation succeeded since.
OpenFlagForm ==
  /\ CardsReachable
  /\ newFlag' = [newFlag EXCEPT !.open = TRUE]
  /\ UseFlags("creates")
  /\ UNCHANGED <<flagState, flags, flagsAsked, flagToDelete, playground, flagCalls, doubtful>>

FillFlagForm(key, enabled) ==
  /\ newFlag.open
  /\ newFlag' = [newFlag EXCEPT !.key = key, !.enabled = enabled]
  /\ UNCHANGED <<flagState, flags, flagsAsked, flagToDelete, playground, flagCalls, doubtful,
                 flagBudget>>

CloseFlagForm ==
  /\ newFlag.open
  /\ newFlag' = [newFlag EXCEPT !.open = FALSE]
  /\ UNCHANGED <<flagState, flags, flagsAsked, flagToDelete, playground, flagCalls, doubtful,
                 flagBudget>>

CreateFlag ==
  /\ newFlag.open /\ newFlag.key # NoFlag
  /\ ~PendingFlag("create")
  /\ UseFlags("creates")
  /\ flagCalls' = flagCalls \cup
       {FlagCall("create", newFlag.key, IF newFlag.enabled THEN "on" ELSE "off")}
  /\ UNCHANGED <<flagState, flags, flagsAsked, newFlag, flagToDelete, playground, doubtful>>

Opposite(value) == IF value = "on" THEN "off" ELSE "on"

HandleToggle(k) ==
  /\ CardsReachable
  /\ k \in FlagsOnList
  /\ UseFlags("toggles")
  /\ flagCalls' = flagCalls \cup {FlagCall("update", k, Opposite(flags.of[k]))}
  /\ UNCHANGED <<flagState, flags, flagsAsked, newFlag, flagToDelete, playground, doubtful>>

AskDeleteFlag(k) ==
  /\ CardsReachable
  /\ k \in FlagsOnList
  /\ UseFlags("deletes")
  /\ flagToDelete' = k
  /\ UNCHANGED <<flagState, flags, flagsAsked, newFlag, playground, flagCalls, doubtful>>

DismissDeleteFlag ==
  /\ flagToDelete # NoFlag
  /\ flagToDelete' = NoFlag
  /\ UNCHANGED <<flagState, flags, flagsAsked, newFlag, playground, flagCalls, doubtful,
                 flagBudget>>

ConfirmDeleteFlag ==
  /\ flagToDelete # NoFlag
  /\ ~PendingFlag("delete")
  /\ UseFlags("deletes")
  /\ flagCalls' = flagCalls \cup {FlagCall("delete", flagToDelete, "none")}
  /\ UNCHANGED <<flagState, flags, flagsAsked, newFlag, flagToDelete, playground, doubtful>>

-----------------------------------------------------------------------------
(* The playground.                                                            *)

OpenEvalDrawer(k) ==
  /\ CardsReachable
  /\ k \in FlagsOnList \/ (k = NoFlag /\ FlagsOnList = {})
  /\ UseFlags("evals")
  /\ playground' = [ClosedPlayground EXCEPT !.open = TRUE, !.key = k,
                                            !.changed = PendingFlag("eval")]
  /\ UNCHANGED <<flagState, flags, flagsAsked, newFlag, flagToDelete, flagCalls, doubtful>>

CloseEvalDrawer ==
  /\ playground.open
  /\ playground' = [playground EXCEPT !.open = FALSE]
  /\ UNCHANGED <<flagState, flags, flagsAsked, newFlag, flagToDelete, flagCalls, doubtful,
                 flagBudget>>

OtherTarget(k) == [playground EXCEPT !.key = k, !.result = NoFlag,
                                     !.changed = PendingFlag("eval")]

\* The flag may be changed while one is evaluated.
ChooseTarget(k) ==
  /\ playground.open
  /\ k \in FlagsOnList
  /\ UseFlags("evals")
  /\ playground' = OtherTarget(k)
  /\ UNCHANGED <<flagState, flags, flagsAsked, newFlag, flagToDelete, flagCalls, doubtful>>

\* A context that is no JSON is refused here, and the last result stays.
RunEvaluation(json) ==
  /\ playground.open /\ playground.key # NoFlag
  /\ ~PendingFlag("eval")
  /\ UseFlags("evals")
  /\ playground' = [playground EXCEPT !.error = ~json]
  /\ flagCalls' = flagCalls \cup
       (IF json THEN {FlagCall("eval", playground.key, "none")} ELSE {})
  /\ UNCHANGED <<flagState, flags, flagsAsked, newFlag, flagToDelete, doubtful>>

\* applyPreset enters a context that is JSON.
ApplyContextPreset ==
  /\ playground.open
  /\ playground' = [playground EXCEPT !.error = FALSE]
  /\ UNCHANGED <<flagState, flags, flagsAsked, newFlag, flagToDelete, flagCalls, doubtful,
                 flagBudget>>

-----------------------------------------------------------------------------
(* The server and its answers.                                                *)

FlagRefused(c) == c.kind # "eval" /\ (c.kind = "create" <=> flagState[c.key] # "none")
MissingFlag(list, k) == [list EXCEPT !.misses = @ \cup {k}]

CarryFlagCall(c) ==
  /\ c.answer = "none"
  /\ flagCalls' = (flagCalls \ {c}) \cup
                    {[c EXCEPT !.answer = IF FlagRefused(c) THEN "failed" ELSE "ok"]}
  /\ IF FlagRefused(c) \/ c.kind = "eval"
     THEN UNCHANGED <<flagState, flags, flagsAsked>>
     ELSE /\ flagState' = [flagState EXCEPT ![c.key] = c.value]
          /\ flags' = MissingFlag(flags, c.key)
          /\ flagsAsked' = IF flagsAsked.state = "answered"
                           THEN [flagsAsked EXCEPT !.list = MissingFlag(@, c.key)]
                           ELSE flagsAsked
  /\ UNCHANGED <<newFlag, flagToDelete, playground, doubtful, flagBudget>>

LoseFlagCall(c) ==
  /\ c.answer # "failed"
  /\ UseFlags("faults")
  /\ flagCalls' = (flagCalls \ {c}) \cup {[c EXCEPT !.answer = "failed"]}
  /\ doubtful' = IF c.answer = "ok" THEN doubtful \cup {c.key} ELSE doubtful
  /\ UNCHANGED <<flagState, flags, flagsAsked, newFlag, flagToDelete, playground>>

\* Mutant: a query under way answers for the new one.
ListOnce == flagsAsked' = IF flagsAsked.state = "idle" THEN AskedFlags ELSE flagsAsked

\* The list is asked for again, in place of a query under way.
ListAgain == flagsAsked' = AskedFlags

FlagAnswered(c) ==
  /\ c.answer = "ok" /\ c.kind # "eval"
  /\ flagCalls' = flagCalls \ {c}
  /\ ListAgain
  /\ newFlag' = IF c.kind = "create" THEN ClosedForm ELSE newFlag
  /\ flagToDelete' = IF c.kind = "delete" THEN NoFlag ELSE flagToDelete
  /\ UNCHANGED <<flagState, flags, playground, doubtful, flagBudget>>

\* A failed switch says nothing; a failed deletion ends the dialog.
FlagCallFailed(c) ==
  /\ c.answer = "failed"
  /\ flagCalls' = flagCalls \ {c}
  /\ flagToDelete' = IF c.kind = "delete" THEN NoFlag ELSE flagToDelete
  /\ UNCHANGED <<flagState, flags, flagsAsked, newFlag, playground, doubtful, flagBudget>>

\* The result is shown whatever flag is selected by now.
Evaluated(c) ==
  /\ c.answer = "ok" /\ c.kind = "eval"
  /\ flagCalls' = flagCalls \ {c}
  /\ playground' = [playground EXCEPT !.result = c.key]
  /\ UNCHANGED <<flagState, flags, flagsAsked, newFlag, flagToDelete, doubtful, flagBudget>>

ServeFlags ==
  /\ flagsAsked = AskedFlags
  /\ flagsAsked' = [state |-> "answered", list |-> [of |-> flagState, misses |-> {}]]
  /\ UNCHANGED <<flagState, flags, newFlag, flagToDelete, playground, flagCalls, doubtful,
                 flagBudget>>

FlagsListed ==
  /\ flagsAsked.state = "answered"
  /\ flags' = flagsAsked.list
  /\ flagsAsked' = NotAsked
  /\ UNCHANGED <<flagState, newFlag, flagToDelete, playground, flagCalls, doubtful, flagBudget>>

\* Another administrator writes, and the list is looked at again.
OtherWritesFlag(k) ==
  /\ UseFlags("others")
  /\ flagState' = [flagState EXCEPT ![k] = IF @ = "none" THEN "on" ELSE "none"]
  /\ flagsAsked' = IF flagsAsked.state = "idle" THEN AskedFlags ELSE flagsAsked
  /\ UNCHANGED <<flags, newFlag, flagToDelete, playground, flagCalls, doubtful>>

-----------------------------------------------------------------------------

FlagsInit ==
  /\ flagState = [k \in FlagKeys |-> IF k = CHOOSE m \in FlagKeys : TRUE THEN "on" ELSE "none"]
  /\ flags = NoFlags
  /\ flagsAsked = AskedFlags
  /\ newFlag = ClosedForm
  /\ flagToDelete = NoFlag
  /\ playground = ClosedPlayground
  /\ flagCalls = {}
  /\ doubtful = {}
  /\ flagBudget \in FlagBudgets

FlagsNext ==
  \/ OpenFlagForm \/ CloseFlagForm \/ CreateFlag
  \/ \E k \in FlagKeys, enabled \in BOOLEAN : FillFlagForm(k, enabled)
  \/ \E k \in FlagKeys : \/ HandleToggle(k) \/ AskDeleteFlag(k) \/ ChooseTarget(k)
                         \/ OtherWritesFlag(k)
  \/ \E k \in FlagKeys \cup {NoFlag} : OpenEvalDrawer(k)
  \/ \E json \in BOOLEAN : RunEvaluation(json)
  \/ DismissDeleteFlag \/ ConfirmDeleteFlag \/ CloseEvalDrawer \/ ApplyContextPreset
  \/ \E c \in flagCalls : \/ CarryFlagCall(c) \/ LoseFlagCall(c) \/ FlagAnswered(c)
                          \/ FlagCallFailed(c) \/ Evaluated(c)
  \/ ServeFlags \/ FlagsListed

FlagsSpec == FlagsInit /\ [][FlagsNext]_flagVars

-----------------------------------------------------------------------------
(* Properties.                                                                *)

\* The list on the screen lacks no write of this page that was answered, unless
\* the answer was lost or the list is being asked for again: a switch shows
\* what it did, so that pressing it once more undoes it.
SwitchesShowWrites ==
  flagsAsked = NotAsked =>
    \A k \in flags.misses : k \in doubtful \/ \E c \in flagCalls : c.key = k

\* A result in the playground is that of the flag above it, unless the flag was
\* changed, or the drawer opened again, while one was evaluated.
ResultOfItsFlag ==
  playground.open /\ ~playground.changed => playground.result \in {NoFlag, playground.key}

\* The page says of a flag what was done to that flag.
FlagsAsDone == SwitchesShowWrites /\ ResultOfItsFlag

=============================================================================
