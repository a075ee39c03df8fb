------------------------------ MODULE AdminSession ------------------------------
(***************************************************************************)
(* Who is signed in to the dashboard (ui context/AuthContext, api/client,  *)
(* routes/login, setup and _auth): the master key, the token and the user  *)
(* are in the storage that all tabs share, and each tab has a copy in the  *)
(* state of its AuthProvider, which it reads when it is loaded.  A request *)
(* takes its credentials from the storage when it is sent, and its answer  *)
(* writes to both.                                                         *)
(*                                                                         *)
(* A token, like a user, is told apart by the account it is for.           *)
(***************************************************************************)
EXTENDS Integers, FiniteSets

CONSTANTS
  Tabs,
  Accounts,        \* root users, in the order they were created
  MasterKeys,      \* values of MOUL_ADMIN_KEY
  SessionBudgets   \* bounds on the steps of each sort, one of which is chosen

ASSUME AdminSessionAssumption ==
  /\ Accounts \subseteq Nat \ {0}
  /\ \E a \in Accounts : \A b \in Accounts : a <= b
  /\ "" \notin MasterKeys
  /\ SessionBudgets \subseteq
       [{"loads", "submits", "exits", "saves", "rotations", "faults"} -> Nat]

VARIABLES
  masterKey,     \* of the server
  roots,         \* _rootUsers
  storage,       \* localStorage: token, key and user
  tabs,          \* of each tab: its copy, needsSetup, the page
  asks,          \* requests in flight, as the continuation of their answer needs them
  apart,         \* history: tabs in which the storage was changed by another one
  crossed,       \* history: an answer was written that was asked for as someone else
  sessionBudget  \* what is left of the bounds

adminVars == <<masterKey, roots, storage, tabs, asks, apart, crossed, sessionBudget>>

Nobody == 0
NoKey == ""
SignedOut == [token |-> Nobody, key |-> NoKey, user |-> Nobody]
Keep(what) == sessionBudget[what] > 0 /\ sessionBudget' = [sessionBudget EXCEPT ![what] = @ - 1]

\* What the credentials of a request are worth, and whom it is about: without a
\* token the account is that of the first root user.
First == CHOOSE a \in roots : \A b \in roots : a <= b
Subject(token) == IF token \in roots THEN token ELSE First

Asking(t, kind, key, who) ==
  [tab |-> t, kind |-> kind, key |-> key, who |-> who, as |-> storage.token,
   own |-> tabs[t].key, from |-> tabs[t].page, here |-> TRUE, answer |-> "none",
   needsSetup |-> FALSE]
Busy(t) == \E r \in asks : r.tab = t /\ r.here /\ r.kind \in {"verify", "login", "setup"}

\* A tab writes to its state, and to the storage.
Write(t, new, kept) ==
  /\ storage' = kept
  /\ tabs' = [tabs EXCEPT ![t] = new]
  /\ apart' = (IF new.token = kept.token /\ new.key = kept.key THEN apart \ {t} ELSE apart)
              \cup (IF kept = storage THEN {} ELSE Tabs \ {t})

\* beforeLoad of the pages behind the sign-in, and the page that is shown.
Admitted(page, kept) ==
  IF page = "app" /\ (kept.token = Nobody \/ kept.key = NoKey) THEN "login" ELSE page
\* What t still waits for then goes on without the page that asked for it.
Left(t, page, waiting) ==
  {[r EXCEPT !.here = @ /\ (r.tab # t \/ page = tabs[t].page)] : r \in waiting}

-----------------------------------------------------------------------------
(* AuthProvider: a tab is loaded, or loaded again, which forgets its requests.*)

LoadTab(t, page) ==
  /\ Keep("loads")
  /\ tabs' = [tabs EXCEPT ![t] =
       [token |-> storage.token, key |-> storage.key,
        user |-> IF storage.user # Nobody THEN storage.user ELSE storage.token,
        needsSetup |-> FALSE, page |-> Admitted(page, storage)]]
  /\ asks' = {r \in asks : r.tab # t} \cup
       (IF storage.key = NoKey THEN {} ELSE {Asking(t, "init", storage.key, Nobody)})
  /\ apart' = apart \ {t}
  /\ UNCHANGED <<masterKey, roots, storage, crossed>>

Open(t) == tabs[t].page # "closed"

\* Links and the address bar within a loaded tab.
GoTo(t, page) ==
  /\ Open(t) /\ page # tabs[t].page
  /\ Keep("loads")
  /\ LET shown == Admitted(page, storage) IN
     /\ tabs' = [tabs EXCEPT ![t].page = shown]
     /\ asks' = Left(t, shown, asks)
  /\ UNCHANGED <<masterKey, roots, storage, apart, crossed>>

-----------------------------------------------------------------------------
(* The pages "login" and "setup".                                             *)

KeyAsked(t) == tabs[t].page \in {"login", "setup"} /\ tabs[t].key = NoKey
LoginOffered(t) == tabs[t].page = "login" /\ tabs[t].key # NoKey /\ ~tabs[t].needsSetup
SetupOffered(t) == tabs[t].page = "setup" /\ tabs[t].key # NoKey /\ tabs[t].needsSetup

SubmitKey(t, key) ==
  /\ KeyAsked(t) /\ ~Busy(t)
  /\ Keep("submits")
  /\ asks' = asks \cup {Asking(t, "verify", key, Nobody)}
  /\ UNCHANGED <<masterKey, roots, storage, tabs, apart, crossed>>

\* adminLogin stores the key before it asks.
SubmitLogin(t, account) ==
  /\ LoginOffered(t) /\ ~Busy(t)
  /\ Keep("submits")
  /\ Write(t, tabs[t], [storage EXCEPT !.key = tabs[t].key])
  /\ asks' = asks \cup {Asking(t, "login", tabs[t].key, account)}
  /\ UNCHANGED <<masterKey, roots, crossed>>

SubmitSetup(t, account) ==
  /\ SetupOffered(t) /\ ~Busy(t)
  /\ Keep("submits")
  /\ asks' = asks \cup {Asking(t, "setup", storage.key, account)}
  /\ UNCHANGED <<masterKey, roots, storage, tabs, apart, crossed>>

Cleared(t) == [tabs[t] EXCEPT !.token = Nobody, !.user = Nobody, !.key = NoKey,
                              !.needsSetup = FALSE]

\* handleClearKey, which waits for nothing.
ClearAdminKey(t) ==
  /\ tabs[t].page \in {"login", "setup"} /\ tabs[t].key # NoKey
  /\ Keep("exits")
  /\ Write(t, Cleared(t), SignedOut)
  /\ UNCHANGED <<masterKey, roots, asks, crossed>>

\* Mutant: signing out leaves the user in the storage.
WithoutToken(record) == [record EXCEPT !.token = Nobody]

\* Signing out forgets the token and the user, and stays on the page.
WithoutUser(record) == [record EXCEPT !.token = Nobody, !.user = Nobody]

Logout(t) ==
  /\ tabs[t].page = "app"
  /\ Keep("exits")
  /\ Write(t, WithoutUser(tabs[t]), WithoutUser(storage))
  /\ UNCHANGED <<masterKey, roots, asks, crossed>>

\* The account drawer of the settings.
SaveRootAccount(t) ==
  /\ tabs[t].page = "app"
  /\ Keep("saves")
  /\ asks' = asks \cup {Asking(t, "save", storage.key, Nobody)}
  /\ UNCHANGED <<masterKey, roots, storage, tabs, apart, crossed>>

-----------------------------------------------------------------------------
(* The server.                                                                *)

\* The first root user is created once; a login needs its account, and the
\* password, which may be wrong.
CarryAsk(r) ==
  /\ r.answer = "none"
  /\ \E ok \in {r.key = masterKey} \cup (IF r.kind = "login" THEN {FALSE} ELSE {}) :
       LET done == /\ ok
                   /\ r.kind = "setup" => roots = {}
                   /\ r.kind = "login" => r.who \in roots
                   /\ r.kind \in {"refresh", "save"} => roots # {}
       IN /\ roots' = IF r.kind = "setup" /\ done THEN {r.who} ELSE roots
          /\ asks' = (asks \ {r}) \cup
               {[r EXCEPT !.answer = IF done THEN "ok" ELSE "failed",
                          !.needsSetup = roots = {},
                          !.who = IF done /\ r.kind \in {"refresh", "save"}
                                  THEN Subject(r.as) ELSE @]}
  /\ UNCHANGED <<masterKey, storage, tabs, apart, crossed, sessionBudget>>

LoseAsk(r) ==
  /\ r.answer # "failed"
  /\ Keep("faults")
  /\ asks' = (asks \ {r}) \cup {[r EXCEPT !.answer = "failed"]}
  /\ UNCHANGED <<masterKey, roots, storage, tabs, apart, crossed>>

\* The server is restarted with another key.
RotateKey(key) ==
  /\ key # masterKey
  /\ Keep("rotations")
  /\ masterKey' = key
  /\ UNCHANGED <<roots, storage, tabs, asks, apart, crossed>>

-----------------------------------------------------------------------------
(* Answers.                                                                   *)

\* init goes on to refreshUser when there was a token, unless it is gone now.
InitAnswered(r) ==
  /\ r.kind = "init" /\ r.answer = "ok"
  /\ tabs' = [tabs EXCEPT ![r.tab].needsSetup = r.needsSetup]
  /\ asks' = (asks \ {r}) \cup
       (IF r.as # Nobody /\ storage.token # Nobody /\ storage.key # NoKey
        THEN {Asking(r.tab, "refresh", storage.key, Nobody)} ELSE {})
  /\ UNCHANGED <<masterKey, roots, storage, apart, crossed, sessionBudget>>

\* Any failure of it, a lost connection too, is taken for a key that was rotated.
InitFailed(r) ==
  /\ r.kind = "init" /\ r.answer = "failed"
  /\ Write(r.tab, Cleared(r.tab), SignedOut)
  /\ asks' = asks \ {r}
  /\ UNCHANGED <<masterKey, roots, crossed, sessionBudget>>

UserRefreshed(r) ==
  /\ r.kind = "refresh" /\ r.answer = "ok"
  /\ Write(r.tab, [tabs[r.tab] EXCEPT !.user = r.who], [storage EXCEPT !.user = r.who])
  /\ crossed' = (crossed \/ storage.token # r.as)
  /\ asks' = asks \ {r}
  /\ UNCHANGED <<masterKey, roots, sessionBudget>>

\* The form that asked, "login" or "setup", goes to the other page if the server
\* says so, even when another page is shown by now.
KeyVerified(r) ==
  /\ r.kind = "verify" /\ r.answer = "ok"
  /\ LET t == r.tab
         page == CASE r.from = "login" /\ r.needsSetup -> "setup"
                   [] r.from = "setup" /\ ~r.needsSetup -> "login"
                   [] OTHER -> tabs[t].page
     IN /\ Write(t, [tabs[t] EXCEPT !.key = r.key, !.needsSetup = r.needsSetup,
                                    !.page = page], [storage EXCEPT !.key = r.key])
        /\ asks' = Left(t, page, asks \ {r})
  /\ UNCHANGED <<masterKey, roots, crossed, sessionBudget>>

LoggedIn(r) ==
  /\ r.kind = "login" /\ r.answer = "ok"
  /\ LET kept == [storage EXCEPT !.token = r.who, !.user = r.who]
         page == Admitted("app", kept)
     IN /\ Write(r.tab, [tabs[r.tab] EXCEPT !.token = r.who, !.user = r.who, !.page = page],
                 kept)
        /\ asks' = Left(r.tab, page, asks \ {r})
  /\ UNCHANGED <<masterKey, roots, crossed, sessionBudget>>

\* A failed login also signs out who was signed in; setup's own login then goes to
\* the page "login".
LoginFailed(r) ==
  /\ r.kind = "login" /\ r.answer = "failed"
  /\ LET page == IF r.from = "setup" THEN "login" ELSE tabs[r.tab].page IN
     /\ Write(r.tab, [WithoutUser(tabs[r.tab]) EXCEPT !.page = page], WithoutUser(storage))
     /\ asks' = Left(r.tab, page, asks \ {r})
  /\ UNCHANGED <<masterKey, roots, crossed, sessionBudget>>

\* The new account is logged in at once, with the key the form was sent with,
\* even if that was cleared meanwhile.
SetupAnswered(r) ==
  /\ r.kind = "setup" /\ r.answer = "ok"
  /\ Write(r.tab, [tabs[r.tab] EXCEPT !.key = r.own], [storage EXCEPT !.key = r.own])
  /\ asks' = (asks \ {r}) \cup {[Asking(r.tab, "login", r.own, r.who)
                                   EXCEPT !.here = r.here, !.from = r.from]}
  /\ UNCHANGED <<masterKey, roots, crossed, sessionBudget>>

\* updateUser and saveToken: the answer signs in as the account it is about.
RootAccountSaved(r) ==
  /\ r.kind = "save" /\ r.answer = "ok"
  /\ Write(r.tab, [tabs[r.tab] EXCEPT !.token = r.who, !.user = r.who],
           [storage EXCEPT !.token = r.who, !.user = r.who])
  /\ asks' = asks \ {r}
  /\ UNCHANGED <<masterKey, roots, crossed, sessionBudget>>

OtherAskFailed(r) ==
  /\ r.kind \in {"refresh", "verify", "setup", "save"} /\ r.answer = "failed"
  /\ asks' = asks \ {r}
  /\ UNCHANGED <<masterKey, roots, storage, tabs, apart, crossed, sessionBudget>>

-----------------------------------------------------------------------------

AdminInit ==
  /\ masterKey = CHOOSE key \in MasterKeys : TRUE
  /\ sessionBudget \in SessionBudgets
  /\ \/ roots = {} /\ storage = SignedOut
     \/ /\ sessionBudget["loads"] > 0
        /\ roots = Accounts
        /\ storage \in {SignedOut, [token |-> First, key |-> masterKey, user |-> First]}
  /\ tabs = [t \in Tabs |-> [token |-> Nobody, key |-> NoKey, user |-> Nobody,
                             needsSetup |-> FALSE, page |-> "closed"]]
  /\ asks = {}
  /\ apart = {}
  /\ crossed = FALSE

Visit(t) ==
  \/ \E page \in {"login", "setup", "app"} : LoadTab(t, page) \/ GoTo(t, page)
  \/ \E key \in MasterKeys : SubmitKey(t, key)
  \/ \E account \in Accounts : SubmitLogin(t, account) \/ SubmitSetup(t, account)
  \/ ClearAdminKey(t) \/ Logout(t) \/ SaveRootAccount(t)

AdminNext ==
  \/ \E t \in Tabs : Visit(t)
  \/ \E key \in MasterKeys : RotateKey(key)
  \/ \E r \in asks : \/ CarryAsk(r) \/ LoseAsk(r) \/ InitAnswered(r) \/ InitFailed(r)
                     \/ UserRefreshed(r) \/ KeyVerified(r) \/ LoggedIn(r) \/ LoginFailed(r)
                     \/ SetupAnswered(r) \/ RootAccountSaved(r) \/ OtherAskFailed(r)

AdminSessionSpec == AdminInit /\ [][AdminNext]_adminVars

-----------------------------------------------------------------------------
(* Properties.                                                                *)

\* The user in the storage is the one the token is for, whichever tabs signed in
\* and out and whatever failed, until the answer of refreshUser comes when
\* someone else, or nobody, is signed in.
UserIsTokens == crossed \/ storage.user \in {Nobody, storage.token}

\* A tab knows which token and which key its requests are sent with, until
\* another tab changes them.
TabsKnowStorage ==
  \A t \in Tabs \ apart : tabs[t].page # "closed" =>
    tabs[t].token = storage.token /\ tabs[t].key = storage.key

\* Storage, tabs and accounts agree.
SessionAgrees == UserIsTokens /\ TabsKnowStorage

=============================================================================
