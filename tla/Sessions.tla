------------------------------ MODULE Sessions ------------------------------
(***************************************************************************)
(* The life of an auth token: sign in, use, refresh, logout, and the       *)
(* revocations behind them.  A revocation is a row of _revoked_tokens,     *)
(* shared by all processes, and an entry in the copy of that table each    *)
(* process answers from (internal/db/revoked.go, internal/db/db.go,        *)
(* internal/handlers/auth.go, internal/middleware/auth.go).                *)
(*                                                                         *)
(* A request runs in steps: one SQL statement, or one critical section of  *)
(* the copy's lock with the SELECT it may hold, is one step.  The clock    *)
(* counts seconds; a request's time.Now() lies inside the second now, and  *)
(* an expiry, a whole second, lies at the start of its second, so an       *)
(* expiry e has passed once e <= now.                                      *)
(***************************************************************************)
EXTENDS Integers

CONSTANTS
  Nodes,      \* processes on the same database
  Requests,   \* requests that may be under way at once
  Tokens,     \* tokens that can be issued
  NoToken,    \* the token of a request without one
  NoNode,     \* the node of a request that is not under way
  TTL,        \* auth.TokenTTL
  Graces,     \* values auth.RefreshGrace is configured to
  Interval,   \* revokedRefreshInterval
  MaxTime,    \* bound on the clock
  MaxFaults   \* bound on failed SQL statements and restarts

ASSUME SessionsAssumption ==
  /\ NoToken \notin Tokens
  /\ NoNode \notin Nodes
  /\ TTL \in Nat
  /\ Graces \subseteq Nat
  /\ Interval \in Nat \ {0}
  /\ MaxTime \in Nat
  /\ MaxFaults \in Nat

VARIABLES
  expiry,      \* the exp claim of each token, NotIssued before it is issued
  row,         \* expires_at of each token's row in _revoked_tokens, or NoRow
  loaded,      \* whether a process has its copy of the table (hashes # nil)
  hashes,      \* that copy: the expiry per token, or NoRow
  loadedAt,    \* when the copy was last read, or its read last failed
  grace,       \* auth.RefreshGrace in each process
  pc,          \* what each request does next
  op,          \* what each request is
  at,          \* the process that serves it
  token,       \* the token it carries
  asOf,        \* its last time.Now()
  exchanges,   \* history: new tokens issued for each token
  ended,       \* history: tokens logged out or exchanged by a finished request
  revokedBy,   \* history: tokens whose RevokeToken returned, per process since it started
  committed,   \* history: when each token's row was inserted, or NoRow
  lastFailure, \* history: when a process last failed to read the table, or Never
  barred,      \* history: the request's token was in ended when it began
  heldHere,    \* history: the token was in revokedBy of the process when it began
  now,         \* the clock
  faults       \* failed statements and restarts so far

vars == <<expiry, row, loaded, hashes, loadedAt, grace, pc, op, at, token, asOf,
          exchanges, ended, revokedBy, committed, lastFailure, barred, heldHere,
          now, faults>>

requestVars == <<op, at, token, asOf, barred, heldHere>>
copyVars == <<loaded, hashes, loadedAt, lastFailure>>
historyVars == <<exchanges, ended, revokedBy, committed>>

NotIssued == -1
NoRow == -1
Never == -Interval

Operations == {"use", "refresh", "logout", "logoutAgain", "cleanup"}
Steps == {"idle", "sync", "contains", "accepted", "insert", "add", "issue",
          "prune"}

TypeOK ==
  /\ expiry \in [Tokens -> Nat \cup {NotIssued}]
  /\ row \in [Tokens -> Nat \cup {NoRow}]
  /\ loaded \in [Nodes -> BOOLEAN]
  /\ hashes \in [Nodes -> [Tokens -> Nat \cup {NoRow}]]
  /\ loadedAt \in [Nodes -> Nat]
  /\ grace \in [Nodes -> Graces]
  /\ pc \in [Requests -> Steps]
  /\ op \in [Requests -> Operations]
  /\ at \in [Requests -> Nodes \cup {NoNode}]
  /\ token \in [Requests -> Tokens \cup {NoToken}]
  /\ asOf \in [Requests -> Nat]
  /\ exchanges \in [Tokens -> Nat]
  /\ ended \in SUBSET Tokens
  /\ revokedBy \in [Nodes -> SUBSET Tokens]
  /\ committed \in [Tokens -> Nat \cup {NoRow}]
  /\ lastFailure \in [Nodes -> Int]
  /\ barred \in [Requests -> BOOLEAN]
  /\ heldHere \in [Requests -> BOOLEAN]
  /\ now \in 0..MaxTime
  /\ faults \in 0..MaxFaults
  /\ \A r \in Requests : (at[r] = NoNode) <=> (pc[r] \in {"idle", "accepted"})

Init ==
  /\ expiry = [t \in Tokens |-> NotIssued]
  /\ row = [t \in Tokens |-> NoRow]
  /\ loaded = [n \in Nodes |-> FALSE]
  /\ hashes = [n \in Nodes |-> [t \in Tokens |-> NoRow]]
  /\ loadedAt = [n \in Nodes |-> 0]
  /\ grace \in [Nodes -> Graces]
  /\ \A m, n \in Nodes : grace[m] = grace[n]
  /\ pc = [r \in Requests |-> "idle"]
  /\ op = [r \in Requests |-> "use"]
  /\ at = [r \in Requests |-> NoNode]
  /\ token = [r \in Requests |-> NoToken]
  /\ asOf = [r \in Requests |-> 0]
  /\ exchanges = [t \in Tokens |-> 0]
  /\ ended = {}
  /\ revokedBy = [n \in Nodes |-> {}]
  /\ committed = [t \in Tokens |-> NoRow]
  /\ lastFailure = [n \in Nodes |-> Never]
  /\ barred = [r \in Requests |-> FALSE]
  /\ heldHere = [r \in Requests |-> FALSE]
  /\ now = 0
  /\ faults = 0

-----------------------------------------------------------------------------
(* Helpers *)

Goto(r, step) == pc' = [pc EXCEPT ![r] = step]

\* The request is answered, or let through to its handler ("accepted"); what it
\* carried is forgotten.
FinishAs(r, step) ==
  /\ Goto(r, step)
  /\ op' = [op EXCEPT ![r] = "use"]
  /\ at' = [at EXCEPT ![r] = NoNode]
  /\ token' = [token EXCEPT ![r] = NoToken]
  /\ asOf' = [asOf EXCEPT ![r] = 0]
  /\ barred' = [barred EXCEPT ![r] = FALSE]
  /\ heldHere' = [heldHere EXCEPT ![r] = FALSE]

Finish(r) == FinishAs(r, "idle")

Free(r) == pc[r] \in {"idle", "accepted"}

Fault == faults < MaxFaults /\ faults' = faults + 1

Passed(e) == e <= now

\* GenerateToken for one of the tokens that are left.
Generate(t) ==
  /\ expiry[t] = NotIssued
  /\ expiry' = [expiry EXCEPT ![t] = now + TTL]

\* Mutant: a token revoked only for as long as it is valid.
RevokedUntilExpired(r) == expiry[token[r]]

\* Until when the row keeps a token revoked: as long as it can be refreshed.
RevokedUntil(r) == expiry[token[r]] + grace[at[r]]

-----------------------------------------------------------------------------
(* Requests *)

\* A sign in by password, code, passkey or provider issues a token.
SignIn ==
  /\ \E t \in Tokens : Generate(t)
  /\ UNCHANGED <<row, copyVars, grace, pc, requestVars, historyVars, now, faults>>

\* A request with a token arrives at process n.  The middleware, and a refresh
\* itself, ask IsTokenRevoked before anything else.
Begin(r, n) ==
  /\ Free(r)
  /\ \E t \in Tokens, o \in {"use", "refresh", "logout"} :
       /\ expiry[t] # NotIssued
       /\ op' = [op EXCEPT ![r] = o]
       /\ token' = [token EXCEPT ![r] = t]
       /\ Goto(r, "sync")
       /\ barred' = [barred EXCEPT ![r] = t \in ended]
       /\ heldHere' = [heldHere EXCEPT ![r] = t \in revokedBy[n]]
  /\ at' = [at EXCEPT ![r] = n]
  /\ asOf' = [asOf EXCEPT ![r] = now]
  /\ UNCHANGED <<expiry, row, copyVars, grace, historyVars, now, faults>>

\* Mutant: a copy that is read once.
NeverStale(r) == ~loaded[at[r]]

Stale(r) == ~loaded[at[r]] \/ asOf[r] - loadedAt[at[r]] >= Interval

\* The unexpired rows of the table.
LoadHashes(r) == [t \in Tokens |-> IF row[t] > asOf[r] THEN row[t] ELSE NoRow]

\* revokedSet.refresh: reads the table when the copy is stale.  A failed read
\* keeps what there is, and counts as a read.
Sync(r) ==
  /\ pc[r] = "sync"
  /\ Goto(r, "contains")
  /\ LET n == at[r] IN
     IF Stale(r)
     THEN /\ loaded' = [loaded EXCEPT ![n] = TRUE]
          /\ loadedAt' = [loadedAt EXCEPT ![n] = asOf[r]]
          /\ \/ /\ hashes' = [hashes EXCEPT ![n] = LoadHashes(r)]
                /\ UNCHANGED <<lastFailure, faults>>
             \/ /\ Fault
                /\ lastFailure' = [lastFailure EXCEPT ![n] = asOf[r]]
                /\ UNCHANGED hashes
     ELSE UNCHANGED <<copyVars, faults>>
  /\ UNCHANGED <<expiry, row, grace, requestVars, historyVars, now>>

IsRevoked(r) == hashes[at[r]][token[r]] > asOf[r]

\* revokedSet.contains, and what the caller makes of the answer: the middleware
\* accepts a token that is not revoked and not expired; a refresh goes on while
\* the token is within the grace period; a logout goes on in any case, and if
\* its insert failed it succeeds when the token is revoked all the same.
Contains(r) ==
  /\ pc[r] = "contains"
  /\ \/ /\ op[r] = "use"
        /\ ~IsRevoked(r)
        /\ ~Passed(expiry[token[r]])
        /\ FinishAs(r, "accepted")
        /\ UNCHANGED ended
     \/ /\ op[r] = "refresh"
        /\ ~IsRevoked(r)
        /\ ~Passed(expiry[token[r]] + grace[at[r]])
        /\ Goto(r, "insert")
        /\ UNCHANGED <<requestVars, ended>>
     \/ /\ \/ op[r] = "use" /\ (IsRevoked(r) \/ Passed(expiry[token[r]]))
           \/ /\ op[r] = "refresh"
              /\ IsRevoked(r) \/ Passed(expiry[token[r]] + grace[at[r]])
        /\ Finish(r)
        /\ UNCHANGED ended
     \/ /\ op[r] = "logout"
        /\ Goto(r, "insert")
        /\ UNCHANGED <<requestVars, ended>>
     \/ /\ op[r] = "logoutAgain"
        /\ Finish(r)
        /\ ended' = IF IsRevoked(r) THEN ended \cup {token[r]} ELSE ended
  /\ UNCHANGED <<expiry, row, copyVars, grace, exchanges, revokedBy, committed,
                 now, faults>>

\* Mutant: INSERT OR REPLACE, which a second revocation does not fail.
InsertReplaces(r) ==
  /\ pc[r] = "insert"
  /\ row' = [row EXCEPT ![token[r]] = RevokedUntil(r)]
  /\ committed' = [committed EXCEPT ![token[r]] = now]
  /\ Goto(r, "add")
  /\ UNCHANGED <<expiry, copyVars, grace, requestVars, exchanges, ended, revokedBy,
                 now, faults>>

\* RevokeToken's INSERT, which the primary key refuses when the row is there.
Insert(r) ==
  /\ pc[r] = "insert"
  /\ row[token[r]] = NoRow
  /\ row' = [row EXCEPT ![token[r]] = RevokedUntil(r)]
  /\ committed' = [committed EXCEPT ![token[r]] = now]
  /\ Goto(r, "add")
  /\ UNCHANGED <<expiry, copyVars, grace, requestVars, exchanges, ended, revokedBy,
                 now, faults>>

\* A refresh fails with it; a logout asks IsTokenRevoked.
InsertFails(r) ==
  /\ pc[r] = "insert"
  /\ \/ row[token[r]] # NoRow /\ UNCHANGED faults
     \/ Fault
  /\ \/ op[r] = "refresh" /\ Finish(r)
     \/ /\ op[r] = "logout"
        /\ op' = [op EXCEPT ![r] = "logoutAgain"]
        /\ asOf' = [asOf EXCEPT ![r] = now]
        /\ Goto(r, "sync")
        /\ UNCHANGED <<at, token, barred, heldHere>>
  /\ UNCHANGED <<expiry, row, copyVars, grace, historyVars, now>>

\* Mutant: the copy of this process is left to the next read of the table.
AddNothing(r) == hashes

\* revokedSet.add: nothing to do when the table has not been read yet.
AddHash(r) ==
  IF loaded[at[r]] THEN [hashes EXCEPT ![at[r]][token[r]] = RevokedUntil(r)] ELSE hashes

\* The rest of RevokeToken.  A logout is done; a refresh looks the user up.
Add(r) ==
  /\ pc[r] = "add"
  /\ hashes' = AddHash(r)
  /\ revokedBy' = [revokedBy EXCEPT ![at[r]] = @ \cup {token[r]}]
  /\ \/ /\ op[r] = "logout"
        /\ Finish(r)
        /\ ended' = ended \cup {token[r]}
     \/ /\ op[r] = "refresh"
        /\ Goto(r, "issue")
        /\ UNCHANGED <<requestVars, ended>>
  /\ UNCHANGED <<expiry, row, loaded, loadedAt, lastFailure, grace, exchanges,
                 committed, now, faults>>

\* The user is read again and gets the new token, one of Tokens while any is
\* left (a bound) and one nobody uses after that.
Issue(r) ==
  /\ pc[r] = "issue"
  /\ \/ \E t \in Tokens : Generate(t)
     \/ (\A t \in Tokens : expiry[t] # NotIssued) /\ UNCHANGED expiry
  /\ exchanges' = [exchanges EXCEPT ![token[r]] = @ + 1]
  /\ ended' = ended \cup {token[r]}
  /\ Finish(r)
  /\ UNCHANGED <<row, copyVars, grace, revokedBy, committed, now, faults>>

\* The user or the collection is gone or cannot be read: the token is spent and
\* the client has no new one.
IssueFails(r) ==
  /\ pc[r] = "issue"
  /\ Finish(r)
  /\ UNCHANGED <<expiry, row, copyVars, grace, historyVars, now, faults>>

\* CleanupExpiredRevokedTokens deletes the rows that have expired ...
Cleanup(r, n) ==
  /\ Free(r)
  /\ row' = [t \in Tokens |-> IF Passed(row[t]) THEN NoRow ELSE row[t]]
  /\ op' = [op EXCEPT ![r] = "cleanup"]
  /\ at' = [at EXCEPT ![r] = n]
  /\ asOf' = [asOf EXCEPT ![r] = now]
  /\ Goto(r, "prune")
  /\ UNCHANGED <<expiry, copyVars, grace, token, barred, heldHere, historyVars, now,
                 faults>>

\* ... then drops them from the copy of this process.
Prune(r) ==
  /\ pc[r] = "prune"
  /\ hashes' = [hashes EXCEPT ![at[r]] =
                  [t \in Tokens |-> IF @[t] > asOf[r] THEN @[t] ELSE NoRow]]
  /\ Finish(r)
  /\ UNCHANGED <<expiry, row, loaded, loadedAt, lastFailure, grace, historyVars,
                 now, faults>>

\* A process ends, with its requests, and starts again, perhaps configured
\* otherwise.
Restart(n) ==
  /\ Fault
  /\ loaded' = [loaded EXCEPT ![n] = FALSE]
  /\ hashes' = [hashes EXCEPT ![n] = [t \in Tokens |-> NoRow]]
  /\ loadedAt' = [loadedAt EXCEPT ![n] = 0]
  /\ lastFailure' = [lastFailure EXCEPT ![n] = Never]
  /\ revokedBy' = [revokedBy EXCEPT ![n] = {}]
  /\ \E g \in Graces : grace' = [grace EXCEPT ![n] = g]
  /\ pc' = [r \in Requests |-> IF at[r] = n THEN "idle" ELSE pc[r]]
  /\ op' = [r \in Requests |-> IF at[r] = n THEN "use" ELSE op[r]]
  /\ token' = [r \in Requests |-> IF at[r] = n THEN NoToken ELSE token[r]]
  /\ asOf' = [r \in Requests |-> IF at[r] = n THEN 0 ELSE asOf[r]]
  /\ barred' = [r \in Requests |-> at[r] # n /\ barred[r]]
  /\ heldHere' = [r \in Requests |-> at[r] # n /\ heldHere[r]]
  /\ at' = [r \in Requests |-> IF at[r] = n THEN NoNode ELSE at[r]]
  /\ UNCHANGED <<expiry, row, exchanges, ended, committed, now>>

Tick ==
  /\ now < MaxTime
  /\ now' = now + 1
  /\ UNCHANGED <<expiry, row, copyVars, grace, pc, requestVars, historyVars, faults>>

Next ==
  \/ SignIn
  \/ \E r \in Requests, n \in Nodes : Begin(r, n) \/ Cleanup(r, n)
  \/ \E r \in Requests : Sync(r) \/ Contains(r) \/ Insert(r)
                         \/ InsertFails(r) \/ Add(r) \/ Issue(r) \/ IssueFails(r)
                         \/ Prune(r)
  \/ \E n \in Nodes : Restart(n)
  \/ Tick

Spec == Init /\ [][Next]_vars

-----------------------------------------------------------------------------
(* Properties *)

\* The row was inserted when the grace period was already over: the request
\* asked IsTokenRevoked before its end.
InsertedLate(t, n) == committed[t] >= expiry[t] + grace[n]

\* "Revoke the old token for as long as it could still be refreshed, so it is
\* exchanged once" (internal/handlers/auth.go:443): a token is exchanged once,
\* whichever processes its refreshes reach, whatever they race with and whenever
\* the cleanup runs; twice at most if a refresh was overtaken by the end of the
\* grace period and by the cleanup.
ExchangedOnceInTime ==
  \A t \in Tokens : exchanges[t] <= 1 \/ \A n \in Nodes : InsertedLate(t, n)

\* The request is let through: the middleware accepts its token, or the refresh
\* takes it for one it may exchange.
LetThrough(r) ==
  /\ pc[r] = "contains"
  /\ op[r] \in {"use", "refresh"}
  /\ pc'[r] \in {"accepted", "insert"}

\* "so a logged-out session cannot be revived through the refresh endpoint after
\* the token expires" (internal/handlers/auth.go:552): a refresh that begins
\* when its token was logged out or exchanged, in any process, issues nothing,
\* unless it was overtaken in the same way.
SpentStaysSpent ==
  [][\A r \in Requests :
       pc[r] = "issue" /\ barred[r] => InsertedLate(token[r], at[r])]_vars

\* "a token revoked in this process (logout, db.RevokeToken) is rejected at
\* once, and the copy is re-read every 60 seconds to honour revocations made by
\* other processes" (README.md:879), whatever refreshes, failed reads, cleanups
\* of the copy and restarts come between: a token is let through later than the
\* interval after its revocation elsewhere only within the interval after a
\* failed read.
RevokedRejected ==
  [][\A r \in Requests :
       LetThrough(r) =>
         /\ ~heldHere[r]
         /\ committed[token[r]] # NoRow =>
              \/ asOf[r] < committed[token[r]] + Interval
              \/ asOf[r] < lastFailure[at[r]] + Interval]_vars

=============================================================================
