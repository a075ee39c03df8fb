---------------------------- MODULE SessionsProofs ----------------------------
(***************************************************************************)
(* Proofs about tokens and their revocation, for any processes, requests,  *)
(* tokens, time to live, interval, failed statements and restarts.  All    *)
(* processes have one grace period (OneGrace): a restart with a longer one *)
(* revives tokens whose rows were kept for the shorter (README.md).        *)
(*                                                                         *)
(* A row of _revoked_tokens lives until its token could no longer be       *)
(* exchanged (RowInv), so that whoever inserts a second one does it late.  *)
(* What a copy of the table misses is over, is younger than the copy, or   *)
(* was missed by a failed read (CopyInv), and no request goes by a copy    *)
(* that is older than the interval (RequestInv).                           *)
(***************************************************************************)
EXTENDS Sessions, TLAPS

OneGrace == \A g, h \in Graces : g = h

\* The token can no longer be exchanged.
Over(t) == \A n \in Nodes : Passed(expiry[t] + grace[n])

\* Its row was inserted when it could no longer be.
Late(t) == \A n \in Nodes : InsertedLate(t, n)

UnderWay(r) == pc[r] \in {"sync", "contains", "insert", "add", "issue"}

\* A request acts as of a time that is past, for a token that was issued, and
\* once it asked for it, from a copy that was read within the interval.
RequestInv ==
  \A r \in Requests :
    /\ asOf[r] <= now
    /\ UnderWay(r) => token[r] \in Tokens /\ expiry[token[r]] # NotIssued
    /\ pc[r] \in {"contains", "insert", "add", "issue"} => loaded[at[r]]
    /\ pc[r] = "contains" => asOf[r] < loadedAt[at[r]] + Interval
    /\ pc[r] = "issue" => op[r] = "refresh"

\* The row of a revoked token stays until the token is over.
RowInv ==
  \A t \in Tokens :
    /\ row[t] # NoRow => committed[t] # NoRow
    /\ committed[t] # NoRow => expiry[t] # NotIssued
    /\ \A n \in Nodes : row[t] # NoRow => row[t] = expiry[t] + grace[n]
    /\ committed[t] # NoRow /\ row[t] = NoRow => Over(t)

Exchanging(r, t) == pc[r] \in {"add", "issue"} /\ op[r] = "refresh" /\ token[r] = t

\* Two exchanges, done or under way, need a row that was inserted late.
ExchangeInv ==
  \A t \in Tokens :
    /\ exchanges[t] > 0 => committed[t] # NoRow
    /\ exchanges[t] <= 1 \/ Late(t)
    /\ \A r \in Requests : Exchanging(r, t) => exchanges[t] = 0 \/ Late(t)
    /\ \A r, s \in Requests : Exchanging(r, t) /\ Exchanging(s, t) => r = s \/ Late(t)

SpentRequest(r) ==
  /\ pc[r] \in {"add", "issue"} => committed[token[r]] # NoRow
  /\ UnderWay(r) /\ barred[r] => committed[token[r]] # NoRow
  /\ pc[r] \in {"add", "issue"} /\ op[r] = "refresh" /\ barred[r] => Late(token[r])

\* Nothing counts as revoked or spent that had no row, and a request that began
\* with a spent token inserts its row late, if at all.
SpentInv ==
  /\ \A t \in ended : committed[t] # NoRow
  /\ \A n \in Nodes : \A t \in revokedBy[n] : committed[t] # NoRow
  /\ \A r \in Requests : SpentRequest(r)

\* What a process answers from: what it revoked itself is in its copy until it is
\* over; any other row is, unless the copy was read before it was inserted or
\* the last reading failed.
CopyInv ==
  /\ \A n \in Nodes, t \in Tokens :
       /\ loadedAt[n] <= now
       /\ hashes[n][t] # NoRow =>
            committed[t] # NoRow /\ hashes[n][t] = expiry[t] + grace[n]
       /\ t \in revokedBy[n] =>
            loaded[n] /\ (hashes[n][t] # NoRow \/ Passed(expiry[t] + grace[n]))
       /\ loaded[n] /\ committed[t] # NoRow =>
            \/ hashes[n][t] # NoRow
            \/ Passed(expiry[t] + grace[n])
            \/ loadedAt[n] <= committed[t]
            \/ lastFailure[n] = loadedAt[n]
  /\ \A r \in Requests : UnderWay(r) /\ heldHere[r] => token[r] \in revokedBy[at[r]]

SessionsInv == TypeOK /\ RequestInv /\ RowInv /\ ExchangeInv /\ SpentInv /\ CopyInv

-----------------------------------------------------------------------------
(* Types *)

\* The variables of the requests, after one of them took a step or was finished.
RequestsTyped ==
  /\ pc \in [Requests -> Steps]
  /\ op \in [Requests -> Operations]
  /\ at \in [Requests -> Nodes \cup {NoNode}]
  /\ token \in [Requests -> Tokens \cup {NoToken}]
  /\ asOf \in [Requests -> Nat]
  /\ barred \in [Requests -> BOOLEAN]
  /\ heldHere \in [Requests -> BOOLEAN]
  /\ \A r \in Requests : (at[r] = NoNode) <=> (pc[r] \in {"idle", "accepted"})

\* The other variables.
SharedTyped ==
  /\ expiry \in [Tokens -> Nat \cup {NotIssued}]
  /\ row \in [Tokens -> Nat \cup {NoRow}]
  /\ loaded \in [Nodes -> BOOLEAN]
  /\ hashes \in [Nodes -> [Tokens -> Nat \cup {NoRow}]]
  /\ loadedAt \in [Nodes -> Nat]
  /\ grace \in [Nodes -> Graces]
  /\ exchanges \in [Tokens -> Nat]
  /\ ended \in SUBSET Tokens
  /\ revokedBy \in [Nodes -> SUBSET Tokens]
  /\ committed \in [Tokens -> Nat \cup {NoRow}]
  /\ lastFailure \in [Nodes -> Int]
  /\ now \in 0..MaxTime
  /\ faults \in 0..MaxFaults

LEMMA TypeParts ==
  /\ TypeOK => RequestsTyped /\ SharedTyped
  /\ RequestsTyped' /\ SharedTyped' => TypeOK'
  BY DEF TypeOK, RequestsTyped, SharedTyped

LEMMA FinishTyped ==
  ASSUME TypeOK, NEW r \in Requests, NEW step \in {"idle", "accepted"}, FinishAs(r, step)
  PROVE  RequestsTyped'
  BY DEF FinishAs, Goto, TypeOK, RequestsTyped, Steps, Operations

LEMMA GotoTyped ==
  ASSUME TypeOK, NEW r \in Requests, ~Free(r), NEW step \in Steps \ {"idle", "accepted"},
         Goto(r, step), UNCHANGED requestVars
  PROVE  RequestsTyped'
  BY DEF Goto, Free, TypeOK, RequestsTyped, Steps, requestVars

\* What a request under way is made of.
LEMMA UnderWayTyped ==
  ASSUME TypeOK, RequestInv, NEW r \in Requests, UnderWay(r)
  PROVE  /\ ~Free(r)
         /\ at[r] \in Nodes /\ token[r] \in Tokens
         /\ expiry[token[r]] \in Nat /\ grace[at[r]] \in Nat
         /\ RevokedUntil(r) \in Nat /\ RevokedUntil(r) = expiry[token[r]] + grace[at[r]]
<1>1. at[r] \in Nodes /\ ~Free(r)
  BY DEF TypeOK, UnderWay, Free
<1>2. token[r] \in Tokens /\ expiry[token[r]] \in Nat
  BY DEF TypeOK, RequestInv
<1>3. grace[at[r]] \in Nat
  BY <1>1, SessionsAssumption DEF TypeOK
<1> QED
  BY <1>1, <1>2, <1>3 DEF RevokedUntil

LEMMA TypeNext == ASSUME TypeOK, RequestInv, [Next]_vars PROVE TypeOK'
<1> USE SessionsAssumption
<1>1. CASE SignIn
  <2>1. RequestsTyped'
    BY <1>1, TypeParts DEF SignIn, RequestsTyped, requestVars
  <2>2. SharedTyped'
    BY <1>1, TypeParts DEF SignIn, Generate, SharedTyped, NotIssued, copyVars, historyVars
  <2> QED
    BY <2>1, <2>2, TypeParts
<1>2. ASSUME NEW r \in Requests, NEW n \in Nodes, Begin(r, n) PROVE TypeOK'
  <2>1. RequestsTyped'
    BY <1>2 DEF Begin, Goto, Free, TypeOK, RequestsTyped, Steps, Operations
  <2>2. SharedTyped'
    BY <1>2, TypeParts DEF Begin, SharedTyped, copyVars, historyVars
  <2> QED
    BY <2>1, <2>2, TypeParts
<1>3. ASSUME NEW r \in Requests, NEW n \in Nodes, Cleanup(r, n) PROVE TypeOK'
  <2>1. RequestsTyped'
    BY <1>3 DEF Cleanup, Goto, Free, TypeOK, RequestsTyped, Steps, Operations
  <2>2. SharedTyped'
    BY <1>3, TypeParts DEF Cleanup, SharedTyped, copyVars, historyVars
  <2> QED
    BY <2>1, <2>2, TypeParts
<1>4. ASSUME NEW r \in Requests, Sync(r) PROVE TypeOK'
  <2>1. UnderWay(r)
    BY <1>4 DEF Sync, UnderWay
  <2>2. RequestsTyped'
    BY <1>4, <2>1, UnderWayTyped, GotoTyped DEF Sync, Steps
  <2>3. LoadHashes(r) \in [Tokens -> Nat \cup {NoRow}] /\ asOf[r] \in Nat
    BY DEF LoadHashes, TypeOK
  <2>4. hashes' \in [Nodes -> [Tokens -> Nat \cup {NoRow}]]
    BY <1>4, <2>3, TypeParts DEF Sync, SharedTyped, copyVars
  <2>5. /\ loaded' \in [Nodes -> BOOLEAN] /\ loadedAt' \in [Nodes -> Nat]
        /\ lastFailure' \in [Nodes -> Int]
    <3>1. CASE Stale(r)
      <4>1. /\ loaded' = [loaded EXCEPT ![at[r]] = TRUE]
            /\ loadedAt' = [loadedAt EXCEPT ![at[r]] = asOf[r]]
            /\ lastFailure' \in {lastFailure, [lastFailure EXCEPT ![at[r]] = asOf[r]]}
        BY <1>4, <3>1 DEF Sync
      <4>2. asOf[r] \in Int /\ lastFailure \in [Nodes -> Int]
        BY <2>3 DEF TypeOK
      <4>3. lastFailure' \in [Nodes -> Int]
        BY <4>1, <4>2
      <4>4. loaded' \in [Nodes -> BOOLEAN] /\ loadedAt' \in [Nodes -> Nat]
        BY <2>3, <4>1 DEF TypeOK
      <4> QED
        BY <4>3, <4>4
    <3>2. CASE ~Stale(r)
      BY <1>4, <3>2, TypeParts DEF Sync, SharedTyped, copyVars
    <3> QED
      BY <3>1, <3>2
  <2>7. faults' \in 0..MaxFaults
    BY <1>4, TypeParts DEF Sync, Fault, SharedTyped
  <2>6. SharedTyped'
    BY <1>4, <2>4, <2>5, <2>7, TypeParts DEF Sync, SharedTyped, historyVars
  <2> QED
    BY <2>2, <2>6, TypeParts
<1>5. ASSUME NEW r \in Requests, Contains(r) PROVE TypeOK'
  <2>1. UnderWay(r)
    BY <1>5 DEF Contains, UnderWay
  <2>2. RequestsTyped'
    BY <1>5, <2>1, UnderWayTyped, GotoTyped, FinishTyped DEF Contains, Finish, Steps
  <2>3. SharedTyped'
    BY <1>5, <2>1, UnderWayTyped, TypeParts DEF Contains, SharedTyped, copyVars
  <2> QED
    BY <2>2, <2>3, TypeParts
<1>6. ASSUME NEW r \in Requests, Insert(r) PROVE TypeOK'
  <2>1. UnderWay(r)
    BY <1>6 DEF Insert, UnderWay
  <2>2. RequestsTyped'
    BY <1>6, <2>1, UnderWayTyped, GotoTyped DEF Insert, Steps
  <2>3. SharedTyped'
    BY <1>6, <2>1, UnderWayTyped, TypeParts DEF Insert, SharedTyped, copyVars
  <2> QED
    BY <2>2, <2>3, TypeParts
<1>7. ASSUME NEW r \in Requests, InsertFails(r) PROVE TypeOK'
  <2>1. RequestsTyped'
    <3>1. CASE Finish(r)
      BY <3>1, FinishTyped DEF Finish
    <3>2. CASE ~Finish(r)
      <4>1. /\ op' = [op EXCEPT ![r] = "logoutAgain"]
            /\ asOf' = [asOf EXCEPT ![r] = now]
            /\ pc' = [pc EXCEPT ![r] = "sync"]
            /\ UNCHANGED <<at, token, barred, heldHere>>
            /\ pc[r] = "insert"
        BY <1>7, <3>2 DEF InsertFails, Goto
      <4>2. now \in Nat
        BY DEF TypeOK
      <4> QED
        BY <4>1, <4>2, TypeParts DEF RequestsTyped, Steps, Operations
    <3> QED
      BY <3>1, <3>2
  <2>2. SharedTyped'
    BY <1>7, TypeParts DEF InsertFails, Fault, SharedTyped, copyVars, historyVars
  <2> QED
    BY <2>1, <2>2, TypeParts
<1>8. ASSUME NEW r \in Requests, Add(r) PROVE TypeOK'
  <2>1. UnderWay(r)
    BY <1>8 DEF Add, UnderWay
  <2>2. RequestsTyped'
    BY <1>8, <2>1, UnderWayTyped, GotoTyped, FinishTyped DEF Add, Finish, Steps
  <2>3. AddHash(r) \in [Nodes -> [Tokens -> Nat \cup {NoRow}]]
    BY <2>1, UnderWayTyped DEF AddHash, TypeOK
  <2>4. SharedTyped'
    BY <1>8, <2>1, <2>3, UnderWayTyped, TypeParts DEF Add, SharedTyped
  <2> QED
    BY <2>2, <2>4, TypeParts
<1>9. ASSUME NEW r \in Requests, Issue(r) PROVE TypeOK'
  <2>1. UnderWay(r)
    BY <1>9 DEF Issue, UnderWay
  <2>2. RequestsTyped'
    BY <1>9, FinishTyped DEF Issue, Finish
  <2>3. expiry' \in [Tokens -> Nat \cup {NotIssued}]
    BY <1>9, TypeParts DEF Issue, Generate, SharedTyped
  <2>4. exchanges' \in [Tokens -> Nat] /\ ended' \in SUBSET Tokens
    BY <1>9, <2>1, UnderWayTyped, TypeParts DEF Issue, SharedTyped
  <2>5. SharedTyped'
    BY <1>9, <2>3, <2>4, TypeParts DEF Issue, SharedTyped, copyVars
  <2> QED
    BY <2>2, <2>5, TypeParts
<1>10. ASSUME NEW r \in Requests, IssueFails(r) PROVE TypeOK'
  <2>1. RequestsTyped'
    BY <1>10, FinishTyped DEF IssueFails, Finish
  <2>2. SharedTyped'
    BY <1>10, TypeParts DEF IssueFails, SharedTyped, copyVars, historyVars
  <2> QED
    BY <2>1, <2>2, TypeParts
<1>11. ASSUME NEW r \in Requests, Prune(r) PROVE TypeOK'
  <2>1. RequestsTyped'
    BY <1>11, FinishTyped DEF Prune, Finish
  <2>2. at[r] \in Nodes
    BY <1>11 DEF Prune, TypeOK
  <2>3. SharedTyped'
    BY <1>11, <2>2, TypeParts DEF Prune, SharedTyped, historyVars
  <2> QED
    BY <2>1, <2>3, TypeParts
<1>12. ASSUME NEW n \in Nodes, Restart(n) PROVE TypeOK'
  <2>1. RequestsTyped'
    BY <1>12 DEF Restart, TypeOK, RequestsTyped, Steps, Operations
  <2>2. SharedTyped'
    BY <1>12, TypeParts DEF Restart, Fault, SharedTyped, Never
  <2> QED
    BY <2>1, <2>2, TypeParts
<1>13. CASE Tick
  <2>1. RequestsTyped'
    BY <1>13, TypeParts DEF Tick, RequestsTyped, requestVars
  <2>2. SharedTyped'
    BY <1>13, TypeParts DEF Tick, SharedTyped, copyVars, historyVars
  <2> QED
    BY <2>1, <2>2, TypeParts
<1>14. CASE UNCHANGED vars
  BY <1>14, TypeParts DEF vars, RequestsTyped, SharedTyped, requestVars, copyVars, historyVars
<1> QED
  BY <1>1, <1>2, <1>3, <1>4, <1>5, <1>6, <1>7, <1>8, <1>9, <1>10, <1>11, <1>12, <1>13, <1>14
  DEF Next

-----------------------------------------------------------------------------
(* What a step does to a request, to a copy and to the rows *)

Still(r) ==
  /\ pc'[r] = pc[r] /\ op'[r] = op[r] /\ at'[r] = at[r] /\ token'[r] = token[r]
  /\ asOf'[r] = asOf[r] /\ barred'[r] = barred[r] /\ heldHere'[r] = heldHere[r]

GoesOn(r) ==
  \/ Sync(r)
  \/ Contains(r) /\ pc'[r] = "insert"
  \/ Insert(r)
  \/ InsertFails(r) /\ pc'[r] = "sync"
  \/ Add(r) /\ pc'[r] = "issue"

Answered(r) == pc'[r] \in {"idle", "accepted"} /\ asOf'[r] = 0

LEMMA FinishStep ==
  ASSUME TypeOK, NEW s \in Requests, NEW step \in {"idle", "accepted"}, FinishAs(s, step),
         NEW r \in Requests
  PROVE  (r = s /\ Answered(r)) \/ (r # s /\ Still(r))
  BY DEF FinishAs, Goto, TypeOK, Answered, Still

LEMMA GotoStep ==
  ASSUME TypeOK, NEW s \in Requests, NEW step, Goto(s, step), UNCHANGED requestVars,
         NEW r \in Requests \ {s}
  PROVE  Still(r)
  BY DEF Goto, TypeOK, Still, requestVars

LEMMA RequestStep ==
  ASSUME TypeOK, [Next]_vars, NEW r \in Requests
  PROVE  \/ Still(r) \/ Answered(r) \/ GoesOn(r)
         \/ \E n \in Nodes : Begin(r, n) \/ Cleanup(r, n)
<1> USE DEF requestVars
<1>1. CASE SignIn \/ Tick \/ UNCHANGED vars
  BY <1>1 DEF SignIn, Tick, vars, Still
<1>2. ASSUME NEW s \in Requests, NEW n \in Nodes, Begin(s, n) \/ Cleanup(s, n), r # s
      PROVE  Still(r)
  BY <1>2 DEF Begin, Cleanup, Goto, TypeOK, Still
<1>3. ASSUME NEW s \in Requests, Sync(s) \/ Insert(s), r # s PROVE Still(r)
  BY <1>3, GotoStep DEF Sync, Insert
<1>4. ASSUME NEW s \in Requests, Contains(s) PROVE Still(r) \/ Answered(r) \/ GoesOn(r)
  <2>1. CASE Finish(s) \/ FinishAs(s, "accepted")
    BY <2>1, FinishStep DEF Finish
  <2>2. CASE Goto(s, "insert") /\ UNCHANGED requestVars
    <3>1. pc'[s] = "insert"
      BY <2>2 DEF Goto, TypeOK
    <3> QED
      BY <1>4, <2>2, <3>1, GotoStep DEF GoesOn
  <2> QED
    BY <1>4, <2>1, <2>2 DEF Contains
<1>5. ASSUME NEW s \in Requests, InsertFails(s) PROVE Still(r) \/ Answered(r) \/ GoesOn(r)
  <2>1. CASE Finish(s)
    BY <2>1, FinishStep DEF Finish
  <2>2. CASE ~Finish(s)
    <3>1. /\ op' = [op EXCEPT ![s] = "logoutAgain"]
          /\ asOf' = [asOf EXCEPT ![s] = now]
          /\ pc' = [pc EXCEPT ![s] = "sync"]
          /\ UNCHANGED <<at, token, barred, heldHere>>
      BY <1>5, <2>2 DEF InsertFails, Goto
    <3> QED
      BY <1>5, <3>1 DEF GoesOn, Still, TypeOK
  <2> QED
    BY <2>1, <2>2
<1>6. ASSUME NEW s \in Requests, Add(s) PROVE Still(r) \/ Answered(r) \/ GoesOn(r)
  <2>1. CASE Finish(s)
    BY <2>1, FinishStep DEF Finish
  <2>2. CASE Goto(s, "issue") /\ UNCHANGED requestVars
    <3>1. pc'[s] = "issue"
      BY <2>2 DEF Goto, TypeOK
    <3> QED
      BY <1>6, <2>2, <3>1, GotoStep DEF GoesOn
  <2> QED
    BY <1>6, <2>1, <2>2 DEF Add
<1>7. ASSUME NEW s \in Requests, Issue(s) \/ IssueFails(s) \/ Prune(s)
      PROVE  Still(r) \/ Answered(r)
  BY <1>7, FinishStep DEF Issue, IssueFails, Prune, Finish
<1>8. ASSUME NEW n \in Nodes, Restart(n) PROVE Still(r) \/ Answered(r)
  BY <1>8 DEF Restart, Still, Answered, TypeOK
<1> QED
  BY <1>1, <1>2, <1>3, <1>4, <1>5, <1>6, <1>7, <1>8 DEF Next, GoesOn

LEMMA StillSame ==
  ASSUME NEW r \in Requests, Still(r)
  PROVE  UnderWay(r)' <=> UnderWay(r)
  BY DEF Still, UnderWay

\* Time passes, the grace period is the one there is, and an expiry stays.
LEMMA ClockStep ==
  ASSUME OneGrace, TypeOK, TypeOK', [Next]_vars
  PROVE  /\ now \in Nat /\ now' \in Nat /\ now <= now'
         /\ \A m, n \in Nodes : grace'[n] = grace[m] /\ grace[n] = grace[m] /\ grace[n] \in Nat
         /\ \A t \in Tokens : expiry[t] # NotIssued =>
              expiry'[t] = expiry[t] /\ expiry[t] \in Nat
<1>1. now \in Nat /\ now' \in Nat
  BY SessionsAssumption DEF TypeOK
<1>2. \A m, n \in Nodes : grace'[n] = grace[m] /\ grace[n] = grace[m] /\ grace[n] \in Nat
  BY SessionsAssumption DEF TypeOK, OneGrace
<1>3. \A t \in Tokens : expiry[t] # NotIssued => expiry[t] \in Nat
  BY DEF TypeOK
<1>4. \/ UNCHANGED expiry
      \/ \E t \in Tokens : Generate(t)
  BY DEF Next, vars, SignIn, Begin, Cleanup, Sync, Contains, Insert, InsertFails, Add, Issue,
         IssueFails, Prune, Restart, Tick
<1>5. \A t \in Tokens : expiry[t] # NotIssued => expiry'[t] = expiry[t]
  BY <1>4 DEF Generate, TypeOK
<1>6. now <= now'
  <2>1. now' = now \/ now' = now + 1
    BY DEF Next, vars, SignIn, Begin, Cleanup, Sync, Contains, Insert, InsertFails, Add, Issue,
           IssueFails, Prune, Restart, Tick
  <2> QED
    BY <1>1, <2>1
<1> QED
  BY <1>1, <1>2, <1>3, <1>5, <1>6

\* The rows change by an insert and by the cleanup only.
LEMMA RowStep ==
  ASSUME [Next]_vars
  PROVE  \/ UNCHANGED <<row, committed>>
         \/ \E r \in Requests : Insert(r)
         \/ \E r \in Requests, n \in Nodes : Cleanup(r, n)
  BY DEF Next, vars, historyVars, SignIn, Begin, Cleanup, Sync, Contains, InsertFails, Add, Issue,
         IssueFails, Prune, Restart, Tick

SameCopy(n) ==
  /\ loaded'[n] = loaded[n] /\ loadedAt'[n] = loadedAt[n] /\ hashes'[n] = hashes[n]
  /\ lastFailure'[n] = lastFailure[n] /\ revokedBy'[n] = revokedBy[n]

LEMMA CopyStep ==
  ASSUME TypeOK, [Next]_vars, NEW n \in Nodes
  PROVE  \/ SameCopy(n)
         \/ \E r \in Requests : at[r] = n /\ (Sync(r) \/ Add(r) \/ Prune(r))
         \/ Restart(n)
<1>1. ASSUME NEW r \in Requests, Sync(r) \/ Add(r) \/ Prune(r), at[r] # n PROVE SameCopy(n)
  <2>1. CASE Sync(r)
    BY <1>1, <2>1 DEF Sync, SameCopy, copyVars, historyVars, TypeOK
  <2>2. CASE Add(r)
    BY <1>1, <2>2 DEF Add, AddHash, SameCopy, TypeOK
  <2>3. CASE Prune(r)
    BY <1>1, <2>3 DEF Prune, SameCopy, historyVars, TypeOK
  <2> QED
    BY <1>1, <2>1, <2>2, <2>3
<1>2. ASSUME NEW m \in Nodes \ {n}, Restart(m) PROVE SameCopy(n)
  BY <1>2 DEF Restart, SameCopy, TypeOK
<1>3. CASE UNCHANGED <<copyVars, revokedBy>>
  BY <1>3 DEF SameCopy, copyVars
<1>4. \/ \E r \in Requests : Sync(r) \/ Add(r) \/ Prune(r)
      \/ \E m \in Nodes : Restart(m)
      \/ UNCHANGED <<copyVars, revokedBy>>
  BY DEF Next, vars, copyVars, historyVars, SignIn, Begin, Cleanup, Contains, Insert, InsertFails,
         Issue, IssueFails, Tick
<1> QED
  BY <1>1, <1>2, <1>3, <1>4

\* A copy that a request goes by is never forgotten, and not read for an earlier
\* time than before.
LEMMA LoadedStays ==
  ASSUME TypeOK, [Next]_vars, NEW r \in Requests, UnderWay(r), UnderWay(r)', loaded[at[r]],
         at[r] \in Nodes
  PROVE  loaded'[at[r]] /\ loadedAt'[at[r]] >= loadedAt[at[r]]
<1>1. ~Restart(at[r])
  BY DEF Restart, UnderWay
<1>2. loadedAt[at[r]] \in Nat
  BY DEF TypeOK
<1>3. CASE SameCopy(at[r])
  BY <1>2, <1>3 DEF SameCopy
<1>4. ASSUME NEW s \in Requests, at[s] = at[r], Sync(s)
      PROVE  loaded'[at[r]] /\ loadedAt'[at[r]] >= loadedAt[at[r]]
  <2>1. CASE Stale(s)
    <3>1. asOf[s] - loadedAt[at[r]] >= Interval /\ asOf[s] \in Nat
      BY <1>4, <2>1 DEF Stale, TypeOK
    <3>2. loaded'[at[r]] /\ loadedAt'[at[r]] = asOf[s]
      BY <1>4, <2>1 DEF Sync, TypeOK
    <3> QED
      BY <1>2, <3>1, <3>2, SessionsAssumption
  <2>2. CASE ~Stale(s)
    BY <1>2, <1>4, <2>2 DEF Sync, copyVars
  <2> QED
    BY <2>1, <2>2
<1>5. ASSUME NEW s \in Requests, Add(s) \/ Prune(s)
      PROVE  loaded'[at[r]] /\ loadedAt'[at[r]] >= loadedAt[at[r]]
  BY <1>2, <1>5 DEF Add, Prune
<1> QED
  BY <1>1, <1>3, <1>4, <1>5, CopyStep

-----------------------------------------------------------------------------
(* The invariant, conjunct by conjunct *)

LEMMA RequestNext ==
  ASSUME OneGrace, TypeOK, TypeOK', RequestInv, [Next]_vars
  PROVE  RequestInv'
<1> SUFFICES ASSUME NEW r \in Requests
             PROVE  /\ asOf'[r] <= now'
                    /\ UnderWay(r)' => token'[r] \in Tokens /\ expiry'[token'[r]] # NotIssued
                    /\ pc'[r] \in {"contains", "insert", "add", "issue"} => loaded'[at'[r]]
                    /\ pc'[r] = "contains" => asOf'[r] < loadedAt'[at'[r]] + Interval
                    /\ pc'[r] = "issue" => op'[r] = "refresh"
  BY DEF RequestInv
<1>1. /\ now \in Nat /\ now' \in Nat /\ now <= now' /\ asOf[r] \in Nat /\ asOf[r] <= now
      /\ \A t \in Tokens : expiry[t] # NotIssued => expiry'[t] = expiry[t]
  BY ClockStep DEF TypeOK, RequestInv
<1>2. CASE Answered(r)
  BY <1>1, <1>2 DEF Answered, UnderWay
<1>3. CASE \E n \in Nodes : Begin(r, n) \/ Cleanup(r, n)
  BY <1>1, <1>3 DEF Begin, Cleanup, Goto, TypeOK, UnderWay
<1>4. CASE Still(r)
  <2>1. CASE UnderWay(r)
    <3>1. UnderWay(r)' /\ at[r] \in Nodes
      BY <1>4, <2>1, StillSame, UnderWayTyped
    <3>2. loaded[at[r]] => loaded'[at[r]] /\ loadedAt'[at[r]] >= loadedAt[at[r]]
      BY <2>1, <3>1, LoadedStays
    <3>3. loadedAt[at[r]] \in Nat /\ loadedAt'[at[r]] \in Nat
      BY <3>1 DEF TypeOK
    <3> QED
      BY <1>1, <1>4, <3>2, <3>3, SessionsAssumption DEF Still, RequestInv, UnderWay
  <2>2. CASE ~UnderWay(r)
    BY <1>1, <1>4, <2>2 DEF Still, RequestInv, UnderWay
  <2> QED
    BY <2>1, <2>2
<1>5. CASE GoesOn(r)
  <2>1. UnderWay(r) /\ at[r] \in Nodes /\ token[r] \in Tokens /\ expiry[token[r]] # NotIssued
    <3>1. UnderWay(r)
      BY <1>5 DEF GoesOn, Sync, Contains, Insert, InsertFails, Add, UnderWay
    <3> QED
      BY <3>1, UnderWayTyped DEF RequestInv
  <2>2. at'[r] = at[r] /\ token'[r] = token[r]
    BY <1>5 DEF GoesOn, Sync, Contains, Insert, InsertFails, Add, Finish, FinishAs, Goto,
                requestVars, TypeOK
  <2>3. asOf'[r] \in {asOf[r], now}
    BY <1>5, <2>1 DEF GoesOn, Sync, Contains, Insert, InsertFails, Add, Finish, FinishAs, Goto,
                requestVars, TypeOK
  <2>4. UnderWay(r)'
    BY <1>5 DEF GoesOn, Sync, Insert, Goto, UnderWay, TypeOK
  <2>5. loaded[at[r]] => loaded'[at[r]]
    BY <2>1, <2>4, LoadedStays
  <2>6. CASE Sync(r)
    <3>1. pc'[r] = "contains" /\ asOf'[r] = asOf[r]
      BY <2>6 DEF Sync, Goto, requestVars, TypeOK
    <3>2. loaded'[at[r]] /\ asOf[r] < loadedAt'[at[r]] + Interval
      <4>1. CASE Stale(r)
        <5>1. loaded'[at[r]] /\ loadedAt'[at[r]] = asOf[r]
          BY <2>1, <2>6, <4>1 DEF Sync, TypeOK
        <5> QED
          BY <1>1, <5>1, SessionsAssumption
      <4>2. CASE ~Stale(r)
        <5>1. loaded[at[r]] /\ ~(asOf[r] - loadedAt[at[r]] >= Interval)
          BY <4>2 DEF Stale
        <5>2. loadedAt[at[r]] \in Nat
          BY <2>1 DEF TypeOK
        <5>3. loaded' = loaded /\ loadedAt' = loadedAt
          BY <2>6, <4>2 DEF Sync, copyVars
        <5> QED
          BY <1>1, <5>1, <5>2, <5>3, SessionsAssumption
      <4> QED
        BY <4>1, <4>2
    <3> QED
      BY <1>1, <2>1, <2>2, <3>1, <3>2
  <2>7. CASE ~Sync(r)
    <3>1. \/ pc'[r] \in {"insert", "add"} /\ pc[r] \in {"contains", "insert"}
          \/ pc'[r] = "sync"
          \/ pc'[r] = "issue" /\ pc[r] = "add" /\ op'[r] = "refresh"
      <4>1. CASE Contains(r) /\ pc'[r] = "insert"
        BY <4>1 DEF Contains
      <4>2. CASE Insert(r)
        BY <4>2 DEF Insert, Goto, TypeOK
      <4>3. CASE InsertFails(r) /\ pc'[r] = "sync"
        BY <4>3
      <4>4. CASE Add(r) /\ pc'[r] = "issue"
        BY <4>4 DEF Add, Finish, FinishAs, Goto, requestVars, TypeOK
      <4> QED
        BY <1>5, <2>7, <4>1, <4>2, <4>3, <4>4 DEF GoesOn
    <3>2. pc[r] \in {"contains", "insert", "add", "issue"} => loaded[at[r]]
      BY DEF RequestInv
    <3> QED
      BY <1>1, <2>1, <2>2, <2>3, <2>5, <3>1, <3>2
  <2> QED
    BY <2>6, <2>7
<1> QED
  BY <1>2, <1>3, <1>4, <1>5, RequestStep

LEMMA OverStays ==
  ASSUME OneGrace, TypeOK, TypeOK', [Next]_vars, NEW t \in Tokens, expiry[t] # NotIssued, Over(t)
  PROVE  Over(t)'
<1>1. /\ now \in Nat /\ now' \in Nat /\ now <= now'
      /\ expiry'[t] = expiry[t] /\ expiry[t] \in Nat
      /\ \A n \in Nodes : grace'[n] = grace[n] /\ grace[n] \in Nat
  BY ClockStep
<1> QED
  BY <1>1 DEF Over, Passed

LEMMA RowNext ==
  ASSUME OneGrace, TypeOK, TypeOK', RequestInv, RowInv, [Next]_vars
  PROVE  RowInv'
<1> SUFFICES ASSUME NEW t \in Tokens
             PROVE  /\ row'[t] # NoRow => committed'[t] # NoRow
                    /\ committed'[t] # NoRow => expiry'[t] # NotIssued
                    /\ \A n \in Nodes : row'[t] # NoRow => row'[t] = expiry'[t] + grace'[n]
                    /\ committed'[t] # NoRow /\ row'[t] = NoRow => Over(t)'
  BY DEF RowInv
<1>1. /\ now \in Nat
      /\ \A m, n \in Nodes : grace'[n] = grace[m] /\ grace[n] = grace[m] /\ grace[n] \in Nat
      /\ expiry[t] # NotIssued => expiry'[t] = expiry[t] /\ expiry[t] \in Nat
  BY ClockStep
<1>2. expiry[t] # NotIssued /\ Over(t) => Over(t)'
  BY OverStays
<1>3. /\ row[t] # NoRow => committed[t] # NoRow
      /\ committed[t] # NoRow => expiry[t] # NotIssued
      /\ \A n \in Nodes : row[t] # NoRow => row[t] = expiry[t] + grace[n]
      /\ committed[t] # NoRow /\ row[t] = NoRow => Over(t)
  BY DEF RowInv
<1>4. CASE row'[t] = row[t] /\ committed'[t] = committed[t]
  BY <1>1, <1>2, <1>3, <1>4
<1>5. ASSUME NEW r \in Requests, Insert(r), token[r] = t
      PROVE  /\ row'[t] # NoRow /\ committed'[t] # NoRow /\ expiry[t] # NotIssued
             /\ \A n \in Nodes : row'[t] = expiry[t] + grace[n]
  <2>1. /\ at[r] \in Nodes /\ RevokedUntil(r) \in Nat
        /\ RevokedUntil(r) = expiry[t] + grace[at[r]] /\ expiry[t] \in Nat
    BY <1>5, UnderWayTyped DEF Insert, UnderWay
  <2>2. row'[t] = RevokedUntil(r) /\ committed'[t] = now
    BY <1>5 DEF Insert, TypeOK
  <2> QED
    BY <1>1, <2>1, <2>2 DEF NoRow, NotIssued
<1>6. ASSUME NEW r \in Requests, Insert(r), token[r] # t
      PROVE  row'[t] = row[t] /\ committed'[t] = committed[t]
  BY <1>6 DEF Insert, TypeOK
<1>7. ASSUME NEW r \in Requests, NEW n \in Nodes, Cleanup(r, n)
      PROVE  /\ committed'[t] = committed[t]
             /\ row'[t] = row[t] \/ (row'[t] = NoRow /\ Passed(row[t]))
  BY <1>7 DEF Cleanup, historyVars
<1>8. ASSUME committed'[t] = committed[t], row[t] # NoRow, row'[t] = NoRow, Passed(row[t])
      PROVE  expiry[t] # NotIssued /\ Over(t)
  BY <1>3, <1>8 DEF Over, Passed
<1> QED
  BY <1>1, <1>2, <1>3, <1>4, <1>5, <1>6, <1>7, <1>8, RowStep

\* What was inserted stays known, and only a token that is over is inserted again.
LEMMA CommittedStays ==
  ASSUME OneGrace, TypeOK, TypeOK', RequestInv, RowInv, [Next]_vars, NEW t \in Tokens,
         committed[t] # NoRow
  PROVE  /\ committed'[t] # NoRow /\ committed'[t] \in Nat
         /\ Late(t) => Late(t)'
         /\ committed'[t] = committed[t] \/ (Over(t) /\ Late(t)')
<1>1. /\ now \in Nat
      /\ \A n \in Nodes : grace'[n] = grace[n] /\ grace[n] \in Nat
      /\ expiry'[t] = expiry[t] /\ expiry[t] \in Nat
  BY ClockStep DEF RowInv
<1>2. committed[t] \in Nat
  BY DEF TypeOK
<1>3. CASE committed'[t] = committed[t]
  BY <1>1, <1>2, <1>3 DEF Late, InsertedLate
<1>4. ASSUME NEW r \in Requests, Insert(r), token[r] = t
      PROVE  Over(t) /\ Late(t)' /\ committed'[t] = now
  <2>1. Over(t)
    BY <1>4 DEF Insert, RowInv
  <2>2. committed'[t] = now
    BY <1>4 DEF Insert, TypeOK
  <2> QED
    BY <1>1, <2>1, <2>2 DEF Over, Passed, Late, InsertedLate
<1>5. ASSUME NEW r \in Requests, Insert(r), token[r] # t PROVE committed'[t] = committed[t]
  BY <1>5 DEF Insert, TypeOK
<1>6. ASSUME NEW r \in Requests, NEW n \in Nodes, Cleanup(r, n)
      PROVE  committed'[t] = committed[t]
  BY <1>6 DEF Cleanup, historyVars
<1> QED
  BY <1>1, <1>2, <1>3, <1>4, <1>5, <1>6, RowStep DEF NoRow

\* An exchange begins with the insert, and is counted when it ends.
LEMMA ExchangeStep ==
  ASSUME TypeOK, RequestInv, [Next]_vars, NEW r \in Requests, NEW t \in Tokens, Exchanging(r, t)'
  PROVE  Exchanging(r, t) \/ (Insert(r) /\ token[r] = t)
<1>1. CASE Still(r)
  BY <1>1 DEF Still, Exchanging
<1>2. CASE Answered(r)
  BY <1>2 DEF Answered, Exchanging
<1>3. CASE \E n \in Nodes : Begin(r, n) \/ Cleanup(r, n)
  BY <1>3 DEF Begin, Cleanup, Goto, TypeOK, Exchanging
<1>4. CASE Insert(r)
  BY <1>4 DEF Insert, requestVars, Exchanging
<1>5. CASE Add(r) /\ pc'[r] = "issue"
  BY <1>5 DEF Add, Finish, FinishAs, Goto, requestVars, TypeOK, Exchanging
<1>6. CASE Sync(r) \/ (Contains(r) /\ pc'[r] = "insert") \/ (InsertFails(r) /\ pc'[r] = "sync")
  BY <1>6 DEF Sync, Goto, TypeOK, Exchanging
<1> QED
  BY <1>1, <1>2, <1>3, <1>4, <1>5, <1>6, RequestStep DEF GoesOn

LEMMA CountStep ==
  ASSUME TypeOK, RequestInv, [Next]_vars, NEW t \in Tokens
  PROVE  \/ exchanges'[t] = exchanges[t]
         \/ \E r \in Requests : /\ Exchanging(r, t) /\ ~Exchanging(r, t)'
                                /\ exchanges'[t] = exchanges[t] + 1
<1>1. ASSUME NEW r \in Requests, Issue(r)
      PROVE  \/ exchanges'[t] = exchanges[t]
             \/ Exchanging(r, t) /\ ~Exchanging(r, t)' /\ exchanges'[t] = exchanges[t] + 1
  <2>1. pc'[r] = "idle" /\ pc[r] = "issue" /\ op[r] = "refresh"
    BY <1>1 DEF Issue, Finish, FinishAs, Goto, TypeOK, RequestInv
  <2>2. exchanges' = [exchanges EXCEPT ![token[r]] = @ + 1]
    BY <1>1 DEF Issue
  <2> QED
    BY <2>1, <2>2 DEF Exchanging, TypeOK
<1>2. (\E r \in Requests : Issue(r)) \/ UNCHANGED exchanges
  BY DEF Next, vars, historyVars, SignIn, Begin, Cleanup, Sync, Contains, Insert, InsertFails, Add,
         IssueFails, Prune, Restart, Tick
<1> QED
  BY <1>1, <1>2

LEMMA SecondInsertIsLate ==
  ASSUME OneGrace, TypeOK, TypeOK', RequestInv, RowInv, [Next]_vars,
         NEW r \in Requests, Insert(r), NEW t \in Tokens, token[r] = t, committed[t] # NoRow
  PROVE  Late(t)'
<1>1. /\ \A n \in Nodes : grace'[n] = grace[n] /\ grace[n] \in Nat
      /\ expiry'[t] = expiry[t] /\ expiry[t] \in Nat
  BY ClockStep DEF RowInv
<1>2. committed'[t] = now
  BY DEF Insert, TypeOK
<1>3. Over(t)
  BY DEF Insert, RowInv
<1> QED
  BY <1>1, <1>2, <1>3 DEF Late, InsertedLate, Over, Passed

LEMMA ExchangeNext ==
  ASSUME OneGrace, TypeOK, TypeOK', RequestInv, RowInv, SpentInv, ExchangeInv, [Next]_vars
  PROVE  ExchangeInv'
<1> SUFFICES ASSUME NEW t \in Tokens
             PROVE  /\ exchanges'[t] > 0 => committed'[t] # NoRow
                    /\ exchanges'[t] <= 1 \/ Late(t)'
                    /\ \A r \in Requests : Exchanging(r, t)' => exchanges'[t] = 0 \/ Late(t)'
                    /\ \A r, s \in Requests :
                         Exchanging(r, t)' /\ Exchanging(s, t)' => r = s \/ Late(t)'
  BY DEF ExchangeInv
<1>1. /\ exchanges[t] > 0 => committed[t] # NoRow
      /\ exchanges[t] <= 1 \/ Late(t)
      /\ \A r \in Requests : Exchanging(r, t) => exchanges[t] = 0 \/ Late(t)
      /\ \A r, s \in Requests : Exchanging(r, t) /\ Exchanging(s, t) => r = s \/ Late(t)
      /\ exchanges[t] \in Nat
  BY DEF ExchangeInv, TypeOK
<1>2. \A r \in Requests : Exchanging(r, t) => committed[t] # NoRow
  BY DEF SpentInv, SpentRequest, Exchanging
<1>3. committed[t] # NoRow => committed'[t] # NoRow /\ (Late(t) => Late(t)')
  BY CommittedStays
<1>4. \A r \in Requests : Exchanging(r, t)' => \/ Exchanging(r, t)
                                               \/ committed[t] = NoRow /\ Insert(r)
                                               \/ Late(t)'
  <2> SUFFICES ASSUME NEW r \in Requests, Insert(r), token[r] = t, committed[t] # NoRow
               PROVE  Late(t)'
    BY ExchangeStep
  <2> QED
    BY SecondInsertIsLate
<1>5. \A r, s \in Requests : Insert(r) /\ Insert(s) => r = s
  BY DEF Insert, Goto, TypeOK
<1>6. CASE exchanges'[t] = exchanges[t]
  BY <1>1, <1>2, <1>3, <1>4, <1>5, <1>6
<1>7. CASE \E r \in Requests : /\ Exchanging(r, t) /\ ~Exchanging(r, t)'
                               /\ exchanges'[t] = exchanges[t] + 1
  BY <1>1, <1>2, <1>3, <1>4, <1>7
<1> QED
  BY <1>6, <1>7, CountStep

LEMMA LateRequest ==
  ASSUME NEW r \in Requests, NEW t \in Tokens, token'[r] = t, Late(t)'
  PROVE  Late(token[r])'
  BY DEF Late, InsertedLate

LEMMA SpentNext ==
  ASSUME OneGrace, TypeOK, TypeOK', RequestInv, RowInv, SpentInv, CopyInv, [Next]_vars
  PROVE  SpentInv'
<1>0. \A t \in Tokens : committed[t] # NoRow => committed'[t] # NoRow /\ (Late(t) => Late(t)')
  BY CommittedStays
<1>1. \A t \in ended' : committed'[t] # NoRow
  <2>1. ended' \subseteq Tokens /\ ended \subseteq Tokens
    BY DEF TypeOK
  <2>2. ASSUME NEW r \in Requests, Contains(r), NEW t \in ended' \ ended
        PROVE  t \in Tokens /\ committed[t] # NoRow
    <3>1. IsRevoked(r) /\ t = token[r]
      BY <2>2 DEF Contains
    <3>2. at[r] \in Nodes /\ token[r] \in Tokens
      BY <2>2, UnderWayTyped DEF Contains, UnderWay
    <3>3. asOf[r] \in Nat /\ hashes[at[r]][t] > asOf[r]
      BY <3>1 DEF IsRevoked, TypeOK
    <3> QED
      BY <3>1, <3>2, <3>3 DEF CopyInv, NoRow
  <2>3. ASSUME NEW r \in Requests, Add(r) \/ Issue(r), NEW t \in ended' \ ended
        PROVE  t \in Tokens /\ committed[t] # NoRow
    BY <2>1, <2>3 DEF Add, Issue, SpentInv, SpentRequest
  <2>4. (\E r \in Requests : Contains(r) \/ Add(r) \/ Issue(r)) \/ UNCHANGED ended
    BY DEF Next, vars, historyVars, SignIn, Begin, Cleanup, Sync, Insert, InsertFails,
           IssueFails, Prune, Restart, Tick
  <2> QED
    BY <1>0, <2>1, <2>2, <2>3, <2>4 DEF SpentInv
<1>2. ASSUME NEW n \in Nodes, NEW t \in revokedBy'[n] PROVE committed'[t] # NoRow
  <2>1. t \in Tokens
    BY DEF TypeOK
  <2>2. t \in revokedBy[n] \/ (\E r \in Requests : Add(r) /\ token[r] = t)
    <3>1. ASSUME NEW r \in Requests, Add(r) PROVE t \in revokedBy[n] \/ token[r] = t
      BY <3>1, <1>2 DEF Add, TypeOK
    <3>2. ASSUME NEW r \in Requests, Sync(r) \/ Prune(r) PROVE t \in revokedBy[n]
      BY <3>2, <1>2 DEF Sync, Prune, historyVars
    <3>3. ~Restart(n)
      BY <1>2 DEF Restart, TypeOK
    <3> QED
      BY <1>2, <3>1, <3>2, <3>3, CopyStep DEF SameCopy
  <2> QED
    BY <1>0, <2>1, <2>2 DEF SpentInv, SpentRequest, Add
<1>3. ASSUME NEW r \in Requests
      PROVE  SpentRequest(r)'
  <2>1. CASE Answered(r)
    BY <2>1 DEF Answered, UnderWay, SpentRequest
  <2>2. CASE \E n \in Nodes : Cleanup(r, n)
    BY <2>2 DEF Cleanup, Goto, TypeOK, UnderWay, SpentRequest
  <2>3. ASSUME NEW n \in Nodes, Begin(r, n)
        PROVE  SpentRequest(r)'
    <3>1. PICK t \in Tokens : /\ token' = [token EXCEPT ![r] = t]
                              /\ barred' = [barred EXCEPT ![r] = t \in ended]
                              /\ Goto(r, "sync")
      BY <2>3 DEF Begin
    <3>2. token'[r] = t /\ barred'[r] = (t \in ended) /\ pc'[r] = "sync"
      BY <3>1 DEF TypeOK, Goto
    <3> QED
      BY <1>0, <3>2 DEF SpentInv, SpentRequest
  <2>4. ASSUME UnderWay(r), token'[r] = token[r], barred'[r] = barred[r],
               pc'[r] \in {"add", "issue"} => pc[r] \in {"add", "issue"} /\ op'[r] = op[r]
        PROVE  SpentRequest(r)'
    <3>1. PICK t \in Tokens : token[r] = t /\ token'[r] = t
      BY <2>4, UnderWayTyped
    <3>2. /\ pc[r] \in {"add", "issue"} => committed[t] # NoRow
          /\ barred[r] => committed[t] # NoRow
          /\ pc[r] \in {"add", "issue"} /\ op[r] = "refresh" /\ barred[r] => Late(t)
      BY <2>4, <3>1 DEF SpentInv, SpentRequest
    <3> QED
      BY <2>4, <3>1, <3>2, <1>0, LateRequest DEF SpentRequest
  <2>5. CASE Still(r)
    <3>1. CASE UnderWay(r)
      BY <2>4, <2>5, <3>1 DEF Still
    <3>2. CASE ~UnderWay(r)
      BY <2>5, <3>2 DEF Still, UnderWay, SpentRequest
    <3> QED
      BY <3>1, <3>2
  <2>6. CASE Insert(r)
    <3>1. token' = token /\ barred' = barred /\ op' = op
      BY <2>6 DEF Insert, requestVars
    <3>2. token[r] \in Tokens /\ committed'[token[r]] = now /\ now \in Nat
      BY <2>6, UnderWayTyped, SessionsAssumption DEF Insert, UnderWay, TypeOK
    <3>3. PICK t \in Tokens : token[r] = t /\ token'[r] = t
      BY <3>1, <3>2
    <3>4. barred[r] => committed[t] # NoRow
      BY <2>6, <3>3 DEF SpentInv, SpentRequest, Insert, UnderWay
    <3>5. barred[r] => Late(t)'
      BY <2>6, <3>3, <3>4, SecondInsertIsLate
    <3> QED
      BY <3>1, <3>2, <3>3, <3>5, LateRequest DEF NoRow, SpentRequest
  <2>7. CASE GoesOn(r) /\ ~Insert(r)
    <3>1. UnderWay(r) /\ token'[r] = token[r] /\ barred'[r] = barred[r]
      BY <2>7 DEF GoesOn, Sync, Contains, InsertFails, Add, Finish, FinishAs, Goto,
                  requestVars, TypeOK, UnderWay
    <3>2. pc'[r] \in {"add", "issue"} => pc[r] \in {"add", "issue"} /\ op'[r] = op[r]
      BY <2>7 DEF GoesOn, Sync, Add, Finish, FinishAs, Goto, requestVars, TypeOK
    <3> QED
      BY <2>4, <3>1, <3>2
  <2> QED
    BY <2>1, <2>2, <2>3, <2>5, <2>6, <2>7, RequestStep
<1> QED
  BY <1>1, <1>2, <1>3 DEF SpentInv

\* A token is inserted now or not at all.
LEMMA InsertedNow ==
  ASSUME TypeOK, [Next]_vars, NEW t \in Tokens
  PROVE  committed'[t] = committed[t] \/ (committed'[t] = now /\ UNCHANGED copyVars)
<1>1. ASSUME NEW r \in Requests, Insert(r)
      PROVE  committed'[t] = committed[t] \/ (committed'[t] = now /\ UNCHANGED copyVars)
  BY <1>1 DEF Insert, TypeOK
<1>2. ASSUME NEW r \in Requests, NEW n \in Nodes, Cleanup(r, n)
      PROVE  committed'[t] = committed[t]
  BY <1>2 DEF Cleanup, historyVars
<1> QED
  BY <1>1, <1>2, RowStep

\* What CopyInv says of one process and one token.
CopyOf(n, t) ==
  /\ hashes[n][t] # NoRow =>
       committed[t] # NoRow /\ hashes[n][t] = expiry[t] + grace[n]
  /\ t \in revokedBy[n] =>
       loaded[n] /\ (hashes[n][t] # NoRow \/ Passed(expiry[t] + grace[n]))
  /\ loaded[n] /\ committed[t] # NoRow =>
       \/ hashes[n][t] # NoRow
       \/ Passed(expiry[t] + grace[n])
       \/ loadedAt[n] <= committed[t]
       \/ lastFailure[n] = loadedAt[n]

LEMMA CopyNext ==
  ASSUME OneGrace, TypeOK, TypeOK', RequestInv, RowInv, SpentInv, CopyInv, [Next]_vars,
         NEW n \in Nodes, NEW t \in Tokens
  PROVE  loadedAt'[n] <= now' /\ CopyOf(n, t)'
<1>1. /\ now \in Nat /\ now' \in Nat /\ now <= now'
      /\ grace'[n] = grace[n] /\ grace[n] \in Nat
      /\ expiry[t] # NotIssued => expiry'[t] = expiry[t] /\ expiry[t] \in Nat
      /\ loadedAt[n] \in Nat /\ loadedAt[n] <= now
  BY ClockStep DEF TypeOK, CopyInv
<1>2. /\ committed[t] # NoRow =>
           /\ expiry[t] # NotIssued /\ committed'[t] # NoRow
           /\ committed'[t] = committed[t] \/ Passed(expiry[t] + grace[n])
      /\ committed'[t] = committed[t] \/ (committed'[t] = now /\ UNCHANGED copyVars)
  BY CommittedStays, InsertedNow DEF RowInv, Over
<1>3. expiry[t] # NotIssued /\ Passed(expiry[t] + grace[n]) => Passed(expiry[t] + grace[n])'
  BY <1>1 DEF Passed
<1>4. CopyOf(n, t)
  BY DEF CopyInv, CopyOf
<1>5. t \in revokedBy[n] => committed[t] # NoRow
  BY DEF SpentInv
<1>6. CASE SameCopy(n)
  <2>1. /\ loaded'[n] = loaded[n] /\ loadedAt'[n] = loadedAt[n]
        /\ hashes'[n][t] = hashes[n][t] /\ lastFailure'[n] = lastFailure[n]
        /\ t \in revokedBy'[n] <=> t \in revokedBy[n]
    BY <1>6 DEF SameCopy
  <2> QED
    BY <1>1, <1>2, <1>3, <1>4, <1>5, <2>1 DEF CopyOf
<1>7. ASSUME NEW r \in Requests, at[r] = n, Sync(r)
      PROVE  loadedAt'[n] <= now' /\ CopyOf(n, t)'
  <2>1. asOf[r] \in Nat /\ asOf[r] <= now
    BY DEF TypeOK, RequestInv
  <2>2. revokedBy' = revokedBy /\ row' = row /\ committed' = committed
    BY <1>7 DEF Sync, historyVars
  <2>3. CASE ~Stale(r)
    BY <1>6, <1>7, <2>2, <2>3 DEF Sync, SameCopy, copyVars
  <2>4. CASE Stale(r)
    <3>1. loaded'[n] = TRUE /\ loadedAt'[n] = asOf[r]
      BY <1>7, <2>4 DEF Sync, TypeOK
    <3>2. CASE hashes' = [hashes EXCEPT ![n] = LoadHashes(r)]
      <4>1. hashes'[n][t] = IF row[t] > asOf[r] THEN row[t] ELSE NoRow
        BY <3>2 DEF LoadHashes, TypeOK
      <4>2. /\ row[t] # NoRow => committed[t] # NoRow /\ row[t] = expiry[t] + grace[n]
            /\ committed[t] # NoRow /\ row[t] = NoRow => Passed(expiry[t] + grace[n])
        BY DEF RowInv, Over
      <4>3. row[t] \in Nat \/ row[t] = NoRow
        BY DEF TypeOK
      <4>4. committed[t] # NoRow /\ ~(row[t] > asOf[r]) => Passed(expiry[t] + grace[n])
        BY <1>1, <1>2, <2>1, <4>2, <4>3 DEF Passed
      <4>5. hashes'[n][t] # NoRow =>
              committed[t] # NoRow /\ hashes'[n][t] = expiry'[t] + grace'[n]
        BY <1>1, <1>2, <4>1, <4>2
      <4>6. hashes'[n][t] # NoRow \/ ~(row[t] > asOf[r])
        BY <2>1, <4>1, <4>3 DEF NoRow
      <4> QED
        BY <1>1, <1>2, <1>3, <1>5, <2>1, <2>2, <3>1, <4>4, <4>5, <4>6 DEF CopyOf
    <3>3. CASE UNCHANGED hashes /\ lastFailure' = [lastFailure EXCEPT ![n] = asOf[r]]
      <4>1. hashes'[n][t] = hashes[n][t] /\ lastFailure'[n] = asOf[r]
        BY <3>3 DEF TypeOK
      <4> QED
        BY <1>1, <1>2, <1>3, <1>4, <1>5, <2>1, <2>2, <3>1, <4>1 DEF CopyOf
    <3> QED
      BY <1>7, <2>4, <3>2, <3>3 DEF Sync
  <2> QED
    BY <2>3, <2>4
<1>8. ASSUME NEW r \in Requests, at[r] = n, Add(r)
      PROVE  loadedAt'[n] <= now' /\ CopyOf(n, t)'
  <2>1. /\ loaded[n] /\ token[r] \in Tokens /\ RevokedUntil(r) \in Nat
        /\ RevokedUntil(r) = expiry[token[r]] + grace[n] /\ committed[token[r]] # NoRow
    BY <1>8, UnderWayTyped DEF Add, RequestInv, SpentInv, SpentRequest, UnderWay
  <2>2. /\ loaded' = loaded /\ loadedAt' = loadedAt /\ lastFailure' = lastFailure
        /\ committed' = committed /\ revokedBy'[n] = revokedBy[n] \cup {token[r]}
    BY <1>8 DEF Add, TypeOK
  <2>3. hashes' = [hashes EXCEPT ![n][token[r]] = RevokedUntil(r)]
    BY <1>8, <2>1 DEF Add, AddHash
  <2>4. CASE token[r] = t
    <3>1. hashes'[n][t] = expiry[t] + grace[n] /\ hashes'[n][t] \in Nat
      BY <2>1, <2>3, <2>4 DEF TypeOK
    <3> QED
      BY <1>1, <1>2, <2>1, <2>2, <2>4, <3>1 DEF CopyOf, NoRow
  <2>5. CASE token[r] # t
    <3>1. hashes'[n][t] = hashes[n][t] /\ (t \in revokedBy'[n] <=> t \in revokedBy[n])
      BY <2>1, <2>2, <2>3, <2>5 DEF TypeOK
    <3> QED
      BY <1>1, <1>2, <1>3, <1>4, <1>5, <2>2, <3>1 DEF CopyOf
  <2> QED
    BY <2>4, <2>5
<1>9. ASSUME NEW r \in Requests, at[r] = n, Prune(r)
      PROVE  loadedAt'[n] <= now' /\ CopyOf(n, t)'
  <2>1. asOf[r] \in Nat /\ asOf[r] <= now
    BY DEF TypeOK, RequestInv
  <2>2. /\ loaded' = loaded /\ loadedAt' = loadedAt /\ lastFailure' = lastFailure
        /\ committed' = committed /\ revokedBy' = revokedBy
    BY <1>9 DEF Prune, historyVars
  <2>3. hashes'[n][t] = IF hashes[n][t] > asOf[r] THEN hashes[n][t] ELSE NoRow
    BY <1>9 DEF Prune, TypeOK
  <2>4. hashes[n][t] \in Nat \/ hashes[n][t] = NoRow
    BY DEF TypeOK
  <2>5. hashes[n][t] # NoRow /\ hashes'[n][t] = NoRow => Passed(expiry[t] + grace[n])
    BY <1>1, <1>2, <1>4, <2>1, <2>3, <2>4 DEF CopyOf, Passed
  <2>6. hashes'[n][t] \in {hashes[n][t], NoRow}
    BY <2>3
  <2> QED
    BY <1>1, <1>2, <1>3, <1>4, <1>5, <2>2, <2>5, <2>6 DEF CopyOf
<1>10. CASE Restart(n)
  <2>1. /\ loaded'[n] = FALSE /\ hashes'[n][t] = NoRow /\ loadedAt'[n] = 0
        /\ revokedBy'[n] = {}
    BY <1>10 DEF Restart, TypeOK
  <2> QED
    BY <1>1, <2>1 DEF CopyOf
<1> QED
  BY <1>6, <1>7, <1>8, <1>9, <1>10, CopyStep

LEMMA HeldNext ==
  ASSUME TypeOK, TypeOK', RequestInv, CopyInv, [Next]_vars, NEW r \in Requests,
         UnderWay(r)', heldHere'[r]
  PROVE  token'[r] \in revokedBy'[at'[r]]
<1>1. CASE Answered(r)
  BY <1>1 DEF Answered, UnderWay
<1>2. ASSUME NEW n \in Nodes, Begin(r, n) PROVE token'[r] \in revokedBy'[at'[r]]
  <2>1. PICK t \in Tokens : /\ token' = [token EXCEPT ![r] = t]
                            /\ heldHere' = [heldHere EXCEPT ![r] = t \in revokedBy[n]]
    BY <1>2 DEF Begin
  <2>2. token'[r] = t /\ heldHere'[r] = (t \in revokedBy[n])
    BY <2>1 DEF TypeOK
  <2>3. at'[r] = n /\ revokedBy' = revokedBy
    BY <1>2 DEF Begin, TypeOK, historyVars
  <2> QED
    BY <2>2, <2>3
<1>3. ASSUME NEW n \in Nodes, Cleanup(r, n) PROVE FALSE
  BY <1>3 DEF Cleanup, Goto, TypeOK, UnderWay
<1>4. ASSUME UnderWay(r), token'[r] = token[r], at'[r] = at[r], heldHere[r]
      PROVE  token'[r] \in revokedBy'[at'[r]]
  <2>1. at[r] \in Nodes /\ token[r] \in revokedBy[at[r]]
    BY <1>4, UnderWayTyped DEF CopyInv
  <2>2. ~Restart(at[r])
    BY DEF Restart, UnderWay
  <2>3. ASSUME NEW s \in Requests, at[s] = at[r], Sync(s) \/ Add(s) \/ Prune(s)
        PROVE  revokedBy[at[r]] \subseteq revokedBy'[at[r]]
    BY <2>1, <2>3 DEF Sync, Add, Prune, historyVars, TypeOK
  <2>4. revokedBy[at[r]] \subseteq revokedBy'[at[r]]
    BY <2>1, <2>2, <2>3, CopyStep DEF SameCopy
  <2> QED
    BY <1>4, <2>1, <2>4
<1>5. CASE Still(r)
  BY <1>4, <1>5, StillSame DEF Still
<1>6. CASE GoesOn(r)
  <2>1. UnderWay(r)
    BY <1>6 DEF GoesOn, Sync, Contains, Insert, InsertFails, Add, UnderWay
  <2>2. at'[r] = at[r] /\ token'[r] = token[r] /\ heldHere'[r] = heldHere[r]
    BY <1>6 DEF GoesOn, Sync, Contains, Insert, InsertFails, Add, Finish, FinishAs, Goto,
                requestVars, TypeOK
  <2> QED
    BY <1>4, <2>1, <2>2
<1> QED
  BY <1>1, <1>2, <1>3, <1>5, <1>6, RequestStep

-----------------------------------------------------------------------------
(* The theorems *)

\* Only an answer of IsTokenRevoked lets a request through.
LEMMA LetThroughByContains ==
  ASSUME TypeOK, [Next]_vars, NEW r \in Requests, LetThrough(r)
  PROVE  /\ ~IsRevoked(r)
         /\ ~Passed(expiry[token[r]]) \/ ~Passed(expiry[token[r]] + grace[at[r]])
<1> USE DEF LetThrough
<1>1. pc[r] = "contains" /\ pc'[r] \in {"accepted", "insert"} /\ ~Free(r)
      /\ op[r] \in {"use", "refresh"}
  BY DEF Free
<1>2. ~UNCHANGED pc
  BY <1>1
<1>3. ~SignIn /\ ~Tick /\ ~UNCHANGED vars
  BY <1>2 DEF SignIn, Tick, vars
<1>4. ASSUME NEW s \in Requests, pc' = [pc EXCEPT ![s] = pc'[s]], pc[s] # "contains"
      PROVE  FALSE
  BY <1>1, <1>4 DEF TypeOK
<1>5. ASSUME NEW s \in Requests, NEW step, Goto(s, step)
      PROVE  pc' = [pc EXCEPT ![s] = pc'[s]]
  BY <1>5 DEF Goto, TypeOK
<1>6. ASSUME NEW s \in Requests, NEW n \in Nodes, Begin(s, n) \/ Cleanup(s, n) PROVE FALSE
  BY <1>4, <1>5, <1>6 DEF Begin, Cleanup, Free
<1>7. ASSUME NEW s \in Requests, Sync(s) \/ Insert(s) \/ InsertFails(s) PROVE FALSE
  BY <1>4, <1>5, <1>7 DEF Sync, Insert, InsertFails, Finish, FinishAs
<1>8. ASSUME NEW s \in Requests, Add(s) \/ Issue(s) \/ IssueFails(s) \/ Prune(s) PROVE FALSE
  BY <1>4, <1>5, <1>8 DEF Add, Issue, IssueFails, Prune, Finish, FinishAs
<1>9. ASSUME NEW n \in Nodes, Restart(n) PROVE FALSE
  BY <1>1, <1>9 DEF Restart
<1>10. ASSUME NEW s \in Requests, Contains(s) PROVE Contains(r)
  <2>1. \E step : Goto(s, step)
    BY <1>10 DEF Contains, Finish, FinishAs
  <2>2. s = r
    BY <1>1, <2>1 DEF Goto, TypeOK
  <2> QED
    BY <1>10, <2>2
<1>11. Contains(r)
  BY <1>3, <1>6, <1>7, <1>8, <1>9, <1>10 DEF Next
<1>12. Finish(r) => pc'[r] = "idle"
  BY DEF Finish, FinishAs, Goto, TypeOK
<1> QED
  BY <1>1, <1>11, <1>12 DEF Contains

LEMMA SessionsInitInv == Init => SessionsInv
<1> SUFFICES ASSUME Init PROVE SessionsInv
  OBVIOUS
<1> USE SessionsAssumption DEF Init
<1>1. TypeOK
  <2>1. RequestsTyped
    BY DEF RequestsTyped, Steps, Operations
  <2>2. SharedTyped
    BY DEF SharedTyped, Never
  <2> QED
    BY <2>1, <2>2 DEF TypeOK, RequestsTyped, SharedTyped
<1>2. RequestInv
  BY DEF RequestInv, UnderWay
<1>3. RowInv
  BY DEF RowInv
<1>4. ExchangeInv
  BY DEF ExchangeInv, Exchanging
<1>5. SpentInv
  BY DEF SpentInv, SpentRequest, UnderWay
<1>6. CopyInv
  BY DEF CopyInv, UnderWay
<1> QED
  BY <1>1, <1>2, <1>3, <1>4, <1>5, <1>6 DEF SessionsInv

LEMMA SessionsNextInv == ASSUME OneGrace, SessionsInv, [Next]_vars PROVE SessionsInv'
<1> USE DEF SessionsInv
<1>1. TypeOK'
  BY TypeNext
<1>2. RequestInv' /\ RowInv'
  BY <1>1, RequestNext, RowNext
<1>3. ExchangeInv' /\ SpentInv'
  BY <1>1, ExchangeNext, SpentNext
<1>4. CopyInv'
  BY <1>1, CopyNext, HeldNext DEF CopyInv, CopyOf
<1> QED
  BY <1>1, <1>2, <1>3, <1>4

LEMMA SessionsInvariant == ASSUME OneGrace PROVE Spec => []SessionsInv
<1>1. SessionsInv /\ [Next]_vars => SessionsInv'
  BY SessionsNextInv
<1> QED
  BY <1>1, SessionsInitInv, PTL DEF Spec

\* The variables keep their types: no request acts for a token that was never
\* issued or in a process it is not in.
THEOREM SessionsTyped == ASSUME OneGrace PROVE Spec => []TypeOK
<1>1. SessionsInv => TypeOK
  BY DEF SessionsInv
<1> QED
  BY <1>1, SessionsInvariant, PTL

\* RefreshToken exchanges a token once, whatever its requests race with, unless
\* its row was inserted when the grace period was over.
THEOREM TokensExchangedOnce == ASSUME OneGrace PROVE Spec => []ExchangedOnceInTime
<1>1. SessionsInv => ExchangedOnceInTime
  BY DEF SessionsInv, ExchangeInv, Late, ExchangedOnceInTime
<1> QED
  BY <1>1, SessionsInvariant, PTL

\* A refresh that begins when its token was logged out or exchanged in any
\* process never comes to issue another in time.
THEOREM SpentTokensStaySpent == ASSUME OneGrace PROVE Spec => SpentStaysSpent
<1>1. SessionsInv =>
        \A r \in Requests : pc[r] = "issue" /\ barred[r] => InsertedLate(token[r], at[r])
  <2> SUFFICES ASSUME SessionsInv, NEW r \in Requests, pc[r] = "issue", barred[r]
               PROVE  InsertedLate(token[r], at[r])
    OBVIOUS
  <2>1. op[r] = "refresh" /\ Late(token[r])
    BY DEF SessionsInv, RequestInv, SpentInv, SpentRequest
  <2>2. at[r] \in Nodes
    BY UnderWayTyped DEF SessionsInv, UnderWay
  <2> QED
    BY <2>1, <2>2 DEF Late
<1> QED
  BY <1>1, SessionsInvariant, PTL DEF SpentStaysSpent

\* The middleware and the refresh let no token through that this process
\* revoked, and one revoked elsewhere only for the interval after its revocation
\* or after a failed read of the table.
THEOREM RevokedTokensRejected == ASSUME OneGrace PROVE Spec => RevokedRejected
<1>1. SessionsInv /\ [Next]_vars =>
        \A r \in Requests :
          LetThrough(r) =>
            /\ ~heldHere[r]
            /\ committed[token[r]] # NoRow =>
                 \/ asOf[r] < committed[token[r]] + Interval
                 \/ asOf[r] < lastFailure[at[r]] + Interval
  <2> SUFFICES ASSUME SessionsInv, [Next]_vars, NEW r \in Requests, LetThrough(r)
               PROVE  /\ ~heldHere[r]
                      /\ committed[token[r]] # NoRow =>
                           \/ asOf[r] < committed[token[r]] + Interval
                           \/ asOf[r] < lastFailure[at[r]] + Interval
    OBVIOUS
  <2> USE DEF SessionsInv
  <2>1. pc[r] = "contains" /\ UnderWay(r) /\ ~IsRevoked(r)
    BY LetThroughByContains DEF LetThrough, UnderWay
  <2>2. ~Passed(expiry[token[r]] + grace[at[r]])
    <3>1. /\ expiry[token[r]] \in Nat /\ grace[at[r]] \in Nat
          /\ ~Passed(expiry[token[r]]) \/ ~Passed(expiry[token[r]] + grace[at[r]])
      BY <2>1, LetThroughByContains, UnderWayTyped
    <3>2. now \in Nat
      BY SessionsAssumption DEF TypeOK
    <3> QED
      BY <3>1, <3>2 DEF Passed
  <2>3. PICK t \in Tokens, n \in Nodes : token[r] = t /\ at[r] = n
    BY <2>1, UnderWayTyped
  <2>4. /\ asOf[r] \in Nat /\ asOf[r] <= now /\ now \in Nat
        /\ loaded[n] /\ asOf[r] < loadedAt[n] + Interval /\ loadedAt[n] \in Nat
        /\ expiry[t] \in Nat /\ grace[n] \in Nat
    BY <2>1, <2>3, UnderWayTyped, SessionsAssumption DEF TypeOK, RequestInv
  <2>5. ~(hashes[n][t] # NoRow)
    BY <2>1, <2>2, <2>3, <2>4 DEF CopyInv, IsRevoked, Passed
  <2>6. ~heldHere[r]
    BY <2>1, <2>2, <2>3, <2>5 DEF CopyInv
  <2>7. committed[t] # NoRow =>
          \/ asOf[r] < committed[t] + Interval
          \/ asOf[r] < lastFailure[n] + Interval
    <3>1. committed[t] # NoRow => loadedAt[n] <= committed[t] \/ lastFailure[n] = loadedAt[n]
      BY <2>2, <2>3, <2>4, <2>5 DEF CopyInv
    <3>2. committed[t] \in Nat \/ committed[t] = NoRow
      BY DEF TypeOK
    <3> QED
      BY <2>4, <3>1, <3>2, SessionsAssumption
  <2> QED
    BY <2>3, <2>6, <2>7
<1> QED
  BY <1>1, SessionsInvariant, PTL DEF RevokedRejected, Spec

=============================================================================
