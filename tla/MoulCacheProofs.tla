-------------------------- MODULE MoulCacheProofs --------------------------
(***************************************************************************)
(* Proofs about the schema cache.  The invariant CacheInv ties the         *)
(* snapshot to the table: it never holds more than the table, what it      *)
(* misses was committed after it was last checked, and whoever would still *)
(* find it fresh finds in it all that he has to see.                       *)
(***************************************************************************)
EXTENDS MoulCache, TLAPS

LEMMA SnapshotFields ==
  ASSUME NEW s \in Snapshots
  PROVE  /\ s.valid \in BOOLEAN
         /\ s.version \in Nat
         /\ s.checkedAt \in Nat
         /\ s.rows \in Revisions
BY DEF Snapshots

\* The three ways the code assigns the fields of the snapshot.
LEMMA SnapshotDropped ==
  ASSUME NEW s \in Snapshots
  PROVE  LET t == [s EXCEPT !.valid = FALSE] IN
         t \in Snapshots /\ ~t.valid
BY DEF Snapshots

LEMMA SnapshotChecked ==
  ASSUME NEW s \in Snapshots, NEW time \in Nat
  PROVE  LET t == [s EXCEPT !.checkedAt = time] IN
         /\ t \in Snapshots
         /\ t.valid = s.valid
         /\ t.version = s.version
         /\ t.rows = s.rows
         /\ t.checkedAt = time
BY DEF Snapshots

LEMMA SnapshotLoaded ==
  ASSUME NEW v \in Nat, NEW time \in Nat, NEW rev \in Revisions
  PROVE  LET t == [valid |-> TRUE, version |-> v, checkedAt |-> time, rows |-> rev] IN
         /\ t \in Snapshots
         /\ t.valid
         /\ t.version = v
         /\ t.rows = rev
         /\ t.checkedAt = time
BY DEF Snapshots

\* What a change of the table does.
LEMMA Changed ==
  ASSUME TypeOK, ChangesMoul
  PROVE  /\ rows < MaxWrites
         /\ rows' = rows + 1
         /\ rows' \in Revisions
         /\ version' = version + 1
         /\ version' \in Nat
         /\ committedAt' \in [1..MaxWrites -> Nat]
         /\ \A i \in 1..MaxWrites :
              committedAt'[i] = IF i = rows + 1 THEN now ELSE committedAt[i]
<1>1. rows + 1 \in 1..MaxWrites /\ now \in Nat
  BY MoulCacheAssumption DEF TypeOK, ChangesMoul, Revisions
<1> QED
  BY <1>1, MoulCacheAssumption DEF TypeOK, ChangesMoul, Revisions

LEMMA TypeInit == Init => TypeOK
BY MoulCacheAssumption
   DEF Init, TypeOK, Revisions, Snapshots, Unversioned, Failed

LEMMA TypeNext == TypeOK /\ [Next]_vars => TypeOK'
<1> SUFFICES ASSUME TypeOK, [Next]_vars PROVE TypeOK'
  OBVIOUS
<1> USE MoulCacheAssumption DEF TypeOK
<1>1. ASSUME NEW r \in Readers, NEW rev \in Revisions \cup {Failed},
             Return(r, rev)
      PROVE  /\ pc' \in [Readers -> {"outside", "fast", "slow", "load"}]
             /\ known' \in [Readers -> Nat \cup {Unversioned}]
             /\ result' \in [Readers -> Revisions \cup {Failed}]
             /\ settled' \in Revisions
  BY <1>1 DEF Return, Unversioned, Failed, Revisions
<1>2. CASE \E r \in Readers : Call(r)
  BY <1>2 DEF Call
<1>3. CASE \E r \in Readers : FastPath(r)
  BY <1>3, <1>1, SnapshotFields DEF FastPath
<1>4. CASE \E r \in Readers : LockAndRecheck(r)
  BY <1>4, <1>1, SnapshotFields DEF LockAndRecheck
<1>5. CASE \E r \in Readers : ReadVersion(r)
  <2> PICK r \in Readers, v \in {version, Unversioned} :
        /\ \/ /\ snapshot' = [snapshot EXCEPT !.checkedAt = called[r]]
              /\ lock' = NoReader
              /\ Return(r, snapshot.rows)
           \/ /\ known' = [known EXCEPT ![r] = v]
              /\ pc' = [pc EXCEPT ![r] = "load"]
              /\ UNCHANGED <<snapshot, lock, result, settled>>
        /\ UNCHANGED <<rows, version, called, writer, now, committedAt, floor>>
    BY <1>5 DEF ReadVersion
  <2> snapshot.rows \in Revisions /\ called[r] \in Nat
    BY SnapshotFields
  <2> CASE Return(r, snapshot.rows) /\ snapshot' = [snapshot EXCEPT !.checkedAt = called[r]]
                                   /\ lock' = NoReader
    <3> snapshot' \in Snapshots
      BY SnapshotChecked
    <3> QED
      BY <1>1
  <2> CASE /\ known' = [known EXCEPT ![r] = v]
           /\ pc' = [pc EXCEPT ![r] = "load"]
           /\ UNCHANGED <<snapshot, lock, result, settled>>
    OBVIOUS
  <2> QED
    OBVIOUS
<1>6. CASE \E r \in Readers : LoadRows(r)
  <2> PICK r \in Readers : LoadRows(r)
    BY <1>6
  <2>1. snapshot' \in Snapshots
    <3> CASE known[r] = Unversioned
      BY DEF LoadRows
    <3> CASE known[r] # Unversioned
      <4> known[r] \in Nat /\ called[r] \in Nat /\ rows \in Revisions
        OBVIOUS
      <4> QED
        BY SnapshotLoaded DEF LoadRows
    <3> QED
      OBVIOUS
  <2> QED
    BY <1>1, <2>1 DEF LoadRows
<1>7. CASE \E r \in Readers : LoadFails(r)
  BY <1>7, <1>1 DEF LoadFails
<1>8. CASE \E w \in Writers : Write(w)
  <2> PICK w \in Writers : Write(w)
    BY <1>8
  <2>1. ChangesMoul \/ MatchesNothing
    BY DEF Write, SaveMoulMetadata, UpdateMoulMetadata,
       UpdateMoulEmailTemplates, DeleteMoulMetadata
  <2>2. rows' \in Revisions /\ version' \in Nat /\ committedAt' \in [1..MaxWrites -> Nat]
    <3> CASE ChangesMoul
      BY Changed
    <3> CASE MatchesNothing
      BY DEF MatchesNothing
    <3> QED
      BY <2>1
  <2> QED
    BY <2>2 DEF Write, SaveMoulMetadata, UpdateMoulMetadata,
                UpdateMoulEmailTemplates, DeleteMoulMetadata, HasWritten
<1>9. CASE \E w \in Writers : InvalidateMoulCache(w)
  <2> PICK w \in Writers : InvalidateMoulCache(w)
    BY <1>9
  <2>1. snapshot' \in Snapshots
    BY SnapshotDropped DEF InvalidateMoulCache
  <2> QED
    BY <2>1 DEF InvalidateMoulCache
<1>10. CASE ForeignWrite
  <2> ChangesMoul
    BY <1>10 DEF ForeignWrite
  <2> rows' \in Revisions /\ version' \in Nat /\ committedAt' \in [1..MaxWrites -> Nat]
    BY Changed
  <2> QED
    BY <1>10 DEF ForeignWrite
<1>11. CASE Tick
  BY <1>11 DEF Tick
<1>12. CASE UNCHANGED vars
  BY <1>12 DEF vars
<1> QED
  BY <1>2, <1>3, <1>4, <1>5, <1>6, <1>7, <1>8, <1>9, <1>10, <1>11, <1>12
     DEF Next, Lookup

\* Every state of the cache has the declared types: the results of lookups, the
\* snapshot and the counter are revisions and times (moulcache.go, get).
THEOREM TypeCorrect == Spec => []TypeOK
BY TypeInit, TypeNext, PTL DEF Spec

-----------------------------------------------------------------------------
(* The inductive invariant *)

\* The lock is held where the code holds it, and only over a stale snapshot.
LockInv ==
  \A r \in Readers :
    /\ pc[r] = "load" => lock = r
    /\ lock = r => pc[r] \in {"slow", "load"} /\ ~Fresh(r)

\* Nothing is ahead of the table, and no lookup is ahead of the clock.
Behind ==
  /\ version = rows
  /\ settled <= rows
  /\ \A r \in Readers : floor[r] <= rows /\ called[r] <= now /\ known[r] <= rows
  /\ \A r \in Readers : result[r] <= rows

\* What a valid snapshot holds: its rows were read after its version, and what
\* it misses was committed after its last check.
SnapshotInv ==
  snapshot.valid =>
    /\ snapshot.version <= snapshot.rows
    /\ snapshot.rows <= rows
    /\ snapshot.checkedAt <= now
    /\ \A i \in 1..MaxWrites :
         snapshot.rows < i /\ i <= rows => committedAt[i] >= snapshot.checkedAt

\* A lookup that would find the snapshot fresh, or that starts now, finds in it
\* what it has to see.
FreshInv ==
  /\ snapshot.valid /\ now - snapshot.checkedAt < Interval =>
       snapshot.rows >= settled
  /\ \A r \in Readers :
       pc[r] \in {"fast", "slow"} /\ Fresh(r) => snapshot.rows >= floor[r]

CacheInv ==
  /\ LockInv
  /\ Behind
  /\ SnapshotInv
  /\ FreshInv
  /\ NeverGoesBack
  /\ StalenessBounded

LEMMA CacheInit == Init => CacheInv
BY MoulCacheAssumption
   DEF Init, CacheInv, LockInv, Behind, SnapshotInv, FreshInv, NeverGoesBack,
       StalenessBounded, Fresh, Answered, Unversioned, Failed

\* A lookup that returns something recent enough, or an error, disturbs neither
\* of the two properties.
LEMMA Returns ==
  ASSUME TypeOK, CacheInv, NEW r \in Readers, NEW rev \in Revisions \cup {Failed},
         pc[r] # "outside",
         Return(r, rev),
         rev <= rows,
         rev # Failed => rev >= floor[r],
         rev # Failed /\ rev < rows => committedAt[rev + 1] + Interval > called[r],
         UNCHANGED <<rows, version, called, now, committedAt, floor>>
  PROVE  /\ pc'[r] = "outside"
         /\ \A q \in Readers \ {r} : pc'[q] = pc[q]
         /\ settled' \in Nat /\ settled' <= rows /\ settled <= settled'
         /\ settled' \in {settled, rev}
         /\ Behind' /\ NeverGoesBack' /\ StalenessBounded'
<1>1. Behind /\ NeverGoesBack /\ StalenessBounded
  BY DEF CacheInv
<1>2. /\ rows \in Nat /\ settled \in Nat /\ rev \in Int /\ (rev = Failed \/ rev \in Nat)
      /\ known \in [Readers -> Nat \cup {Unversioned}]
      /\ DOMAIN result = Readers /\ DOMAIN pc = Readers
  BY MoulCacheAssumption DEF TypeOK, Revisions, Failed
<1>3. /\ pc'[r] = "outside" /\ result'[r] = rev /\ known'[r] = Unversioned
      /\ \A q \in Readers \ {r} : pc'[q] = pc[q] /\ result'[q] = result[q]
                                 /\ known'[q] = known[q]
      /\ settled' = IF rev > settled THEN rev ELSE settled
  BY <1>2 DEF Return
<1>4. settled' \in Nat /\ settled' <= rows /\ settled <= settled' /\ settled' \in {settled, rev}
  BY <1>1, <1>2, <1>3 DEF Behind, Failed
<1>5. Behind'
  BY <1>1, <1>2, <1>3, <1>4 DEF Behind, Failed, Unversioned
<1>6. NeverGoesBack'
  BY <1>1, <1>3 DEF NeverGoesBack, Answered
<1>7. StalenessBounded'
  BY <1>1, <1>3 DEF StalenessBounded, Answered
<1> QED
  BY <1>3, <1>4, <1>5, <1>6, <1>7

LEMMA CacheNext == TypeOK /\ TypeOK' /\ CacheInv /\ [Next]_vars => CacheInv'
<1> SUFFICES ASSUME TypeOK, TypeOK', CacheInv, [Next]_vars PROVE CacheInv'
  OBVIOUS
<1>n. /\ rows \in Nat /\ version \in Nat /\ settled \in Nat /\ now \in Nat
      /\ Interval \in Nat /\ Interval > 0
      /\ rows' \in Nat /\ version' \in Nat /\ settled' \in Nat /\ now' \in Nat
      /\ snapshot.version \in Nat /\ snapshot.checkedAt \in Nat /\ snapshot.rows \in Nat
      /\ snapshot.rows <= MaxWrites /\ rows <= MaxWrites /\ rows' <= MaxWrites
      /\ MaxWrites \in Nat
  BY SnapshotFields, MoulCacheAssumption DEF TypeOK, Revisions
<1>r. \A r \in Readers :
        /\ floor[r] \in Nat /\ called[r] \in Nat
        /\ known[r] \in Nat \cup {Unversioned}
        /\ result[r] \in Nat \cup {Failed} /\ result[r] <= MaxWrites
        /\ r # NoReader
  <2> SUFFICES ASSUME NEW r \in Readers
               PROVE  /\ floor[r] \in Nat /\ called[r] \in Nat
                      /\ known[r] \in Nat \cup {Unversioned}
                      /\ result[r] \in Nat \cup {Failed} /\ result[r] <= MaxWrites
                      /\ r # NoReader
    OBVIOUS
  <2>1. floor[r] \in 0..MaxWrites /\ called[r] \in Nat /\ known[r] \in Nat \cup {Unversioned}
    BY DEF TypeOK, Revisions
  <2>2. result[r] \in (0..MaxWrites) \cup {Failed}
    BY DEF TypeOK, Revisions
  <2> QED
    BY <2>1, <2>2, MoulCacheAssumption DEF Failed
<1>c. \A i \in 1..MaxWrites : committedAt[i] \in Nat /\ committedAt'[i] \in Nat
  BY DEF TypeOK
<1>i. LockInv /\ Behind /\ SnapshotInv /\ FreshInv /\ NeverGoesBack /\ StalenessBounded
  BY DEF CacheInv
<1> USE <1>n, <1>r, <1>c
<1>1. CASE UNCHANGED vars
  BY <1>1, <1>i DEF vars, CacheInv, LockInv, Behind, SnapshotInv, FreshInv,
     NeverGoesBack, StalenessBounded, Fresh, Answered
<1>2. CASE Tick
  <2> now' = now + 1 /\ UNCHANGED <<rows, version, snapshot, lock, pc, called, known,
        result, writer, committedAt, settled, floor>>
    BY <1>2 DEF Tick
  <2>1. LockInv' /\ Behind' /\ SnapshotInv' /\ NeverGoesBack' /\ StalenessBounded'
    BY <1>i DEF LockInv, Behind, SnapshotInv, NeverGoesBack, StalenessBounded, Fresh, Answered
  <2>2. FreshInv'
    BY <1>i DEF FreshInv, Fresh
  <2> QED
    BY <2>1, <2>2 DEF CacheInv
<1>3. ASSUME NEW r \in Readers, Call(r) PROVE CacheInv'
  <2> /\ pc[r] = "outside"
      /\ pc' = [pc EXCEPT ![r] = "fast"]
      /\ called' = [called EXCEPT ![r] = now]
      /\ floor' = [floor EXCEPT ![r] = settled]
      /\ result' = [result EXCEPT ![r] = Failed]
      /\ UNCHANGED <<rows, version, snapshot, lock, known, writer, now, committedAt,
                     settled>>
    BY <1>3 DEF Call
  <2> /\ pc \in [Readers -> {"outside", "fast", "slow", "load"}] /\ called \in [Readers -> Nat]
      /\ DOMAIN floor = Readers /\ DOMAIN result = Readers
    BY DEF TypeOK
  <2> pc'[r] = "fast" /\ called'[r] = now /\ floor'[r] = settled /\ result'[r] = Failed
    OBVIOUS
  <2> \A q \in Readers \ {r} : /\ pc'[q] = pc[q] /\ called'[q] = called[q]
                               /\ floor'[q] = floor[q] /\ result'[q] = result[q]
    OBVIOUS
  <2>1. LockInv'
    BY <1>i DEF LockInv, Fresh
  <2>2. Behind' /\ SnapshotInv'
    BY <1>i DEF Behind, SnapshotInv, Failed
  <2>3. FreshInv'
    BY <1>i DEF FreshInv, Fresh
  <2>4. NeverGoesBack' /\ StalenessBounded'
    BY <1>i DEF NeverGoesBack, StalenessBounded, Answered
  <2> QED
    BY <2>1, <2>2, <2>3, <2>4 DEF CacheInv
<1>4. ASSUME NEW w \in Writers, InvalidateMoulCache(w) PROVE CacheInv'
  <2> /\ lock = NoReader
      /\ snapshot' = [snapshot EXCEPT !.valid = FALSE]
      /\ settled' = rows
      /\ UNCHANGED <<rows, version, lock, pc, called, known, result, now,
                     committedAt, floor>>
    BY <1>4 DEF InvalidateMoulCache
  <2> ~snapshot'.valid
    BY SnapshotDropped DEF TypeOK
  <2>1. LockInv' /\ SnapshotInv' /\ FreshInv'
    BY <1>i DEF LockInv, SnapshotInv, FreshInv, Fresh
  <2>2. Behind' /\ NeverGoesBack' /\ StalenessBounded'
    BY <1>i DEF Behind, NeverGoesBack, StalenessBounded, Answered
  <2> QED
    BY <2>1, <2>2 DEF CacheInv
<1>5. ASSUME ChangesMoul,
             UNCHANGED <<snapshot, lock, pc, called, known, result, now, settled, floor>>
      PROVE  CacheInv'
  <2> /\ rows < MaxWrites /\ rows' = rows + 1 /\ version' = version + 1
      /\ \A i \in 1..MaxWrites :
           committedAt'[i] = IF i = rows + 1 THEN now ELSE committedAt[i]
    BY <1>5, Changed
  <2> UNCHANGED <<snapshot, lock, pc, called, known, result, now, settled, floor>>
    BY <1>5
  <2>1. LockInv' /\ FreshInv' /\ NeverGoesBack'
    BY <1>i DEF LockInv, FreshInv, NeverGoesBack, Fresh, Answered
  <2>2. Behind'
    BY <1>i DEF Behind, Unversioned, Failed
  <2>3. SnapshotInv'
    BY <1>i DEF SnapshotInv
  <2>4. StalenessBounded'
    <3> SUFFICES ASSUME NEW r \in Readers, Answered(r), result[r] < rows + 1
                 PROVE  committedAt'[result[r] + 1] + Interval > called[r]
      BY DEF StalenessBounded, Answered
    <3>1. result[r] \in Nat /\ result[r] + 1 \in 1..MaxWrites /\ called[r] <= now
      BY <1>i DEF Answered, Behind
    <3>2. CASE result[r] = rows
      BY <3>1, <3>2
    <3>3. CASE result[r] < rows
      <4> committedAt'[result[r] + 1] = committedAt[result[r] + 1]
        BY <3>1, <3>3
      <4> QED
        BY <1>i, <3>3 DEF StalenessBounded
    <3> QED
      BY <3>1, <3>2, <3>3
  <2> QED
    BY <2>1, <2>2, <2>3, <2>4 DEF CacheInv
<1>6. ASSUME NEW r \in Readers, pc[r] \in {"fast", "slow"}, Fresh(r),
             Return(r, snapshot.rows),
             UNCHANGED <<rows, version, snapshot, lock, called, now, committedAt, floor>>
      PROVE  CacheInv'
  <2> /\ snapshot.valid /\ called[r] - snapshot.checkedAt < Interval
      /\ snapshot.rows \in Revisions /\ snapshot.rows <= rows
      /\ snapshot.rows >= floor[r] /\ called[r] <= now
    BY <1>i, <1>6, SnapshotFields DEF Fresh, SnapshotInv, FreshInv, Behind, TypeOK
  <2>1. snapshot.rows < rows => committedAt[snapshot.rows + 1] + Interval > called[r]
    <3> SUFFICES ASSUME snapshot.rows < rows
                 PROVE  committedAt[snapshot.rows + 1] + Interval > called[r]
      OBVIOUS
    <3> snapshot.rows + 1 \in 1..MaxWrites
      OBVIOUS
    <3> committedAt[snapshot.rows + 1] >= snapshot.checkedAt
      BY <1>i DEF SnapshotInv
    <3> QED
      OBVIOUS
  <2>2. /\ pc'[r] = "outside" /\ \A q \in Readers \ {r} : pc'[q] = pc[q]
        /\ settled' \in {settled, snapshot.rows}
        /\ Behind' /\ NeverGoesBack' /\ StalenessBounded'
    BY <2>1, <1>6, Returns
  <2>3. LockInv' /\ SnapshotInv'
    BY <1>i, <1>6, <2>2 DEF LockInv, SnapshotInv, Fresh
  <2>4. FreshInv'
    BY <1>i, <1>6, <2>2 DEF FreshInv, Fresh
  <2> QED
    BY <2>2, <2>3, <2>4 DEF CacheInv
<1>7. ASSUME NEW r \in Readers, FastPath(r) PROVE CacheInv'
  <2> pc[r] = "fast" /\ lock = NoReader
    BY <1>7 DEF FastPath
  <2> UNCHANGED <<rows, version, snapshot, lock, called, now, committedAt, floor>>
    BY <1>7 DEF FastPath
  <2>1. CASE Fresh(r) /\ Return(r, snapshot.rows)
    BY <2>1, <1>6
  <2>2. CASE ~Fresh(r) /\ pc' = [pc EXCEPT ![r] = "slow"] /\ UNCHANGED <<known, result, settled>>
    <3> pc'[r] = "slow" /\ \A q \in Readers \ {r} : pc'[q] = pc[q]
      BY <2>2 DEF TypeOK
    <3>1. LockInv' /\ Behind' /\ SnapshotInv'
      BY <1>i, <2>2 DEF LockInv, Behind, SnapshotInv, Fresh
    <3>2. FreshInv' /\ NeverGoesBack' /\ StalenessBounded'
      BY <1>i, <2>2 DEF FreshInv, NeverGoesBack, StalenessBounded, Fresh, Answered
    <3> QED
      BY <3>1, <3>2 DEF CacheInv
  <2> QED
    BY <2>1, <2>2, <1>7 DEF FastPath
<1>8. ASSUME NEW r \in Readers, LockAndRecheck(r) PROVE CacheInv'
  <2> pc[r] = "slow" /\ lock = NoReader
    BY <1>8 DEF LockAndRecheck
  <2> UNCHANGED <<rows, version, snapshot, called, now, committedAt, floor>>
    BY <1>8 DEF LockAndRecheck
  <2>1. CASE Fresh(r) /\ Return(r, snapshot.rows) /\ UNCHANGED lock
    BY <2>1, <1>6
  <2>2. CASE ~Fresh(r) /\ lock' = r /\ UNCHANGED <<pc, known, result, settled>>
    <3>1. LockInv' /\ Behind' /\ SnapshotInv'
      BY <1>i, <2>2 DEF LockInv, Behind, SnapshotInv, Fresh
    <3>2. FreshInv' /\ NeverGoesBack' /\ StalenessBounded'
      BY <1>i, <2>2 DEF FreshInv, NeverGoesBack, StalenessBounded, Fresh, Answered
    <3> QED
      BY <3>1, <3>2 DEF CacheInv
  <2> QED
    BY <2>1, <2>2, <1>8 DEF LockAndRecheck
<1>9. ASSUME NEW r \in Readers, ReadVersion(r) PROVE CacheInv'
  <2> /\ lock = r /\ pc[r] = "slow" /\ ~Fresh(r) /\ version = rows
      /\ called[r] <= now /\ floor[r] <= rows /\ settled <= rows
    BY <1>9, <1>i DEF ReadVersion, LockInv, Behind
  <2> UNCHANGED <<rows, version, called, writer, now, committedAt, floor>>
    BY <1>9 DEF ReadVersion
  <2> PICK v \in {version, Unversioned} :
        \/ /\ SameVersion(v)
           /\ snapshot' = [snapshot EXCEPT !.checkedAt = called[r]]
           /\ lock' = NoReader
           /\ Return(r, snapshot.rows)
        \/ /\ ~SameVersion(v)
           /\ known' = [known EXCEPT ![r] = v]
           /\ pc' = [pc EXCEPT ![r] = "load"]
           /\ UNCHANGED <<snapshot, lock, result, settled>>
    BY <1>9 DEF ReadVersion
  <2>1. CASE /\ SameVersion(v)
             /\ snapshot' = [snapshot EXCEPT !.checkedAt = called[r]]
             /\ lock' = NoReader
             /\ Return(r, snapshot.rows)
    <3>1. snapshot.valid /\ snapshot.rows = rows /\ snapshot.version = version
      BY <2>1, <1>i DEF SameVersion, SnapshotInv
    <3>2. /\ snapshot'.valid = snapshot.valid /\ snapshot'.version = snapshot.version
          /\ snapshot'.rows = snapshot.rows /\ snapshot'.checkedAt = called[r]
      BY <2>1, SnapshotChecked DEF TypeOK
    <3>3. snapshot.rows \in Revisions
      BY SnapshotFields DEF TypeOK
    <3>4. /\ pc'[r] = "outside" /\ \A q \in Readers \ {r} : pc'[q] = pc[q]
          /\ settled' <= rows
          /\ Behind' /\ NeverGoesBack' /\ StalenessBounded'
      BY <2>1, <3>1, <3>3, Returns
    <3>5. LockInv'
      BY <1>i, <2>1, <3>4 DEF LockInv
    <3>6. SnapshotInv'
      BY <3>1, <3>2 DEF SnapshotInv
    <3>7. FreshInv'
      BY <1>i, <3>1, <3>2, <3>4 DEF FreshInv, Behind
    <3> QED
      BY <3>4, <3>5, <3>6, <3>7 DEF CacheInv
  <2>2. CASE /\ known' = [known EXCEPT ![r] = v]
             /\ pc' = [pc EXCEPT ![r] = "load"]
             /\ UNCHANGED <<snapshot, lock, result, settled>>
    <3> /\ pc'[r] = "load" /\ \A q \in Readers \ {r} : pc'[q] = pc[q]
        /\ known'[r] = v /\ \A q \in Readers \ {r} : known'[q] = known[q]
      BY <2>2 DEF TypeOK
    <3>1. LockInv' /\ SnapshotInv'
      BY <1>i, <2>2 DEF LockInv, SnapshotInv, Fresh
    <3>2. Behind'
      BY <1>i, <2>2 DEF Behind, Unversioned
    <3>3. FreshInv' /\ NeverGoesBack' /\ StalenessBounded'
      BY <1>i, <2>2 DEF FreshInv, NeverGoesBack, StalenessBounded, Fresh, Answered
    <3> QED
      BY <3>1, <3>2, <3>3 DEF CacheInv
  <2> QED
    BY <2>1, <2>2
<1>10. ASSUME NEW r \in Readers, LoadRows(r) PROVE CacheInv'
  <2> /\ pc[r] = "load" /\ lock' = NoReader /\ Return(r, rows)
      /\ snapshot' = IF known[r] = Unversioned THEN snapshot
                     ELSE [valid |-> TRUE, version |-> known[r],
                           checkedAt |-> called[r], rows |-> rows]
      /\ UNCHANGED <<rows, version, called, writer, now, committedAt, floor>>
    BY <1>10 DEF LoadRows
  <2> /\ lock = r /\ ~Fresh(r) /\ called[r] <= now /\ floor[r] <= rows
      /\ known[r] <= rows /\ rows \in Revisions
    BY <1>i DEF LockInv, Behind, TypeOK
  <2>1. /\ pc'[r] = "outside" /\ \A q \in Readers \ {r} : pc'[q] = pc[q]
        /\ settled' <= rows
        /\ Behind' /\ NeverGoesBack' /\ StalenessBounded'
    BY Returns
  <2>2. LockInv'
    BY <1>i, <2>1 DEF LockInv
  <2>3. CASE known[r] = Unversioned
    <3> snapshot' = snapshot
      BY <2>3
    <3>1. ~(snapshot.valid /\ now - snapshot.checkedAt < Interval)
      BY DEF Fresh
    <3>2. SnapshotInv' /\ FreshInv'
      BY <1>i, <3>1, <2>1 DEF SnapshotInv, FreshInv, Fresh
    <3> QED
      BY <2>1, <2>2, <3>2 DEF CacheInv
  <2>4. CASE known[r] # Unversioned
    <3>1. known[r] \in Nat
      BY <2>4
    <3>2. /\ snapshot'.valid /\ snapshot'.version = known[r]
          /\ snapshot'.rows = rows /\ snapshot'.checkedAt = called[r]
      BY <2>4, <3>1, SnapshotLoaded
    <3>3. SnapshotInv'
      BY <3>2 DEF SnapshotInv
    <3>4. FreshInv'
      BY <1>i, <3>2, <2>1 DEF FreshInv, Behind
    <3> QED
      BY <2>1, <2>2, <3>3, <3>4 DEF CacheInv
  <2> QED
    BY <2>3, <2>4
<1>11. ASSUME NEW r \in Readers, LoadFails(r) PROVE CacheInv'
  <2> /\ pc[r] = "load" /\ lock' = NoReader /\ Return(r, Failed)
      /\ UNCHANGED <<rows, version, snapshot, called, writer, now, committedAt, floor>>
    BY <1>11 DEF LoadFails
  <2> lock = r
    BY <1>i DEF LockInv
  <2>1. /\ pc'[r] = "outside" /\ \A q \in Readers \ {r} : pc'[q] = pc[q]
        /\ settled' \in Nat /\ settled <= settled' /\ settled' \in {settled, Failed}
        /\ Behind' /\ NeverGoesBack' /\ StalenessBounded'
    <3> Failed <= rows
      BY DEF Failed
    <3> QED
      BY Returns
  <2>2. settled' = settled
    BY <2>1 DEF Failed
  <2>3. LockInv' /\ SnapshotInv' /\ FreshInv'
    BY <1>i, <2>1, <2>2 DEF LockInv, SnapshotInv, FreshInv, Fresh
  <2> QED
    BY <2>1, <2>3 DEF CacheInv
<1>12. ASSUME NEW w \in Writers, Write(w) PROVE CacheInv'
  <2> UNCHANGED <<snapshot, lock, pc, called, known, result, now, settled, floor>>
    BY <1>12 DEF Write, SaveMoulMetadata, UpdateMoulMetadata,
       UpdateMoulEmailTemplates, DeleteMoulMetadata,
       HasWritten
  <2>1. CASE ChangesMoul
    BY <2>1, <1>5
  <2>2. CASE MatchesNothing
    BY <2>2, <1>i DEF MatchesNothing, CacheInv, LockInv, Behind, SnapshotInv, FreshInv,
       NeverGoesBack, StalenessBounded, Fresh, Answered
  <2> QED
    BY <1>12, <2>1, <2>2
       DEF Write, SaveMoulMetadata, UpdateMoulMetadata,
       UpdateMoulEmailTemplates, DeleteMoulMetadata
<1>13. CASE ForeignWrite
  BY <1>13, <1>5 DEF ForeignWrite
<1> QED
  BY <1>1, <1>2, <1>3, <1>4, <1>7, <1>8, <1>9, <1>10, <1>11, <1>12, <1>13
     DEF Next, Lookup

\* No lookup shows less than what a write of this process had made, or an
\* earlier lookup had shown, before it began.
THEOREM LookupsNeverGoBack == Spec => []NeverGoesBack
<1>1. CacheInv => NeverGoesBack
  BY DEF CacheInv
<1> QED
  BY <1>1, TypeInit, TypeNext, CacheInit, CacheNext, PTL DEF Spec

\* A change made anywhere is missed only by lookups called less than
\* moulCacheCheckInterval after it.
THEOREM StalenessIsBounded == Spec => []StalenessBounded
<1>1. CacheInv => StalenessBounded
  BY DEF CacheInv
<1> QED
  BY <1>1, TypeInit, TypeNext, CacheInit, CacheNext, PTL DEF Spec

=============================================================================
