----------------------------- MODULE MoulCache -----------------------------
(***************************************************************************)
(* The in-process cache of collection schemas, internal/db/moulcache.go:   *)
(* one snapshot of the table _moul per process, dropped by every write the *)
(* process makes itself and compared once per interval with the counter in *)
(* _moul_version, which triggers maintain, to notice writes made elsewhere.*)
(*                                                                         *)
(* What the snapshot holds is abstracted to a revision: the number of      *)
(* statements that had changed _moul when its rows were read.  A SELECT,   *)
(* a write with its triggers, and a critical section that runs no SQL are  *)
(* one step each.                                                          *)
(***************************************************************************)
EXTENDS Integers

CONSTANTS
  Readers,    \* goroutines that look collections up
  Writers,    \* goroutines of this process that write _moul
  NoReader,   \* the holder of a free lock
  Interval,   \* moulCacheCheckInterval, in ticks of the clock
  MaxWrites,  \* bound on the changes made to _moul
  MaxTime     \* bound on the clock

ASSUME MoulCacheAssumption ==
  /\ NoReader \notin Readers
  /\ Interval \in Nat \ {0}
  /\ MaxWrites \in Nat
  /\ MaxTime \in Nat

VARIABLES
  rows,         \* the revision of the table _moul
  version,      \* _moul_version.version
  snapshot,     \* moulSnapshot: valid, version, checkedAt and what it holds
  lock,         \* the reader that holds moulSnapshot.mu for writing
  pc,           \* where each reader is in get
  called,       \* the time.Now() at the top of each reader's get
  known,        \* the version each reader has read, Unversioned if it could not
  result,       \* what each reader's last lookup returned, a revision or Failed
  writer,       \* where each writer is: a write is followed by an invalidation
  now,          \* the clock
  committedAt,  \* history: when each revision was committed
  settled,      \* history: the highest revision a finished call has shown or made
  floor         \* history: settled when each reader's lookup began

vars == <<rows, version, snapshot, lock, pc, called, known, result, writer, now,
          committedAt, settled, floor>>

Revisions == 0..MaxWrites
Snapshots == [valid: BOOLEAN, version: Nat, checkedAt: Nat, rows: Revisions]
Unversioned == -1
Failed == -1

TypeOK ==
  /\ rows \in Revisions
  /\ version \in Nat
  /\ snapshot \in Snapshots
  /\ lock \in Readers \cup {NoReader}
  /\ pc \in [Readers -> {"outside", "fast", "slow", "load"}]
  /\ called \in [Readers -> Nat]
  /\ known \in [Readers -> Nat \cup {Unversioned}]
  /\ result \in [Readers -> Revisions \cup {Failed}]
  /\ writer \in [Writers -> {"outside", "written"}]
  /\ now \in 0..MaxTime
  /\ committedAt \in [1..MaxWrites -> Nat]
  /\ settled \in Revisions
  /\ floor \in [Readers -> Revisions]

Init ==
  /\ rows = 0
  /\ version = 0
  /\ snapshot = [valid |-> FALSE, version |-> 0, checkedAt |-> 0, rows |-> 0]
  /\ lock = NoReader
  /\ pc = [r \in Readers |-> "outside"]
  /\ called = [r \in Readers |-> 0]
  /\ known = [r \in Readers |-> Unversioned]
  /\ result = [r \in Readers |-> Failed]
  /\ writer = [w \in Writers |-> "outside"]
  /\ now = 0
  /\ committedAt = [i \in 1..MaxWrites |-> 0]
  /\ settled = 0
  /\ floor = [r \in Readers |-> 0]

-----------------------------------------------------------------------------
(* Writes of _moul *)

\* A statement that changes a row of _moul, and the trigger it fires.
ChangesMoul ==
  /\ rows < MaxWrites
  /\ rows' = rows + 1
  /\ version' = version + 1
  /\ committedAt' = [committedAt EXCEPT ![rows + 1] = now]

\* A statement whose WHERE matches no row.
MatchesNothing == UNCHANGED <<rows, version, committedAt>>

\* A writer that has executed its statement; one that failed returns at once
\* and changes nothing.
HasWritten(w) ==
  /\ writer[w] = "outside"
  /\ writer' = [writer EXCEPT ![w] = "written"]
  /\ UNCHANGED <<snapshot, lock, pc, called, known, result, now, settled, floor>>

SaveMoulMetadata(w) == HasWritten(w) /\ ChangesMoul

UpdateMoulMetadata(w) == HasWritten(w) /\ (ChangesMoul \/ MatchesNothing)

UpdateMoulEmailTemplates(w) == HasWritten(w) /\ (ChangesMoul \/ MatchesNothing)

DeleteMoulMetadata(w) == HasWritten(w) /\ (ChangesMoul \/ MatchesNothing)

\* Mutant: an invalidation that leaves the snapshot valid.
InvalidateNothing(w) ==
  /\ writer[w] = "written"
  /\ lock = NoReader
  /\ writer' = [writer EXCEPT ![w] = "outside"]
  /\ settled' = rows
  /\ UNCHANGED <<rows, version, snapshot, lock, pc, called, known, result, now,
                 committedAt, floor>>

\* The writer returns once the snapshot is dropped.  From then on its write,
\* and every write committed before, has to be seen.
InvalidateMoulCache(w) ==
  /\ writer[w] = "written"
  /\ lock = NoReader
  /\ snapshot' = [snapshot EXCEPT !.valid = FALSE]
  /\ writer' = [writer EXCEPT ![w] = "outside"]
  /\ settled' = rows
  /\ UNCHANGED <<rows, version, lock, pc, called, known, result, now,
                 committedAt, floor>>

\* Another process, or SQL that bypasses the package, changes _moul.
ForeignWrite ==
  /\ ChangesMoul
  /\ UNCHANGED <<snapshot, lock, pc, called, known, result, writer, now, settled,
                 floor>>

-----------------------------------------------------------------------------
(* A lookup: LoadAllMoul and LoadMoulByName both call get *)

\* Mutant: a snapshot that is still used when the interval is over.
FreshTooLong(r) ==
  snapshot.valid /\ called[r] - snapshot.checkedAt <= Interval

Fresh(r) == snapshot.valid /\ called[r] - snapshot.checkedAt < Interval

\* The lookup of r returns rev, or an error.
Return(r, rev) ==
  /\ pc' = [pc EXCEPT ![r] = "outside"]
  /\ result' = [result EXCEPT ![r] = rev]
  /\ known' = [known EXCEPT ![r] = Unversioned]
  /\ settled' = IF rev > settled THEN rev ELSE settled

Call(r) ==
  /\ pc[r] = "outside"
  /\ pc' = [pc EXCEPT ![r] = "fast"]
  /\ called' = [called EXCEPT ![r] = now]
  /\ floor' = [floor EXCEPT ![r] = settled]
  /\ result' = [result EXCEPT ![r] = Failed]
  /\ UNCHANGED <<rows, version, snapshot, lock, known, writer, now, committedAt,
                 settled>>

\* The snapshot as it is, under the read lock.
FastPath(r) ==
  /\ pc[r] = "fast"
  /\ lock = NoReader
  /\ \/ Fresh(r) /\ Return(r, snapshot.rows)
     \/ /\ ~Fresh(r)
        /\ pc' = [pc EXCEPT ![r] = "slow"]
        /\ UNCHANGED <<known, result, settled>>
  /\ UNCHANGED <<rows, version, snapshot, lock, called, writer, now,
                 committedAt, floor>>

\* Another goroutine may have refreshed the snapshot before the lock was free.
LockAndRecheck(r) ==
  /\ pc[r] = "slow"
  /\ lock = NoReader
  /\ \/ Fresh(r) /\ Return(r, snapshot.rows) /\ UNCHANGED lock
     \/ /\ ~Fresh(r)
        /\ lock' = r
        /\ UNCHANGED <<pc, known, result, settled>>
  /\ UNCHANGED <<rows, version, snapshot, called, writer, now,
                 committedAt, floor>>

SameVersion(v) == snapshot.valid /\ v # Unversioned /\ v = snapshot.version

\* The counter is read; when it has not moved the snapshot is good for another
\* interval, counted from the time the lookup began.
ReadVersion(r) ==
  /\ lock = r
  /\ pc[r] = "slow"
  /\ \E v \in {version, Unversioned} :
       \/ /\ SameVersion(v)
          /\ snapshot' = [snapshot EXCEPT !.checkedAt = called[r]]
          /\ lock' = NoReader
          /\ Return(r, snapshot.rows)
       \/ /\ ~SameVersion(v)
          /\ known' = [known EXCEPT ![r] = v]
          /\ pc' = [pc EXCEPT ![r] = "load"]
          /\ UNCHANGED <<snapshot, lock, result, settled>>
  /\ UNCHANGED <<rows, version, called, writer, now, committedAt, floor>>

\* The rows are read and, if the counter could be read before, kept.
LoadRows(r) ==
  /\ pc[r] = "load"
  /\ snapshot' = IF known[r] = Unversioned THEN snapshot
                 ELSE [valid |-> TRUE, version |-> known[r],
                       checkedAt |-> called[r], rows |-> rows]
  /\ lock' = NoReader
  /\ Return(r, rows)
  /\ UNCHANGED <<rows, version, called, writer, now, committedAt, floor>>

\* Mutant: the error path does not release the lock.
LoadFailsLocked(r) ==
  /\ pc[r] = "load"
  /\ Return(r, Failed)
  /\ UNCHANGED <<rows, version, snapshot, lock, called, writer, now,
                 committedAt, floor>>

\* The rows cannot be read or parsed: the snapshot stays as it is.
LoadFails(r) ==
  /\ pc[r] = "load"
  /\ lock' = NoReader
  /\ Return(r, Failed)
  /\ UNCHANGED <<rows, version, snapshot, called, writer, now,
                 committedAt, floor>>

Tick ==
  /\ now < MaxTime
  /\ now' = now + 1
  /\ UNCHANGED <<rows, version, snapshot, lock, pc, called, known, result, writer,
                 committedAt, settled, floor>>

Lookup(r) == FastPath(r) \/ LockAndRecheck(r) \/ ReadVersion(r) \/ LoadRows(r) \/ LoadFails(r)

Write(w) ==
  \/ SaveMoulMetadata(w)
  \/ UpdateMoulMetadata(w)
  \/ UpdateMoulEmailTemplates(w)
  \/ DeleteMoulMetadata(w)

Next ==
  \/ \E r \in Readers : Call(r) \/ Lookup(r)
  \/ \E w \in Writers : Write(w) \/ InvalidateMoulCache(w)
  \/ ForeignWrite
  \/ Tick

Spec == Init /\ [][Next]_vars

\* A sync.RWMutex is granted in the end to whoever waits for it, reader or
\* writer, and a query returns.
Fairness ==
  /\ \A r \in Readers : SF_vars(Lookup(r))
  /\ \A w \in Writers : SF_vars(InvalidateMoulCache(w))

FairSpec == Spec /\ Fairness

-----------------------------------------------------------------------------
(* Properties *)

Answered(r) == pc[r] = "outside" /\ result[r] # Failed

\* A write of this process is seen by every lookup that starts after the write
\* returned, and a lookup never shows less than an earlier one had shown:
\* "Writes made through this package invalidate the snapshot at once"
\* (moulcache.go:17), whatever a lookup that was under way caches late.
NeverGoesBack == \A r \in Readers : Answered(r) => result[r] >= floor[r]

\* A lookup that misses a change was called less than the interval after it,
\* for a change made by any process: the first change it misses was committed
\* less than Interval before the call (moulcache.go:15).
StalenessBounded ==
  \A r \in Readers :
    Answered(r) /\ result[r] < rows =>
      committedAt[result[r] + 1] + Interval > called[r]

\* Every lookup returns, whatever queries fail and whoever writes meanwhile, and
\* every writer gets the lock to invalidate, however many lookups come: no path
\* through get keeps the lock (moulcache.go:95).
CallsReturn ==
  /\ \A r \in Readers : pc[r] # "outside" ~> pc[r] = "outside"
  /\ \A w \in Writers : writer[w] = "written" ~> writer[w] = "outside"

=============================================================================
