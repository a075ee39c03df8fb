# Verification of moul

moul is a backend in one Go binary: collections with a REST interface, auth,
realtime subscriptions, background jobs, hooks, an admin interface and an MCP
server, all on one SQLite database that several processes may share. This
directory holds TLA+ models of the parts of it where the order of steps decides,
TLC instances that check them, and TLAPS proofs about them. The admin interface
(the dashboard, a single-page application in `ui/`) is modelled page by page: its
forms, caches and requests in flight are a concurrent system of their own.

Paths are relative to the repository. A line such as `auth.go:443` names the file
in full where it is mentioned first.

    tlc -workers 2 -config WorkerQueue_documented.cfg MCWorkerQueue.tla
    tlc -workers 2 -config Dashboard.cfg MCDashboard.tla
    tlapm DashboardEditingProofs.tla

`PROJECT.json` lists the runs, maps every definition to the lines it stands for,
and names for every property a mutation of the model that breaks it. A definition that
stands for several handlers of one kind is mapped to one of them.

## 1. The system

### What runs

One process is an HTTP server (Echo), a worker engine, a hub of realtime streams,
a flusher of the request log and a few periodic tasks. State lives in SQLite
tables and in memory. SQLite runs one statement, or one transaction, after the
other; nothing else orders two requests, except the locks named below. Several
processes (a server, `moul-ctl`, the MCP server, a second server) may open the
same database, and each keeps its own copies in memory.

The dashboard runs in browsers: one page is mounted at a time, React renders it
from its state and from a cache of queries, and requests go out from its handlers.
Nothing orders their answers, and several tabs share one local storage.

### Components

| Component | Code | State | Operations | Hard |
|---|---|---|---|---|
| Worker queue | `pkg/worker/engine.go`, `internal/handlers/workers.go` | job rows; per process a loop, a semaphore, a wakeup channel, goroutines with a snapshot of their row | enqueue, poll, claim, execute, succeed, fail and back off, retry, cancel, patch, delete, clean up, start, stop | two engines on one table; rows changed while their job runs; crash between claim and result; shutdown in the middle of a poll |
| Collection cache | `internal/db/moulcache.go`, `db.go` | rows of `_moul`, a counter, a snapshot under an RWMutex | look up, save, update, delete, invalidate | reads between commit and invalidation; another process's writes; failing reads |
| Sessions | `internal/handlers/auth.go`, `internal/db/revoked.go`, `internal/middleware/auth.go` | tokens, `_revoked_tokens`, a copy of it per process | sign in, use, refresh, logout, cleanup, restart | two refreshes of one token; the copy re-read while a revocation is half done; the end of the grace period |
| Realtime | `internal/realtime`, `internal/handlers/realtime.go`, `internal/middleware/rate_limiter.go` | tickets, clients with a buffer, subscribers, quota counters, users believed for a window | ticket, subscribe, publish, deliver, heartbeat, revoke, disconnect, leave | publishers hold clients that leave; full buffers; a user changed or a token revoked during a stream; settings changed while streams are open |
| Records | `internal/handlers/records.go`, `internal/schema`, `internal/hooks`, `internal/webhooks` | rows with references | create, update, delete with cascade, hooks, webhooks, announcements | check and write are separate statements; a cascade is many; hooks refuse in the middle |
| Collection administration | `internal/handlers/moul.go`, `internal/db/db.go` | tables, `_moul` | create, rename, change columns, delete | statements that may fail one by one; index names that outlive a rename |
| One-time passwords | `internal/handlers/otp.go`, `otp_throttle.go` | code and expiry of a user, budgets of guesses | request, guess, reset | guesses and new codes at once; windows of budgets |
| Rate limiter | `internal/middleware/rate_limiter.go` | token buckets, settings | allow, reload | reload during requests |
| Sign-in by others | `internal/handlers/oauth*.go`, `device_flow_handler.go`, `passkey.go`, `internal/auth` | states, codes, device requests, challenges | authorize, approve, poll, exchange | one use of each code; expiry; two polls |
| Request log, visits | `internal/analytics` | channel, batch, cache of visits, rows | track, flush, stop, resolve a visit | full channel, failed batch, shutdown; cache older than the row |
| Flags | `internal/flags` | rows, a cached copy per process | get, list, save, evaluate | copy older than the row; two saves at once |
| Rules | `internal/rules` | none | parse, evaluate, translate to SQL | evaluator and SQL must agree |
| Files | `internal/storage`, `internal/filegate` | files, references, a cache of public decisions | upload, serve, refer, remove | a decision read before a change and remembered after it |
| Import, export | `internal/dataio` | rows | import (insert, upsert, replace), export | stops in the middle |
| Certificates | `internal/tls` | rows of `_certmagic`, locks | lock, unlock, store, load | two processes, expired locks |
| Others | settings, setup, mailer, MCP, backup, seed, typegen, sysmon, updater, TUI, benchmarks | little or none of their own | | |

The dashboard (`ui/src`), whose pages are under `routes`:

| Page | Code | State | Operations | Hard |
|---|---|---|---|---|
| Records | `_auth/records/$moulName.tsx` | cached pages, selection, a drawer with a form and its errors, requests, uploads | list, turn, create, edit, delete, batches, retry and discard of jobs, upload | a drawer is opened again before an answer; a list fetched before a write arrives after it; one deletion of a batch fails |
| Forms | `utils/fieldValidation.ts` beside `handlers/records.go`, `moul.go` | none | validate, clean, refuse | the same rules written in two languages |
| Import, export | `components/ImportModal.tsx`, `ExportModal.tsx` | two dialogs that stay mounted | choose, send, close, filter | closing during a request |
| Settings | `_auth/settings.tsx` | one drawer for many sections, its snapshot, drafts, a list of rules | open, type, discard, save, add, edit and delete rules | rules are edited by position in a list that is read again; another administrator |
| Schema editor | `components/collections/FieldsBuilder.tsx`, `_auth/collections/$moulName.tsx` | a list of fields; panels and typed options by position | add, move, remove, retype, save, delete | positions after moves and after reading again |
| Collections | `_auth/collections/index.tsx`, `RulesEditor.tsx` | creation drawer, default rules | type, rules, presets, create, delete | rules that follow the type, changed back and forth |
| Workers | `_auth/workers.tsx` | jobs of one table, polled; an inspector | choose table, retry, discard | the table disappears; rows of the table before |
| Flags | `_auth/flags.tsx` | list with switches, drawer, playground | create, toggle, delete, evaluate | a list read while a toggle is under way |
| Realtime | `_auth/realtime.tsx`, `api/moul-live.ts` | loops, the log | watch, connect, read, reconnect | streams cut anywhere; loops told to stop |
| Session | `context/AuthContext.tsx`, `api/client.ts`, `login.tsx`, `setup.tsx`, `_auth.tsx` | keys in local storage, a copy per tab | key, setup, sign in, sign out, save the account | two tabs; late answers; a rotated key |

### How they interact

Handlers call the collection cache for every request. Record handlers call hooks,
webhooks and the hub. A logout writes `_revoked_tokens`, whose hook tells the hub
to end the streams of the token. The rate limiter admits a stream before the hub
knows it. Emails, images and user jobs are rows of the worker queue. The hourly
cleanup of the application deletes old jobs, revocations and tickets. Processes
interact through the database only. Dashboard pages call the REST interface, and
refresh their cached lists when a write of theirs is answered; they share nothing
but the credentials in the local storage.

### What makes each component correct

- **Worker queue**: a job runs once at a time; a write-back is made from the row
  as it is; attempts stay within their limit and leave a log; an engine with free
  slots keeps them; a stop ends and claims nothing more; every job is finished.
- **Collection cache**: a lookup never goes back behind a local write or an
  earlier lookup; it misses a foreign write for an interval at most; it returns.
- **Sessions**: a token is exchanged once; a spent token is never honoured by a
  refresh; a local revocation is honoured at once, a foreign one within the
  interval.
- **Realtime**: quotas are those of the open streams; a closed client gets
  nothing; who is no member gets no members' event; streams without a token, and
  streams that lost an event, end.
- **Records**: references lead to records; RESTRICT restricts; a cascade follows
  everything once; every change is announced.
- **Collection administration**: catalogue and tables agree when no request is
  under way; an update mends what an earlier one left, empties no field it keeps and
  alters values only where it changes their type; unique fields are unique; file
  references follow their collection.
- **Dashboard**: a form is saved for the record it was opened for, once; a list
  that counts as fresh shows one's own writes; what a form accepts the server
  accepts; what is imported, exported, saved, created or ordered is what was shown;
  drafts are not lost; the log is the stream; the user shown is the one of the token.

## 2. The modules

`MC*` modules instantiate a module for TLC: they define the larger constants and
the symmetry sets. All steps are one SQL statement or transaction, or one critical
section of a lock; what a handler computes between two of those is part of the
step before. Every module bounds its counters by constants that are named in its
`CONSTANTS` and appear in the guards (`MaxOps`, `MaxFaults`, `MaxTime`,
`MaxWrites`, `MaxEvents`, `MaxRequests`, `MaxAsked`, `MaxFailures`); a dashboard
page has a record of such bounds, one for each sort of step (`Budgets`,
`SettingsBudgets` and so on).

### WorkerQueue, JobLifecycle

`row[j]` is a job row: state, attempt, max, priority, errors (a count, since only
its length is compared) and `scheduled`, the due time relative to now in units of
ten seconds. An engine is its loop (`pc`, `table`, `lastTable`), its wakeup
channel (`wakeup`), its semaphore (`held`) and its goroutines (`exec`), each with
the snapshot that `claimNextJob` parsed. The poll is one action per way it goes
on: `BeginPoll` by ticker or wakeup, `AcquireSlot`, `ClaimNextJob`,
`ClaimsNothing`, `GiveUpPoll`, `NextTable`. An execution ends with `HandleSuccess`
or `HandleFailure`, which write the row from the snapshot. Every other writer of
rows is an action: `Enqueue`, `RetryFailed`, `RetryIds`, `UpdateJob`,
`UpdateRecord`, `CancelJob`, `DeleteJob`, `CleanupCompletedJobs`. `Crash` and
`dbError` are the faults. `Allowed` selects which of them an instance has: the
*documented* writers (enqueue, retry of failed jobs, delete, cleanup), or all.

`JobLifecycle` is the abstract specification, the state diagram of
`website/content/docs/features/workers-and-queues.mdx:13-24` arrow by arrow: available,
executing, then completed, discarded, or retryable until the delay of the backoff has
elapsed and available again, with the number of attempts. Deletion is added. The engine
writes no "retryable": `engine.go:524` sets "available" with a later `scheduled_at`.
`RefinesLifecycle` therefore maps a row by its state and its time (`Stage`): one that
is available after an attempt and not due yet is the diagram's Retryable. So read the
diagram holds; the column itself never shows that state (section 6).

### MoulAdmin

`tables` are the physical tables with their columns, and which columns hold values
or hold one twice; `catalog` the rows of `_moul`; `indexed` the unique indexes by
name. A request of `internal/handlers/moul.go` is `Ask` and then a step for each
SQL statement: `Load`, `CheckName`, `RenameTable`, `MoveRefs`, `Inspect`, then
`AddColumn`, `DropColumn` and `SyncIndex`, or `Rebuild` (one transaction), then
`SaveMetadata`, `UpdateMetadata` or `DeleteMetadata`; `DropTable` and `DropRefs` for
a deletion. `AdminStatementFails` and `AdminCrash` stop it anywhere.
`WriteRecords` fills columns meanwhile. `Rebuild` casts the columns whose type changes
(`Cast`, `db.go:716`): a conversion keeps that there are values, may make two of them
equal, and is remembered in `altered`.

### MoulCache

`rows` is the number of writes to `_moul` (a revision), `version` the counter of
the triggers, `snapshot` what `moulCache` holds. A lookup is `Call`, then
`FastPath` under the read lock or `LockAndRecheck`, `ReadVersion`, `LoadRows` or
`LoadFails` under the write lock. Each local writer commits, then takes the lock
to invalidate (`InvalidateMoulCache`); `ForeignWrite` is another process.
`floor[r]` remembers what a lookup must at least show.

### Sessions

A token has an expiry; `row` is its row in `_revoked_tokens`; each process has
`hashes`, the copy, with `loadedAt`. A request is a sequence of steps `sync`,
`contains`, then by its kind `insert`, `add`, `issue`, or `prune`. `Restart` ends
a process with its requests and forgets its copy.

### Realtime

A stream is its handler's `stage`, its `Client` (`client`, `identity`,
`verifiedAt`, `queued`, `disconnect`, `closed`) and what its release function
gives back (`slots`). A publisher picks its targets (`Publish`), then reaches them
in any order (`ReachClient`), perhaps after reading the client's user without a
lock (`ReadUser`, `ReachWithUser`). `RevokeToken`, `DisconnectToken` and
`DisconnectTarget` are a revocation on its way through the hub;
`ReloadRateLimiter` is a change of settings. A record is only what the rule says
of it, a user only what the rule needs. Rooms of one user and one address are
enough: the counters of different users do not meet. A rule with a limit of its own
counts guests and users apart (`ruleOfIP`, `ruleOfUser`, `rate_limiter.go:350`). The
ticket of a root user carries the hash of its token (`realtime.go:56`, `77`), as that of
a user does.

### Records

Two collections with two relation fields; `schema` gives each field cardinality
and policy. `ref[i][f]` is the set of ids the field holds. A request is `op[p]`
and, for a deletion, `stack[p]`, the recursion of `deleteRecordAndCascade`: each
call has the row it deletes, the fields it still has to look at and the rows it
found. `CheckRestrict`, `BeforeDelete`, `RemoveRow`, `AnnounceDelete`,
`FindChildren`, `DeleteChild`, `ClearField`, `FindLists` and `RewriteList` are its
statements, in the order of the code; a refused recursive call (`Refuse`) is
swallowed by its caller. `StatementFails`, `DeleteStatementFails` and `Crash` are
the faults.

### The dashboard

A page's variables are the `useState` values of its component, the cached answers
of its queries, and the requests in flight. A handler is one action and sees the
rendering it was made in. A request is sent, carried out by the server and answered
in three actions, in any order with others, or it is lost before or after it was
carried out; its record holds what the continuation of its answer will need. What
can be pressed is a guard (`SaveOffered`, `TableReachable`): a disabled button, an
overlay that covers the page.

- *RecordsPage*: `cache[p]` is the answer of a page's query with the ids whose last
  write it lacks (`misses`); `drawer` holds the form and which record it is for;
  `Invalidate` marks the cached pages stale and drops the fetches in flight, as
  `invalidateQueries` does. A value is told apart by the record it was entered for, and
  an upload knows whether its form was crossed when it began.
  The engine and other users move rows meanwhile. `OwnWritesShown`, `DrawerSound`
  (four parts) and `BatchAllGone` are its properties.
- *FieldForm*: pure functions: `FormRefuses`, `Cleaned` (what is sent: trimmed or parsed
  by the field's type), `ServerRefuses` on values of every field type, credentials and
  schemas, with what each side's parsers accept as sets of formats. What only the server
  knows is the entry's `obstacle`: no key to cloak with, a target that is gone, a value
  that is taken. One step submits an entry. `FormsAgree` lists the exceptions.
- *TransferDialogs*: both dialogs with their state between openings, and what the page
  lists: a filter and a text searched for, of which the export sends the filter alone.
- *SettingsPage*: `engine` is what the server has, `known` the cached answer, `sheet`
  the drawer with its snapshot and the index of the rule it edits; `known` may be
  read again, with another administrator's rules, while the drawer is open.
- *SchemaEditor*: `draftFields` with history ids, so that a field is the same one
  wherever it is moved; `expanded` and `typedOption` by position, as in the code. The
  server knows no ids: its table has `columns` by name, and a save loses those whose name
  is not in the list (`ColumnsLost`, `db.go:939`). `givenUp` remembers the names that a
  removal or a renaming took out of the list. The other administrator adds and removes
  fields in an editor that saves no name twice.
- *CollectionsPage*: `newMoul` with its rules; `RulesOfType` is the rewriting of rules
  when the type changes, `Defaulted` that of blank ones when they are sent and again when
  they are stored; `entered` remembers what was chosen for each rule, by hand or by preset.
- *WorkersPage*: jobs of two tables, a table that may be dropped, orders that carry
  the table chosen when they were sent.
- *FlagsPage*: the list with what it says and what it misses (`ListAgain` is the
  invalidation), the playground's result with the flag it belongs to.
- *RealtimePage*: a loop of `subscribeWithFetch` connects, reads chunks cut anywhere
  into frames, breaks, pauses and connects again; `Unsubscribed` only sets its flag.
- *AdminSession*: `storage` is shared, each tab has a copy; `Write` is an action of
  one tab on both; `apart` remembers which tabs another one wrote behind.

`Dashboard` composes them: `route` is the page that is mounted, and the others do
nothing. A page is entered with empty state, so each mount has the behaviours of
its page alone, and one run checks them all. A page that is not mounted has its
bounds at zero.

## 3. The runs

| Run | Question | Bounds |
|---|---|---|
| `worker_documented` | With documented writers: one run per job, current snapshots, bounded attempts, complete error log, orphans only by a fault, the state diagram | two engines, two jobs, a slot each, one operation and one fault |
| `worker_interference` | Whoever interferes: slots are counted, a stopped engine stops claiming | one engine, two slots, two tables, two jobs, every writer once |
| `worker_liveness` | Every job finishes, every stop ends | one slot, two tables, two jobs, a delay, one retry, one stop |
| `moul_cache` | Lookups never go back, staleness is bounded, lookups and writers return (`CallsReturn`) | two lookups, a writer, two writes, one tick |
| `sessions` | One exchange per token, spent stays spent, revoked is rejected: here at once, elsewhere within the interval | two processes, two requests, one token, one failed statement or restart |
| `realtime_quota` | Quotas are counted, closed clients get nothing | two streams, room for one per user and two per address, settings reloaded |
| `realtime_streams` | Members only; streams whose token is spent, or that lost an event, end (`StreamsEnd`) | two publishers, one stream, one ticket, one token, a buffer of one, two events |
| `moul_admin` | Catalogue, tables and file references agree; updates repair, and keep values unless the type changes; unique fields | two administrators, three requests, two names, two columns, three schemas, one failed statement or crash |
| `moul_unique` | (violated) `docs/openapi.yml:3634` "Enforces unique values" | one administrator, three requests, no fault |
| `records` | Restrictions, cascades that enter a record once, announcements | two requests, three records, five schemas, one fault |
| `records_cascade` | (violated) `relations.mdx:37` on CASCADE | one request, two posts and a comment, posts that point to comments |
| `dashboard` | The thirteen properties of the ten pages | per page two to seven sets of bounds (`MCDashboard.tla`): two or three requests in flight, two openings of a drawer, a fault, another user |

**Why the bounds are enough.** Each race in the code is between two actors: two
engines on one row, two requests with one token, two publishers for one client,
two requests on related records. Two of each, with one fault, reach all their
interleavings; more only repeat them with other names, which symmetry says. Two
publishers meet at one client in `realtime_streams`, and two streams at one publisher
in `realtime_quota`. The
capacities that matter are at their limit: one slot, a buffer of one, room for one
stream, two attempts. Clocks run past every deadline of their module: expiry,
grace and interval in Sessions, the window and the heartbeat in Realtime, the
interval in MoulCache. Three records are the smallest chain with a record above
and one below. Three requests to collections create, change or rename, and repair;
three schemas on two columns change a type, add, drop and index a column. In the
dashboard what interferes meets two or three at a time: a drawer opened twice
beside one request and one upload, two requests beside a turned page, three edits
of a list of at most three fields, two tabs with a request each. The sets of bounds
of a page combine these, because a hazard needs one of each and not all at once.
The bounds are on what users do, and never on answers, which always may come. The
numbers of engines, jobs, lookups, writes, faults, tables, files, tabs and accounts
are arbitrary in the proofs of section 5.

`CHECK_DEADLOCK FALSE` appears where the system may rest: in WorkerQueue when
every job is done and all operations are spent, in Records when all requests were
answered, in MoulAdmin when every request has been made, in Dashboard when the user
does no more.

The type invariants of WorkerQueue and MoulCache are proved (section 5) and no run
checks them again.

## 4. Fairness

- **WorkerQueue**: weak fairness for the loop (its ticker fires), for each
  execution (handlers return: the engine has no time limit, so this is a promise of
  the handlers' author) and for time. Strong fairness for the return of a cancelled
  loop: its `select` may find the ticker or a wakeup ready each time, but Go picks
  at random among the ready cases, so `ctx.Done()` is picked in the end.
  None for callers, faults or a stop.
- **MoulCache**: strong fairness for each lookup and each invalidation, because a
  `sync.RWMutex` lets a waiting writer go before later readers and a waiting
  reader before the next writer; none for calls.
- **Realtime**: weak fairness for handlers, publishers and the heartbeat, and for
  the reaction to a disconnect (one case of a `select` with random choice). None
  for clients, events or settings.
- Sessions, Records, MoulAdmin and the dashboard state no liveness. Of the last
  nothing could be asked: users may leave, and a request may never be answered (the
  client has no timeout).

## 5. Proofs

All theorems hold for every value of the constants under the `ASSUME` of their
module (bounds are naturals, sentinels are not members), and where said, under a
hypothesis that stands in the theorem. Each proof module begins with its invariants;
TLC has checked those of the server's models on the instances of their runs (those of
the pages say of records which fields they have, and of lists that they are lists, which
TLC cannot evaluate). Per action a lemma
(`...Does`, or a case of `...Step`) says what it changes, and the invariants are
proved from that.

- `WorkerQueueProofs!TypeCorrect`: `Spec => []TypeOK`, with one lemma per action.
  TypeOK is inductive: it says that a loop's table is one of the list.
- `WorkerQueueProofs`: `NeverTwoRuns`, `SnapshotsAreCurrent`,
  `AttemptsStayBounded`, under `DocumentedOps` (`Allowed` contains no retry by id,
  patch, cancellation or reuse of ids): without it the first is false
  (section 6). Alone, none is inductive: a second claim is
  excluded because the row of a running job is executing, which the snapshot
  invariant says, and the limit of a row that is written back comes from the
  snapshot. `RunInv`, the conjunction of the three with TypeOK, is.
- `WorkerQueueProofs`: `SlotsAreCounted`, `FetchingHaltsAtOnce`, with no
  assumption on the writers: rows do not matter to slots. `EngineInv` adds to the
  count that a cancelled loop that is not in the middle of a claim will make none;
  goroutines are counted with the cardinality theorems of FiniteSetTheorems.
- `WorkerQueueProofs`: `ErrorLogStaysComplete`, `OrphansOnlyByFaults` and the
  refinement `ImplementsLifecycle`, under `DocumentedOps`. `RowsStep` says what one
  step may do to the rows, in the terms of a job's life; every action is shown to be
  one of these, by the snapshot invariant where a result is written. The error log
  and the step simulation then follow from `RowsStep` alone, with the states that
  are never written and the attempts that an inserted row has (`LifeInv`); a tick of the
  clock that makes a row due is the end of its backoff in the diagram. For
  orphans, an execution that fails no statement is shown to take its row out of
  "executing", and no other goroutine holds that row (`OneRunPerJob`).
- `MoulCacheProofs`: `TypeCorrect`, `LookupsNeverGoBack`, `StalenessIsBounded`.
  `CacheInv` adds where the lock is held and that it is only taken over a stale
  snapshot (`LockInv`), that nothing is ahead of the table (`Behind`), that what a
  snapshot misses was committed after its check (`SnapshotInv`), and that a fresh
  snapshot holds what every lookup that may still return it must show (`FreshInv`).
- `SessionsProofs`: `TokensExchangedOnce`, `SpentTokensStaySpent`,
  `RevokedTokensRejected`, for processes with one grace period (`OneGrace`). A row is kept until its token is over by the grace of whoever
  inserted it (`RowInv`); a process restarted with a longer one would accept the
  token again once the row is gone, so that without `OneGrace` the first two are false
  (section 6). Two exchanges need two insertions, and the second finds the row unless
  it comes late (`ExchangeInv`, `SpentInv`). `CopyInv` says what a process's copy may
  lack: what is over, what is younger than the copy, and what the last reading missed
  because it failed; `RequestInv`, that no request goes by an older copy than the
  interval allows.
- `RealtimeProofs`: `QuotaIsCounted`, `ClosedClientsGetNothing`,
  `OnlyMembersGetRecords`. A stream holds slots only between its acquisition and its
  release, whatever the settings become meanwhile (`QuotaInv`, with the cardinality
  theorems). Who counts as a member was one when last verified, or claimed so when
  connecting, and what a publisher has read of a user is no older than that
  (`MembersInv`).
- `RecordsProofs`: `RecordsTyped`, `RestrictionsHonoured`,
  `DeletionsFollowedThrough`, `ChangesReachListeners`, `SoundOneByOne`, for
  recursions of any depth. The history of a call, what has referenced its record ever
  since it began, is a set of references that are there (`HeldInv`). The check of a
  RESTRICT field that finds nothing therefore shows that none of it goes through that
  field (`RestrictInv`), and the query for the children finds all of it that goes
  through another (`FollowInv`), in spite of other requests. `AnnounceInv` has each
  change in the hands of its request. `AloneInv`, for requests one after the other:
  everything that references a record being deleted has done so from the start, each
  call waits for the one above it, and a reference to a row that is gone is one that a
  call under way still follows; so cycles end, and what a create or an update has
  checked holds when it writes.
- `MoulAdminProofs`: `AdminTyped`, `CatalogueKept`, `UniqueKept`, `UpdatesRepair`. A
  request that nobody joined is alone (`AloneInv`), and then a column that its lists
  no longer name is as its schema says (`Progress`), which makes the table fit when the
  catalogue is written, whatever happened before and whatever the catalogue says already;
  what it inspected is still so when it rebuilds (`AsSeen`). That no kept field is emptied,
  and none altered but where its type changes, is a statement about each of its steps
  (`UpdateKeepsValues`). `AgreeInv`, `RefsInv` and
  `UniqueInv` say how far a single request has come with the table and its row, the
  file references, and the indexes; `UniqueKept` excepts renames and updates given up, a
  refusal for duplicates included (section 6). An index bears the name of its table until one is
  renamed (`OwnIndexes`), and SQLite lets no value in twice beside it (`IndexesHold`).
- `DashboardProofs!OrdersAlwaysGoHome` (workers page). The rows on the screen are those
  of the chosen table (`RowsBelong`), the chosen table exists or the page has not heard
  that it does not (`TablesInv`), and the inspector keeps a job of a table that was
  chosen (`InspectorInv`).
- `DashboardProofs!TransfersAlwaysAsShown` (import and export). An upload under way
  keeps the dialog open at its form (`UploadInv`) and is the only one in flight
  (`FlightInv`), until Escape closes it. An export has the filter of the listing at the
  time it was sent, which cannot change under the dialog.
- `DashboardProofs!SessionAlwaysAgrees`. A request is known to be sent as an account
  that exists, and the answer of `refreshUser` to be about it (`AskInv`); a write of a
  tab leaves it with a copy of the storage, or it did not know the storage before
  (`WriteKeepsKnown`). The assumption added is that accounts have a first one.
- `DashboardProofs!FlagsAlwaysAsDone` (flags page). A write that a list misses is one
  whose answer is still to come, and will ask for the list again, or was lost
  (`MissesInv`). An evaluation under way is of the flag selected unless its `changed`
  says that it may not be, and only such an answer can land under another flag
  (`PlaygroundInv`).
- `DashboardProofs!LogAlwaysShowsStream` (page of live events). Only the loop that is
  alive reads (`LoopsInv`). What it has in its buffer and on its way, one after the
  other, are whole frames, each of an event later than the one before and than all in
  the log (`ReadInv`): a read takes half frames off the front of them wherever it was
  cut (`ChunkTaken`), and its whole frames go in front of the log in reversed order
  (`ChunkLogged`). The assumption used is that the log keeps one entry at least.

- `DashboardEditingProofs!AlwaysCreatedAsChosen` (collections page). The rules of the
  open drawer stay beside what was entered for them through every change of the type
  (`DraftAsMeant`), a creation takes both along (`PostsAsMeant`), and what the server
  makes of the blank ones once more changes nothing (`StoredAsMeant`).
- `DashboardEditingProofs!FormsAlwaysAgree`. An entry is submitted once, so the invariant
  only says what each verdict means (`FormInv`); what has to be proved is the agreement
  of the two sides for every kind of field, for credentials and for schemas, whatever
  the limits. The assumption used relates the parsers: what Go parses the browser does.
- `DashboardEditingProofs!DrawerAlwaysSound` (records page). Every row, page of the list
  and answer holds only a record's own values (`OwnedBy`), and the form, its uploads and
  the requests are of the record the drawer is open for, or marked as crossed
  (`DrawerFits`, `UploadFits`, `CallFits`).
- `DashboardEditingProofs!OwnWritesAlwaysShown`, `BatchAlwaysAllGone`. What a list lacks,
  stored or still on its way, is excused by a request that has succeeded and is not
  answered yet, by the batch under way or by a failure (`MissesExcused`): the answer
  that takes the excuse away marks the pages stale and drops the fetches. A record that
  a batch no longer waits for is gone (`BatchFits`), each of its requests being about one
  record that it waits for (`InBatch`).
- `DashboardEditingProofs!AlwaysSavesWhatWasShown`, `DraftsAlwaysKept` (settings page). A
  form differs from what was known when its drawer was opened only in what was typed
  since (`SectionSound`, `AccountSound`), and an index names the rule it was taken for
  until another list is read (`RuleSound`, `DoomedSound`). A drawer that shows what it
  opened with is the one that closes without a question.
- `DashboardEditingProofs!SchemaAlwaysAsEdited` (schema editor). Every list of fields, in
  the editor, on the server and under way, keeps its ids apart, its names too but for
  the titles entered by hand, and its unique fields required (`ListGood`), through
  adding, moving and removing: a list has fewer names than there are numbers to try for
  a new one (`NamesRunOut`). The names that the editor lacks of those read were given up
  in it (`DraftFits`), and positions of panels move with their fields (`PanelsFit`) until a
  read puts another list in place of the edited one.
- `DashboardEditingProofs!DashboardAlwaysSound`, `DashboardLosesNothing`. A page that is
  mounted makes the steps of its module and the others make none (`EachPage`), so that
  what was proved of each page holds of the dashboard. Only forms needs an invariant of
  its own, because an entry of a form that is not mounted is any (`FormsMounted`).

Every invariant and every action property that a passing run checks is thereby proved,
of the models of the server and of the dashboard. Only model-checked is the liveness
(`EveryJobFinishes`, `StopEnds`, `CallsReturn`, `StreamsEnd`: fairness is out of the
prover's reach). The violations `moul_unique` and `records_cascade` are counterexamples
and need no proof.

## 6. What the models show beside the properties

Behaviour that is reachable in the models and surprising, where no statement of
the repository is contradicted outright, or none that a run expresses:

- A retry that names ids (`RetryFailedJobs`, and two HTTP handlers) takes an
  executing job back too (`engine.go:577`, while the comment at `engine.go:566` says
  "discarded or failed jobs"), and it is executed a second time beside the first:
  with `"retryIds"` in `Allowed`, `OneRunPerJob` is violated.
- The state diagram (`workers-and-queues.mdx:20`) draws a failed job as Retryable until
  its delay has elapsed. The engine sets it to "available" at once (`engine.go:524`), so
  lists and filters by state never find it under that name, though an HTTP handler and
  the dashboard ask for it (`handlers/workers.go:314`, `workers.tsx:168`); the list of
  states below the diagram (`:28`) does not have it either. `RefinesLifecycle` reads a
  job that waits for a later `scheduled_at` as the diagram's Retryable.
- A crash between the claim and the result leaves the job executing for ever
  (`engine.go:405`; `workers-and-queues.mdx:30` says it is being processed).
- A cancellation of an executing job by the MCP tool is reported as done and
  overwritten by the result (`internal/mcp/tools_worker.go:147`).
- The cleanup deletes every discarded job each hour, whatever its age: the age it
  is called with is zero (`pkg/app/workers.go:127`, `internal/db/db.go:1233`).
- Jobs with the lower priority number run first (`engine.go:410`), while
  `tools_worker.go:34` says a higher priority runs first.
- `scheduled_at` is compared as text with the present time in UTC, so a time with
  another offset is due too early or too late. The model's due time is a number.
- A refresh overtaken by the end of the grace period and by the cleanup may
  exchange a token twice (`internal/handlers/auth.go:444`): the exception in
  `ExchangedOnceInTime`. After a restart with a longer grace a logged-out token can
  be refreshed again (`auth.go:558`).
- A stream's expired token is noticed at a heartbeat, up to fifteen seconds late,
  and never for an admin's stream; the claims of a new stream count as verified
  (`internal/realtime/hub.go:47`); a ticket is spent even if the quota then
  refuses the stream.
- An update that hides a record from a subscriber is sent as a deletion only if
  the original action passes the filter.
- A reference stored while its target is deleted dangles; two concurrent creates
  may share a 1:1 target (`internal/handlers/records.go:574`); two deletions of
  ids in one list may put one of them back (`records.go:1749`); the second of two
  deletions of one record announces it again; a COUNT that fails lets a restricted
  deletion through (`records.go:1592`). `SoundWhenAlone` is therefore stated for
  requests that do not overlap and without faults.
- A stream for a list of collections (`realtime-sse.mdx:26`,
  `?mouls=posts,comments`) is registered under the whole list as one name
  (`internal/handlers/realtime.go:186`), so it receives no event.
- An update with a rename that is then refused (400, "contain duplicates") leaves
  the table renamed and the catalogue as it was (`internal/handlers/moul.go:243`);
  `CatalogueAgrees` excepts it, `UpdateRepairs` says what mends it. A create under
  a name that exists fails at the last statement, after it may have added unique
  indexes to the other collection's table. An update of a collection that was
  deleted meanwhile answers success (`internal/db/db.go:1059`).
- After a rename the indexes keep their names. Besides the violation `moul_unique`:
  "unique: false" does not drop the old index, and an update under the old name may
  drop an index of the renamed table.
- An update that is refused for duplicates (400) has dropped the index of a field that was
  to be unique no more before the CREATE UNIQUE INDEX of a later field fails
  (`internal/db/db.go:957`), while `_moul` still has the field as unique: equal values are
  accepted without any rename, against `openapi.yml:3634`. `UniqueUntilRenamed` therefore
  excepts updates given up. The next update makes the index again, if no value is there
  twice by then.
- A rebuild casts the values of a column whose type changes (`db.go:716`): texts that are
  no number become 0, and texts that are no truth value false, without an error.
  `UpdateRepairs` promises only that the column stays filled.
- A refused DROP COLUMN rebuilds the table from the columns read at first, without
  the values of a column added just before: the exception in `UpdateRepairs`.

In the dashboard (`R` is `$moulName.tsx` of the records, `S` is `settings.tsx`):

- Records: "Export selected" exports the selected rows of the page on the screen,
  while toast and file name count the whole selection (`R:1095`). A batch that
  fails in part does not refresh the list. Creating a job from the drawer is always
  refused, because the form has no worker name. An upload that ends after another
  record was opened overwrites that form (`crossed`).
- Forms: lengths are checked untrimmed and sent trimmed; a JSON field of blanks is
  refused by the server only, as are URLs and times that only the browser parses,
  simple passwords, and a blank text under the negative maximum of a field that was a
  number field; the type `editor` is offered and refused; an encrypted field is
  offered without a key. A password of more than 72 bytes passes both sides' checks and
  fails in bcrypt (`records.go:669`, a 500). A JSON text that parses to a text is sent as
  that text, and refused or stored as what it says. A select without options takes any
  text in the form and none on the server.
- Import and export: Escape closes the dialog during an import, which goes on. With a
  text searched for, the dialog offers and shows "Active Filtered Subset"
  (`ExportModal.tsx:249`) and exports by the filter alone (`:151`), everything if there is
  none: the exception in `ExportAsShown`.
- Settings: a drawer opened before the settings are read saves blanks and is never
  dirty, and adding a rule then replaces all rules. The answer to any request closes
  whatever drawer is open. Two rules deleted in quick succession bring the first back,
  though the dialog says it takes effect immediately (`S:2014`). After the rules are read
  again, an open rule's index names another one. Saving a section overwrites the keys
  another administrator changed.
- Schema editor: a page whose first query failed saves an empty schema and blank rules.
  Options being typed stay at the position when a field moves; panels likewise when the
  list is read again. Edits made during a save are lost by its refetch. A save drops a
  column that was added meanwhile. The server knows columns by name (`db.go:939`), so
  renaming a field drops its column with the values, also when the name follows a change
  of type by itself (`FieldsBuilder.tsx:546`), and a new field under the default
  name of a removed one takes over that one's values, if both come in one save.
- Collections: a blank rule of an "auth" collection is sent, and stored, as the owner's
  (`collections/index.tsx:298`, `moul.go:66`), though the form says "Leave blank for public
  access." (`RulesEditor.tsx:161`) and its preset "Public" blanks all rules (`:101`,
  `:177`): such a collection cannot be made public there. `CreatedAsChosen` states it as
  the exception. An owner's rule entered for a "base" collection is gone after the type
  was "auth" for a moment. The button of the empty page opens the old
  draft. The answer to a creation empties whatever draft is open.
- Workers: the inspector shows the job as it was listed, and offers a retry in every
  state; after its table is deleted, orders go to `_workers`.
- Flags: a late result is shown under another flag; a switch pressed twice sends the
  same twice; one that fails says nothing.
- Realtime: a loop keeps the token it began with, and asks again every three seconds
  for ever when that has expired.
- Session: any failure of the first request clears key and token, though the comment
  says "(401)". After signing out the page stays, and saving the account there signs
  in again as the first root user. A login that succeeds after "Change Key" stores a
  token without its key; a setup restores a cleared key. A failed login signs out who
  was signed in.

## 7. What is not modelled

Strings and their formats, SQL text, HTTP details, logging and metrics; ciphers,
signatures and hashes; images; the network. The parts of section 1 that no module
names. Of modelled parts: the handlers of jobs and the other periodic tasks
(WorkerQueue), passwords (Sessions), validation, rules, encryption, listing and
expansion (Records), how values are drawn and edited one by one (dashboard pages).
Of the dashboard: the overview, analytics, documentation and developer pages, which
only read and draw, and the layout. The website, the benchmarks and the examples
hold no logic of the program.

Hazards in parts that are not modelled:

- `internal/auth/device_flow.go:64`: a new user code is compared with its dash while the
  table is keyed without, so that a collision is not seen.
- `internal/dataio/dataio.go:236`: an import in replace mode empties the collection
  first, and may stop before it is filled.
- `internal/tls/storage.go:87`: two processes that both find a lock expired both take it.
- `internal/analytics/analytics.go:194`: requests are dropped when the channel is full, when
  a batch fails and when the flusher has ended.
- `internal/flags/provider.go:62`: a flag is answered from a copy that another process made
  stale.
- `internal/handlers/otp.go:148`: a new code and the reset of its counter are two steps.
- `internal/filegate/filegate.go:243`: a public decision read before a change is remembered
  after it.

Three hazards of modelled parts have no property, because the code does not have it:
a restart with a longer grace (`internal/handlers/auth.go:558`), the order in which two
updates of a record are published (`records.go:1492`), and the relation targets that
are checked in one statement and stored in another (`records.go:574`, `1749`).

## 8. Plan

In this order; each as a module with its own state, actions and properties.

1. *Otp*: codes, expiry, budgets and windows, requests at once. To prove: the
   budget of a code is never exceeded.
2. *RequestLog*: channel, batch, flush, stop, and the visit cache. Abstract
   specification: a bag of records, each written at most once.
3. *Flags*, *RateLimiter*, *DeviceFlow*, *OAuthServer*, *CertStorage*, *FileGate*,
   *DataImport*.
4. *Rules*: evaluator and SQL translation over bounded trees, as functions.
5. The proofs of these modules, each beside its component.

Modules that share no state can share a run, as the pages of the dashboard do: a
specification that picks one of them and runs it has the behaviours of each, and
their instances stay small.
