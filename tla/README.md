# AoiTalk: Sync v3 and App Actions, specified, model-checked and proved

AoiTalk is a personal assistant server (Python, FastAPI, PostgreSQL) with a web
frontend, a mobile app (Expo, SQLite), a desktop bridge and many adapters to
models and services. This directory holds TLA+ specifications of its two most
delicate protocols: **Sync v3**, by which the mobile app works offline on the
tasks, projects, records, documents and conversations of an account, and **App
Actions**, by which a command of an app runs on the server once, under a
supervisor process that may outlive the server.

Paths below are relative to the repository: `src/sync_v3/ops.py`,
`mobile/src/sync/v3/pull.ts`, `src/services/app_action_run_service.py`.

## 1. The system

### 1.1 Sync v3

| Part | Code | State | Operations |
|---|---|---|---|
| Change log | `src/sync_v3/schema_sql.py`, `contract.py` | `sync_change_log`, `sync_entity_versions`, two sequences | row triggers at INSERT/UPDATE/DELETE, deferred trigger at COMMIT |
| Feed | `change_feed.py`, `page_builder.py`, `rows.py`, `scopes.py`, `src/api/sync_v3_routes.py` | `min_retained_commit_seq` | `/scopes`, `/bootstrap`, `/changes`, purge |
| Operations | `ops.py`, `receipts.py`, `src/api/sync_v3_ops_routes.py`, `sync_v3_appliers.py` | receipts, device floors, the business rows | `POST /ops`, purge of receipts |
| Client pull | `mobile/src/sync/v3/pull.ts`, `apply.ts`, `state.ts` | local rows, membership, saved state | one run: reconcile, bootstrap, changes |
| Client push | `mobile/src/sync/v3/push.ts`, `mobile/src/repositories/outbox.ts` | outbox, device state, v2 holds | allocate, send, settle |

How they interact. Any transaction of the server (REST, workers, v2 sync, `/ops`)
writes rows; triggers add log records in the same transaction, without a
position; at COMMIT a deferred trigger takes one global lock and numbers them.
A reader asks `/scopes` for what it may see and a head cursor, copies every scope
with `/bootstrap`, then follows the log with `/changes`, which sends the *current*
row of every entity the page names. Each of these requests is one `REPEATABLE READ`
snapshot. The client applies each page and its new position in one SQLite
transaction. Local edits go out as operations with an id; the server stores a
receipt with the effect so that a resent operation is recognised, until the device's
retirement floor has passed it.

What is hard: commit order is not log order; a purge runs beside readers; a child's
scope is looked up through a parent that a cascade has just removed; a client is
interrupted between any two units and its scopes come and go meanwhile; requests
are duplicated, delayed past the retirement of their receipt, and killed anywhere,
the instant after COMMIT included.

What makes each part correct:

- *log and feed*: a cursor never passes a change that becomes visible later; every
  visible change is recorded for every scope it concerns; a purged cursor is refused;
  `row_version` identifies contents; pages progress.
- *operations*: decided once; effect and receipt together; nothing below the floor
  is applied again; no lost update; callbacks only after a commit; no deadlock.
- *client pull*: what is held is what is served, except while the saved position
  still leads to the difference; a row stays exactly while some scope accounts for
  it; generations only grow; interrupted runs get to the end.
- *client push*: a pending operation is never below the floor sent; an identity never
  stands for two requests; nothing is sent over v2 that v3 may have applied; no edit
  disappears; everything is settled.
- *conversations*: whoever may see a change when it is committed is told of it, although
  viewers join and leave while messages are written.

### 1.2 App Actions

| Part | Code | State | Operations |
|---|---|---|---|
| Record | `src/services/app_action_run_service.py` | `app_action_runs` in PostgreSQL: `status`, `dispatch_state` | create, dispatch, reconcile, stop, recovery at start-up |
| Transport | `app_action_server_transport.py` | none of its own; awaits while it prepares a runtime | start, status, stop |
| Journal | `app_action_server_journal.py` | SQLite: reservations, runs | reserve, prepare, claim, mark, stop |
| Supervisor | `app_action_server_supervisor.py`, `app_action_process.py` | a process per run | register, launch, watch, kill, write the outcome, clean up |

The record service asks the transport to start a run, once, and then reconciles: it asks
for the status and merges the answer. The transport reserves the run in the journal,
prepares a runtime directory, and spawns a supervisor, which registers itself, launches
the command, watches it and the stop flag, and writes the outcome. Transport and
supervisor meet only in the journal and in the runtime directory.

What is hard: either process may die anywhere and the command may outlive both; a
supervisor is judged by the identity in a row read earlier; a duplicate start comes while
the first one prepares; answers are lost or arrive out of order; a restarted server
finds records of runs it knows nothing about.

What makes it correct: the command runs at most once; its directory stays while it runs;
an outcome is written only when it is over and is not overwritten; a run nobody
supervises is decided; the record never says "over" of a run that works; it never goes
back, and it learns the outcome.

### 1.3 The rest

Not modelled: they take part in neither protocol, are mostly I/O, or are planned
(section 2). `PROJECT.json` lists each with its reason: v2 pull, v3 control and conflict
screens, schema readiness, shared local runtime, heartbeat, agent work runtime, PC bridge,
agent link, voice sessions, local browser broker, admission/budgets/breakers, restart
drain, human interaction, task management workers, sessions/memory/RAG/LLM/TTS/audio/
Discord adapters, frontend. Those with a state machine worth a module of its own are the
other journals (`pc_bridge/action_journal.py`, `agent_link/journal.py`), the leases of the
shared local runtime and the restart drain.

## 2. Plan

Done:

1. `SyncChangeFeed`: log, feed and an idealised reader; proofs.
2. `OnceOnly`, `SyncOps`: operations implement "decided once"; proofs.
3. `SyncPull`: the real client against a server that does what 1 promises; proofs.
4. `EditDelivery`, `SyncPush`: the outbox against a server that does what `OnceOnly`
   promises; implements "no edit disappears"; proofs of that, of its identities and
   floors, that an edit is not sent over both transports at once, and that the server
   never turns the client away.
5. `SyncConversation`: viewer sets and row locks; proofs.
6. `RemoteRun`, `ActionServer`, `ActionRuns`: the server implements `RemoteRun`, the
   record is composed with `RemoteRun`; proofs of both.
7. What the liveness properties rest on and needs no fairness, proved: pages, units,
   locks, stops and answers make progress. The promises that the violated runs refute,
   proved under the condition the counterexample breaks.

Left, in this order:

8. `SyncPull` and `SyncPush` in one composition, with the contents of rows under edit.
9. The journal of the PC bridge, as a second implementation of `RemoteRun`.
10. The leases of the shared local runtime; the restart drain.

## 3. The modules

### 3.1 `SyncChangeFeed`

| TLA+ | Code |
|---|---|
| `db`, `writes` | committed rows; uncommitted writes of a session (its row locks are the entries that are not `Unwritten`) |
| `buf`, `stamp` | its log rows with `commit_seq` NULL; the number drawn |
| `Insert`, `Update`, `Delete` | a row write and its row trigger, cascade included |
| `AssignCommitSeq`, `Commit` | the deferred trigger: lock and draw; then number, upsert versions, become visible, release |
| `Abort` | rollback or crash |
| `PurgeExpired` | `_PURGE_SQL`, one statement; the age limit may fall anywhere |
| `ReadScopes`, `ReadBootstrap`, `ReadChanges` | one request each, one snapshot each |
| `phase`, `cursor`, `todo`, `view` | a reader that does what the protocol asks |

The two parts of the commit are two actions because the interleaving that matters lies
between them: a number is drawn, not visible yet, and another transaction commits.
An entity is a *root* (scope column of its own) or a *child* (scope of its parent,
`sync_v3_task_project` and its siblings). `rev` stands for the contents of a row.
`unlogged` and `moved` are history variables and no guard reads them.

Abstracted: 18 tables become roots and children; the four scope columns become one;
row contents; the byte budget, which may cut a page wherever the code could. An empty
cursor (position `None`) is not sent by the client and not modelled. Foreign keys are
modelled as PostgreSQL enforces them (an insert waits for an uncommitted delete of the
parent, a delete for uncommitted writes of its children).

### 3.2 `OnceOnly` and `SyncOps`

`OnceOnly` is the promise: an `op_id` is decided once, for one request, and every answer
reports that decision to that request. `SyncOps` has
an action for every statement of `_commit_record` that another session can see or wait
for: `LockOp`, `Lookup`, `RefuseRetired`/`PassFloor`, `LockEntity`, `Read`, `Write`, `Commit`,
`RunCallbacks`, `Reply`; `RaiseFloor` and `Take` are `apply_ops`, `Purge` is
`purge_retired_receipts`. `Fail` is any exception at any point, one thrown by a commit
that took effect included; `Leave` is the end of the request or the death of the
process. Clients are arbitrary: any operation, any number of times, any floor. The
system has one user; keys that the code qualifies by user are not.

An applier is two kinds of step, because the lock on the entity does not cover all that
is written, nor keep everyone out. `Read` reads the row of the entity and decides: a
rejection, an operation with nothing to do, or one that goes on, with the other rows it
will change. `Write` writes one row when no other transaction holds it (`Free`); `writes`
are the row locks held until the end. Who looks at the base, and at which rows, is `Stale`:

| Action | Code | Base |
|---|---|---|
| `create`, `update`, `delete` | tasks, time entries, projects, records, `_ensure_not_stale` | compared with a live row; a delete of a tombstone or a purged row has nothing to do, whatever its base |
| `restore` | `restore_task` | none: it wants a deleted row |
| `put`, `archive` | Docs, `ensure_docs_operation_is_fresh` | compared, by `put` with a deleted row too |
| `pin`, `erase` | conversations | a pin has the time of the last pin, which is not modelled (a reason to reject like any other); a delete has none |

Other rows (`AlsoOf`): a timer that starts stops the running one and sets the status of its
task, a task that is deleted or restored takes its children, occurrences and entries along.
`OtherWrite` is everybody who takes no entity lock: REST routes, v2 and the workers. Only a
conversation is read `FOR UPDATE` in the first place (`ReadsLocked`). Of the rest the row
is compared as it was read, locked by the write, and not compared again: SQLAlchemy's
identity map keeps the attributes of the first read, also for the Docs rows, which are
read before they are locked. So an operation can be overtaken in between, by `OtherWrite`
or as another row of another operation; `overtaken` records it and `NoLostUpdate` names
it as the one exception. What `NoLostUpdate` promises without exception is that two
operations on one entity never overtake each other. Row locks are taken in any order, so
two handlers may wait in a ring, which the database detects (`Ring`, `Detect`: `Fail`).

`row` holds `updated_at` as the number of committed writes, and whether the row is live,
deleted or absent. `outcome` is a history variable that remembers the first
record committed for an `op_id` with the request it was for, `effect` the rows an operation
changed, `other` the writes of others, and `EffectOnce` adds them up: every write of a row
is the one effect of an operation decided as applied, or of others. An operation below the
floor of its own body is refused
without a transaction (`ops.py:371`); that refusal is not counted in `refused`, because
the floor of the body was raised first and a client does not send such operations.
`conflicts`, encryption and the entity in the answer are left out; file locks of
`outer_lock`, the lock on a project's access list and the README checkpoint too.

### 3.3 `SyncPull`

State: `saved` (what `writeSyncV3StateInWriter` wrote), `mem` (what a run holds),
`rows`, `members` and `guarded` (local tables and the outbox), `pc` and `resp` of the run, and the server as five
variables. One action per write unit of `pull.ts` or decision of the server's answer:

| TLA+ | Code |
|---|---|
| `StartRun`, `Finish`, `Interrupt` | `runV3Pull`, `run` |
| `FetchScopes`, `EvictChunk`, `AdoptScopes` | `fetchAndReconcile`, `reconcileScopes` |
| `BootstrapPage`, `BootstrapGone` | `bootstrapPending` (404) |
| `ReadChanges`, `ExpireCursor` | `readChanges`, `expireCursor` (410) |
| `RequestRebootstrap` | `requestV3ScopeRebootstrap`, at any time |
| `Edit`, `Create`, `Settle` | `enqueueOutbox`, and the removal of an operation from the outbox |
| `ServerWrite`, `ServerGrant`, `ServerRevoke`, `ServerPurge` | what `SyncChangeFeed` and `compute_scopes` let a client see |

A page is fetched and applied in one step: only the server and `RequestRebootstrap` act
between the two, neither reads what the page writes, and the unit overwrites `saved`
whatever it holds, so the order does not show. The answer of `/scopes`, used across
several units, is kept in `resp`. `Parse` drops `evictionPending`, as
`parseScopeState` does. Scopes are bootstrapped in any order (the code sorts them).
A budget, an abort, the restart limit and the record safety check are `Interrupt`.
`Hidden` is `hasSyncV3ProtectedLocalRowInWriter`: a row that is hidden or evicted stays
while it has a pending operation or an open conflict, and a row the server has deleted goes
all the same (`applyRemovalsInWriter` filters "hide" only). `rows` holds the server's
revision a row rests on; an edit on top of it is only seen in `guarded`, and what becomes of
it is the subject of `SyncPush`.

`FreshGrants` is an assumption on the environment, not on the code: TRUE says that a
scope that comes back has a fingerprint (role, access, ACL: `scopes.py`) it never had.
The passing runs assume it; `pull_evict` shows what happens to an eviction without it, and
section 5 names what else would (records skipped by a cursor), which no run shows.

Left out: the reset of membership when there is no saved state (both are always cleared
together, `mobile/src/repositories/sync-cache.ts`), `fullEvictPending` and
`lastSuccessAt` (diagnostics), the preservation of pending Docs rows against upserts, the
settlement of tasks and Docs nodes (which applies the server's answer to the row), and
`requestV3DocsRebootstrap`, which runs inside the exclusive sync context just before a
pull and does to every Docs scope what `RequestRebootstrap` does to one.

### 3.4 `EditDelivery` and `SyncPush`

`EditDelivery` says what may become of an edit: it waits, it takes effect, or it is given
up explicitly; it never disappears. `SyncPush` is the client: `outbox` (one row per
entity with its `op`, identity, the digest it was sealed with, retries, quarantine),
`holds` (v2 fallback holds) and `device` are durable; `batch`, `sealed`, `floor`,
`answers` and the rest are the memory of one push and go with it.

| TLA+ | Code |
|---|---|
| `Enqueue`, `Revoke`, `AutoResolve`, `LoseDevice` | `outbox.ts`, `autoResolveStuckOutbox`, a lost device identity |
| `StartV3`, `SendChunk` | identities, seals and the floor, then one request per chunk |
| `Begin`, `Handle`, `Disabled` | the server receives, handles one operation after the other, or answers 503 `sync_disabled` |
| `SendFallback`, `ReceiveFallback`, `StartV2`, `ReceiveV2` | the fallback with its durable holds; a push over v2 |
| `Settle`, `Quarantine`, `Finish` | the result loop of `pushOutboxOnce`, one row at a time |
| `Interrupt`, `BeginLate`, `HandleLate` | the app is stopped or gives up; its request may still be handled, or be lost |

The server is the promise of `OnceOnly`: an identity is decided once, or refused as
retired. A request goes by the floor that it found or made when it began; a floor that
rises later may have purged a receipt or not (`ReplayReceipt`, `RefuseRetired`), and does
not stop an operation that has passed its check (`Decide`). An exception is answered with
`retry`, whether it comes before the commit, which leaves no trace (`RollBack`), or after
it. Whether v3 is enabled is decided anew at each request. Bases are the current version
or none. A row that was edited while its request was under way stays as it is, except
that a conversation, and a Docs create of which nothing but contents was edited
(`Continues`), goes on as an update of what the server has now.

Left out: delete and reorder rows, the order of operations of different entities (rows
of one entity are merged), the create of a document that is there already and is taken
for acknowledged (`docs_base_missing`) although it was edited meanwhile, `applied_partial`, encryption, the wording of conflicts.
`posted` and `unanswered` are history variables, forgotten for rows that are gone.

### 3.5 `SyncConversation`

One conversation with its messages and participants; transactions are `READ COMMITTED`,
a statement at a time. `WriteMessage` and `WriteParticipant` write a row; its trigger is
`LogMessage` or `LogParticipant`, which first takes the lock (`FOR SHARE`, `FOR NO KEY
UPDATE`) and reads in a statement of its own, as `schema_sql.py` insists. Updates and
deletes of the conversation hold the row lock when the trigger runs. `Abort` is a
rollback, a crash, or the victim of a deadlock (two holders of a share lock that both
want more).

Left out: the `KEY SHARE` locks of foreign keys, which only exclude a concurrent delete
(modelled directly) and nothing else; statements that write several rows; access to
projects, which is constant (`ReadableBy`).

### 3.6 `RemoteRun`, `ActionServer`, `ActionRuns`

`RemoteRun` is the promise of the server about a run: a phase that a status request may
show, and work that is done at most once and is over when the phase says it ended.
`ActionServer` implements it: `row`, `reserved` are the journal, `files` the directories,
`sup` and `child` the processes, `api` the one request that has the API process between
two statements. `Start` .. `Reply` are the transport, `Open` .. `Close` the supervisor;
`ApiCrash`, `SupervisorCrash`, `Error` (an exception anywhere in a supervisor) and
`ChildExit` are the faults. A status request reads (`Status`) and decides later (`Judge`,
`Spare`); a stop request reads (`Stop`) and writes later (`WriteStop`): supervisors come
in between. The five seconds of grace may have passed or not, and the identity of a
supervisor that lives may be unreadable (`Alive`): its run is marked unknown, until it
reports again or ends.

`ActionRuns` is composed with `RemoteRun`, not with the code below it: `rec` is the
database row, `disp` the request that dispatches a run (`create_run`, `dispatch_run`),
`task` the requests that reconcile or stop one, and `recovery`, `doomed` the recovery at
start-up. The answers of the server are the phase at some earlier moment. A run has one
dispatcher: the only caller of `dispatch_run` (`app_action_runtime_service.py:1286-1295`)
calls it for a run it has just created, never for a replay (1190-1215, 1287); the fence
of `Claim` is met by stops, reconciliation and the recovery.

Left out: the PC bridge variant (disabled by default), service and desktop modes, input
staging, authorization, output capture and logs, identity mismatches of runtime files
(an error like any other).

## 4. Runs

| Run | Bounds | Shows |
|---|---|---|
| `feed` | 2 writers, 1 parent + 1 child, 2 scopes, 1 reader of one, page limit 2, 3 log rows, fair reader | `CommitOrder`, `NothingMissed`, `EveryChangeLogged`, `VersionIdentifiesRow`, `CursorAdvances`, `Drains` |
| `feed_move` | 1 writer, reader of the new scope, 3 log rows | violation of `ReaderConverges` |
| `conversation` | 2 transactions of 2 row writes, 2 users, 2 messages, 2 projects | `EveryViewerTold` |
| `ops` | 2 handlers, 3 rows, a timer that is started and a delete that touch each other's rows, an edit with a reused id, floor and other writes at most 1 together, fair | `OnceOnlySpec`, `ReceiptKept`, `EffectOnce`, `NoLostUpdate`, `CallbacksAfterCommit`, `Served` |
| `pull` | 2 scopes, 2 rows, batch 1, 1 write, 1 further grant | `NothingMissed`, `NothingLeftBehind`, `RowsAccounted` |
| `pull_live` | 1 scope, 1 row, edited on the device, 2 writes, 1 further grant, generations requested up to 2, fair | `Converges`, `RowsAccounted` |
| `pull_evict` | 1 scope, 2 rows, 1 further grant | violation of `HoldsAll` |
| `push` | 2 entities of different kinds, 2 edits, 1 retry, 2 device identities, chunks of 1, 1 version write each | `FloorSparesPending`, `OneRequestPerIdentity`, `EditsDelivered` |
| `push_late` | 1 entity, 2 edits, 1 request given up but under way, fair | `OneTransport`, `NeverTurnedAway`, `Drains` |
| `actions_server` | 1 run, any number of requests and crashes, fair | `OneRuntime`, `FilesKept`, `OutcomeStays`, `ImplementsRemoteRun`, `Settles` |
| `actions_record` | 1 run, 1 task, fair | `TerminalIsOver`, `RecordStays`, `NeverBack`, `Learns` |
| `actions_unknown` | the same | violation of `LossShown` |

Passing runs also check deadlock, except the feed and the push: there log rows, edits and
versions are bounded, and a system that has used them up and has nothing to send may stop.

Why the bounds suffice. *Feed*: the interleavings need two writers; a move of a parent
takes two records, a cascade two; three log rows allow either beside another transaction,
a page that ends within a transaction, and a purge below, at and above the cursor; the
proofs cover longer logs. *Conversation*: a message and a change of viewers in two
transactions, with a further statement each, so that locks are taken in either order and
upgraded; the proof covers any number. *Ops*: two handlers of the same operation are the
duplicates; the second operation gives the floor something to retire and the row a second
writer; the altered request meets the first one's receipt; the timer and the delete write
the task and the running entry in either order, which makes a ring. One write of others, of
the task, is enough to overtake an operation, to delete its row first or to put it back.
Restores, Docs and conversations are not in this instance: the theorems cover them. *Pull*: two scopes with shared
rows make memberships overlap; a batch of one makes every sweep of two rows interruptible.
One row of one scope is enough to edit it before, between and after its scope is lost;
with two scopes and two writes the same holds (2.4 million states, not run every day).
*Push*: two entities in chunks of one make a push of two requests, of which the second may
be disabled; two edits are one that arrives while the other one is sent; one retry makes a
row stuck after one error. A late request needs only one entity to meet an edited row.
*Actions*: runs share nothing but the API process between two statements, so one run shows
what can happen to it; `ActionServer` was also checked with two runs (363,000 states, all but `Settles`) and
`ActionRuns` with two tasks (478,000 states), which is too long for every day.

Symmetry is used in runs without liveness only (transactions and messages; rows and
scopes of the pull).

Fairness. *Feed*: a client that runs asks again (weak fairness of its next request);
nothing of the writers. *Ops*: a handler runs on, and PostgreSQL grants a lock to a transaction that waits while it is free again and again
(strong fairness of `Step`, whose lock and row steps wait), and it finds a ring of row
locks and fails one of its transactions (weak fairness of `Detect`; without it `Served`
does not hold); nothing of arrivals, other failures, other writers or purges.
*Pull*: strong fairness of the steps of a run: the app starts runs again and again
(`StartRun`) and an interruption does not always come before the same unit; with weak
fairness only, a run interrupted before the same page for ever never ends, and nothing in
the code prevents it. *Push*: the scheduler starts pushes again and again, the server
offers v3 again and again, and from some point pushes are no longer interrupted; a stuck
row is resolved if it can be for long enough (`autoResolveStuckOutbox` at each cycle).
*Actions, server*: processes that are not killed go on (weak fairness); the user interface
keeps asking, and the row is sooner or later more than five seconds old (strong fairness
of `Status`, and of `Judge` where no supervisor lives: that the identity of a living one
cannot be read is not counted on). *Actions, record*: users look at their runs again and again, and
not every answer is lost; nothing of dispatch or recovery.

## 5. Where code and documents disagree

Shown by a run:

- `feed_move`: moving a task to another project (`tasks.py:2389`) does not log its time
  entries and occurrences, whose scope it changes; a caught-up reader of the new project
  lacks them and one of the old project keeps them. `EveryChangeLogged` shows that this is
  the only kind of change that is not logged.
- `pull_evict`: `evictionPending` is not read back by `parseScopeState`; a scope that
  returns after an interrupted eviction with its old fingerprint keeps its holes.
- `actions_unknown`: `_snapshot_is_stale` rejects answers "that would revive an older
  state", and ranks `unknown` so that it also rejects the news that a run was lost: the
  record of a run whose supervisor died shows `running` for ever.

Met while modelling; the properties name each as an exception, so that everything else is
still checked:

- A pull unit saves the run's copy of the state over a re-bootstrap requested meanwhile
  (`pull.ts:187`); `state.ts:192` says units re-read before writing.
- The cursor advances over a page read under another scope set (`pull.ts:414`). When the
  set changes back with the same fingerprint, the records in between are never read. The
  passing runs assume that a returning scope has a new fingerprint (`FreshGrants`).
- A row that came with a scope not yet saved is not removed when that scope goes before
  `/scopes` is read (`apply.ts:561`, `642-643`; `strays`).
- A row kept for its pending operation when its last scope was lost (`apply.ts:361-365`)
  loses its membership all the same. Once the operation is settled, no later sweep or
  eviction finds the row, since both start from membership (`RowsAccounted`,
  `NothingLeftBehind`).
- A hold written before the v2 request is never taken away when the request is interrupted
  before its answer: the row waits for ever (`Undecided`). `autoResolveStuckOutbox` does
  not look at holds, although `push.ts:446-449` says the row stays durable.
- `request_stop` (`app_action_server_journal.py:720-735`) reads, then updates without
  looking at the status again: a run that ended in between becomes `stopping`
  (`OutcomeStays`).
- A crash, or an exception `start` does not name, while a runtime is prepared leaves the
  reservation `preparing`: the run is reported `accepted` for ever (`pending`).
- A command that ignores the signal of the POSIX backend is reported cancelled, and its
  directory removed (`child = "ignoring"`).
- `_mark_blocked` relabels a run cancelled before its dispatch, though "Terminal outcomes
  are immutable" (`app_action_run_service.py:1095-1097`), and the recovery may block a run
  that has been dispatched since it looked (`overtaken`).

## 6. Proofs

Constants are arbitrary under the named assumptions of the modules, which state what the
schema and the clients guarantee (foreign keys go one level deep; sentinels are not
values) and which TLC evaluates in every run.

`SyncChangeFeedProofs`: `OrderInvariant` is inductive. `CommitOrder` alone is not: it says
that a number drawn is above every visible one, and to keep it one needs that *visible*
numbers and cursors are below the *next* number, and that at most one transaction holds
the commit lock. `TypeCorrect`, `CommitOrderHolds` follow.
`NothingMissedHolds` adds the reader: each of its requests is treated by itself, and the
page of `ReadChanges` uses that a page is a prefix, so that what is left of the records
is still after the new cursor. `CursorAdvancesHolds` needs that no cursor is above the
head and that the head never falls, a purge that empties the log included: that is what
`min_retained_commit_seq` is for. `VersionIdentifiesRowHolds` needs that every row a
transaction writes is logged by it (the cascade included) and that its number is above
every version in use; then a row either keeps its version and its contents, or gets a
version no reader holds.

`SyncChangeLogProofs`: `EveryChangeLogged` is about one commit, while the records were
written by the statements before it. `LogInv` says what holds of an open transaction in
between: a row it wrote is locked by it alone; a root it wrote
is in its log under the old and the new scope; a child it wrote is logged in a scope its
parent has had since the last commit, or the parent is one of those that moved, which the
property leaves out. The commit of another transaction keeps this: either it leaves the
parent's scope as it was, or it moves the parent. `EveryChangeLoggedHolds` reads it off at `Commit`.
`RowsInvariant` adds that numbers are drawn once, that the log is finite and that a reader
past its bootstrap has every row. With it `ReadNeverStuck` shows that a page always exists,
`ReadsShrink` that each one leaves a proper part of the finite log ahead, and
`ConvergesButForMoves` that a caught-up reader agrees with the database in everything but
the children of roots that moved. `ConvergesWithoutChildren` is the promise that `feed_move`
refutes, where there are no such children: the move of a parent is the only way to break it.

`SyncOpsProofs`: `InductiveInvariant` says what a handler knows at each statement (no
receipt after `Lookup` while it holds the lock, unless the floor is past the operation),
that the advisory locks and the row locks exclude, that an undecided operation has no
receipt, and what a handler may rely on of the row it has read: that it allowed the
operation, and is the same still or was overtaken (`TxnInv`). A commit of another handler keeps
this because it holds another entity lock, and because rows it has locked are not rows this
one has locked (`OvertakesKeeps`). From it:
`TypeCorrect`, `ReceiptKeptHolds`, `CallbacksAfterCommitHolds`, the action property
`NoLostUpdateHolds`, and `ImplementsOnceOnly`, the refinement of `OnceOnly`: `Commit` is
`Decide`, `Reply` is `Report`, all else stutters. `EffectOnceHolds` counts: a row has been
written exactly once for each applied operation that changed it and once for each write of
others, by a commit that fails after
it took effect, a resend and a purge alike. `LocksLetThrough` is why nothing deadlocks
for good: among handlers that wait only for each other there is a ring of row locks, so the
advisory locks, taken in one order, add none, and a ring of row locks is what the
database breaks.

`SyncPullProofs`: the properties speak of the saved state, while a run works on a state
in memory, which a request for a re-bootstrap may leave behind. `StateInv` therefore says of
any state what it promises about the tables, and `PullInv` says it of both. A scope is
*current* in a state when the fingerprint it has, or is being fetched for, is the granted
one. For a current scope a row not after the cursor is held, in the generation that is
being fetched, unless the bootstrap has still to reach it (`Covered`), and a member that is
not served any more is a stray, has a record after the cursor, or is of an older generation
than the one that will be swept (`Swept`); a state without a cursor fetches everything anew
in generations no member has (`Anew`). What makes this inductive beside: no state aims at a
fingerprint not yet issued (`Past`), the members of a scope being evicted are not of a
current one (`Evicting`), and both states have one cursor and one revision (`InRun`). From
it: `NothingMissedHolds`, `NothingLeftBehindHolds` and, step by step, `RowsAccountedHolds`;
`UpToDateAgreesHolds`, that a client with nothing left to do holds what it is served and,
but for strays, nothing else; and `HoldsAllIfFresh`, the promise that `pull_evict` refutes,
so that a returning fingerprint is the only way to break it. `BatchExists` and `RunAdvances`
say that no unit waits or leaves its work as it was; they do without `FreshGrants`.
They assume `FreshGrants`; `TypeCorrect` does not. `PullConstants` makes rows and scopes
finite sets, because a batch that is not full is all there was only of a finite set, and
`PullSentinels` says that the values for "none" are no rows, states, scopes or answers.

`SyncConversationProofs`: `EveryViewerTold` is about one commit, but the records were
written by earlier statements, each with the viewers of its own moment. The invariant
says what holds of a transaction in between: what it has written it holds the lock for,
unless the trigger has still to run (`LockedBy`); while it holds an exclusive lock, others
have only rows whose trigger waits (`Foreign`), while it holds a share lock, others have
changed messages at most; and whatever is different in its own view from the committed
rows is in its log for everyone who sees the difference (`ToldBy`). A commit of one
transaction keeps `ToldBy` of the others because the locks leave it nothing to change
that they have logged against. `EveryViewerToldHolds` reads it off at `Commit`.

`ActionServerProofs`: `ServerInvariant` relates the places: the request that claimed a run
is the only one that spawns, a supervisor exists only for a claimed row, a command only
for a supervisor past `launch`, an outcome is only written, or about to be written, when
the command is over or was killed, and a cleaned run ended. From it: `TypeCorrect`,
`OneRuntimeHolds`, `FilesKeptHolds`, `OutcomeStaysHolds`, `StopPresses` (a stop stays asked
for, and each step of the supervisor brings it nearer to its end, whatever the command and
the API process do: `Left` counts the statements before it), and `ImplementsRemoteRunHolds`, the
refinement: every action is a step of `RemoteRun` or stutters. `WorkOf` counts a command
that ignored the signal as over, as the code does; that is the one point where the
promise is weaker than its words.

`ActionRunsProofs`: `RunInvariant` says that a run not yet delivered is absent on the
server, that an answer under way which says "ended" is right, and stays right, because
`RemoteRun` never starts work again, and that a record is terminal early only if no
dispatch is past its claim. From it: `TypeCorrect`, `TerminalIsOverHolds`,
`RecordStaysHolds`, `NeverBackHolds`, and `OutcomesCount`: an answer that says how a run
ended is never taken for a late one, by whichever request and after whatever changes it is
merged; of an answer that says the run was lost this is not true (`LossShown`). The server is only known through `RemoteRun`, whose
implementation is the theorem before; together they say of the whole that a record which
is terminal belongs to a command which is over.

`SyncPushProofs`: `PushInvariant` speaks of *claims*, an identity together with its
contents, wherever one is kept: in a request under way, in the chunk being decided, sealed
in a row. Two claims of one identity have the same contents, because a new identity is
above all used ones of its device, and a device whose identity was lost goes on under
another one. Floors in force, under way or about to be sent are below the identity of
every row; a row whose device was lost belongs to an earlier device, which no floor of the
new one concerns. All steps but `StartV3` leave identities in place, and are proved by
showing that; `StartV3`, which hands them out and seals them, is treated by itself. From
it: `TypeCorrect`, `OneRequestPerIdentityHolds`, `FloorSparesPendingHolds`. The assumption
`PushSentinel` says that the value for "none" is no identity, row, answer or request.

Three more invariants rest on it. `EditInv` accounts for every edit made: it waits in a row,
has landed, or was given up; and whatever a receipt, the result of a hold or an answer
reports as applied has landed. A step then lands some edits, makes one, or removes a row
whose edits have landed or are given up, and these are the steps of `EditDelivery`:
`EditsDeliveredHolds`, the refinement. `TransportInv` says that rows are told apart by
their edits, that what the server may have over v3 is what the row was sealed with, that an
operation sent by the fallback and not answered has a hold without a result, and that a
request carries only rows still to be settled: `OneTransportHolds`. `TurnInv` says that what
is still to be sent has identities of this device above every floor in force or under way,
that a request carries identities of the device it names, and that only what is below the
floor was refused as retired: `NeverTurnedAwayHolds`, by which the answers `retired` and
`invalid` never reach a client that waits.

Only model-checked: all liveness (`Drains`, `Served`, `Converges`, `Settles`, `Learns`):
fairness and ENABLED are beyond the prover. What each of them rests on and needs no fairness
is proved: `ReadsShrink` and `ReadNeverStuck` for the `Drains` of the feed, `LocksLetThrough`
for `Served`, `RunAdvances` and `BatchExists` for `Converges`, `StopPresses` for `Settles`,
`OutcomesCount` for `Learns`. The `Drains` of the push has no such measure: retries, new
edits and holds add to what is left. The counterexamples of the three violated properties
are TLC's.

## 7. Mutants

For each property of a passing run `PROJECT.json` names a mutant, an operator defined
just before the one it replaces: the bug it stands for is in its comment. With it, TLC
finds the property violated.
