# A verification project for geneWeave

geneWeave (`apps/geneweave`) is a multi-tenant AI application server: one Node process over one SQLite or Postgres
database, with chat, agents, notes, workflows and an **upgrade engine** that moves a deployed instance (its schema, its
shipped content, its bookkeeping) from one release to the next while operators keep their own edits. This directory
models the parts of it whose correctness depends on order, interleaving and failure. It starts with the upgrade engine,
because that is the code that can lose a whole instance; then the records of shipped content that operators and releases
both change; then the runs of agents: the journal every client's view of a run is built from, and the outbox that tells
subscribers a run has ended.

In what follows paths are relative to `apps/geneweave/src` unless they start with `docs/`.

## Inventory

| Component | State | Operations | Talks to | Hard because | Correct when |
|---|---|---|---|---|---|
| Upgrade mutex (`upgrade-lock-store.ts`) | one row: holder, acquired_at | acquire (read clock, guarded UPDATE, confirming SELECT), release, `withUpgradeLock` | every upgrade operation | three statements per acquire, clocks cut to seconds, holders that die or outlive their window | one live lease at a time; a late release frees nobody else; an abandoned row is reclaimed |
| Apply (`upgrade-apply.ts`) | run row, details, maintenance, snapshot file, ledger, content | `applyUpgrade` | preflight, mutex, run store, migrations, reconcile, verify, snapshots | about twenty awaited statements, each a place to crash; resume; restore in the middle of its own bookkeeping | data change only under guard; success complete; failure leaves no trace; a retry converges |
| Manual rollback (`upgrade-rollback.ts`) | same | `rollbackUpgradeRun` | mutex, run store, snapshots | the restore rewinds the bookkeeping it depends on | data exactly as before the run; nothing refers to deleted files |
| Run store (`upgrade-run-store.ts`) | `upgrade_runs`, `upgrade_details` | begin, record, resolve, finish, set reference, newest, retained | apply, rollback, review | the newest run is picked by one-second times, then by random ids; single-shot resolve | at most one running run per release |
| Maintenance (`upgrade-maintenance.ts`) | one row | set, clear, read | apply, rollback | cleared on the success and restore paths only | never up behind a finished run |
| Preflight, verify (`upgrade-preflight.ts`, `upgrade-verify.ts`) | none | gates, checks | apply | verdicts are read long before they are used | no false pass |
| Boot (`db-sqlite.ts` `initialize`, `migrations/index.ts`, `seed/index.ts`) | ledger, content | migrate, seed, reconcile | the same database | takes no mutex, knows no held batches | idempotent |
| Seed reconcile, diff and merge (`realm-seed-reconcile.ts`, `realm-diff.ts`) | realm rows with content and origin hashes, `realm_versions` | publish, classify, baseline, adopt; three-way merge | boot, apply, review | read, classify, overwrite in separate statements | an operator's edit survives; a merge loses nothing |
| Review queue (`upgrade-review.ts`, `upgrade-automation.ts`) | details, undo state | resolve, bulk resolve, undo, rules | run store, diff and merge | check-then-write over rows others change; a crash between overwrite and undo state | the first answer stands; the queue says what happened to the row; undo gives it back |
| Governance and version log (`realm-governance.ts`, `realm-version-prune.ts`) | tenants' forks, proposals, `realm_versions` | merge a fork, propose, approve, reject, prune | diff and merge, drift | promotes first, closes the proposal afterwards | a closed proposal tells the truth |
| Release discovery (`upgrade-check.ts`, `upgrade-source.ts`, `upgrade-release-store.ts`, preview, orchestrate, attention, telemetry, code layer) | accepted releases | check, preview, report | network, preflight | mostly reads | only verified releases are accepted |
| Run executor and live stream (`me-run-executor.ts`, `run-control-ws.ts`, the run routes of `routes/me.ts`) | event log per run, status, lock chains, subscribers | start, append, post, cancel, subscribe, replay, sweep | approvals, outbox, agents | promise chains per run deleted while in use; cancel against completion | sequences without gap or duplicate; one terminal event that agrees with the status |
| Approvals (`me-run-approvals.ts`) | in-memory tasks, persisted interrupts | enqueue, resolve, register, unregister | executor | two stores updated one after the other | an answered task is answered once, in both |
| Notification outbox (`run-notifications-outbox.ts`) | subscriptions, outbox rows with lease and attempts, feed | subscribe, fan-out, claim, deliver, retry, reconcile | executor, webhooks | four callers drain it; leases, retries, crash in the fan-out | one relay per lease; sent means delivered; every row settles; no end forgotten |
| Handoffs (`handoff-sql.ts`) | handoff rows, audit rows | request, accept, reject, ..., expire | sessions | check-then-write with awaits | transitions follow the table; one terminal state |
| Workflow stores, caches, limits, sessions, presence | rows and maps | single statements | engine packages | mostly atomic by construction | see the notes in PROJECT.json |
| Notes and co-editing, chat, memory, cost, auth, encryption, live agents, UI, clients | many | many | external packages and services | policy, prompts, cryptography, rendering | not modelled, reasons in PROJECT.json |

The engines behind several of these (`@weaveintel/upgrade`, workflows, CRDTs, key management) are packages outside this
repository; they are modelled, where needed, from how this code uses them.

## Modules

| Module | What it is |
|---|---|
| `LeaseMutex` | What a mutex with a staleness window promises: a lease per caller, granted only while no lease is unexpired |
| `UpgradeLock` | `upgrade-lock-store.ts`, statement by statement, with clocks and crashes; implements `LeaseMutex` |
| `MCUpgradeLock` | three callers for TLC |
| `UpgradeLockProofs` | typing, exclusion and the refinement, for all constants |
| `UpgradeApply` | apply, rollback, automation passes, boot and restore over one database and its snapshot files |
| `MCUpgradeApply` | one or two requests, two builds, one content family for TLC |
| `UpgradeApplyProofs` | typing for all constants; for one request at a time, and runs that begin in different seconds, every other safety property of `apply` |
| `RunEvents` | one run: executor, journal, chain of appends, posts, cancels, live streams, death of the process |
| `RunRetention` | `RunEvents` composed with the hourly sweep of the journal |
| `MCRunEvents` | one post, one cancel, one client for TLC |
| `RunEventsProofs` | the journal is exact and only grows, for all constants |
| `RunChainProofs` | the chain of appends takes turns, and the run's end is recorded, for all constants |
| `RunStreamProofs` | typing, and a stream is sent exactly the journal, for all constants |
| `NotificationOutbox` | the outbox of one run: subscribers, fan-out, leases, delivery, retries, reconcile, death of the process |
| `MCNotificationOutbox` | a subscriber with a webhook, one without, two calls in flight for TLC |
| `OutboxProofs` | typing, leases, delivery, budget and finality, for all constants |
| `RealmMerge` | the pure part: drift, conflicts and the three-way merge of two payloads |
| `RealmMergeProofs` | a merge loses nothing, settles, and is symmetric |
| `RealmContent` | one record of shipped content under everybody who changes it, statement by statement, on both databases |
| `MCRealmContent` | one column of three values, two releases, two requests for TLC |
| `RealmContentProofs` | typing and the other four properties of `realm`, for all constants |

### UpgradeLock and LeaseMutex

`row` is the singleton row. A caller `c` goes through `ReadClock` (`new Date()`), `AcquireUpdate` (the guarded UPDATE),
`Confirm` (the SELECT and the answer), then its critical section, then `Release`; `since[c]` is the time it read. `Crash`
leaves the row as it is and `Restart` brings the caller back. `Tick` advances time; `DbTime` is `toDbTime`, which cuts a
time to a multiple of `Second`. `LabelOf` gives a caller its holder label.

In `LeaseMutex` each caller is out, has a lease, or has an expired one. The mapping `LeaseOf` says a caller in its
critical section has a lease while `now - since[c] <= StaleMs - Second` and an expired one after that. The second is
lost to `toDbTime`: a row may be reclaimed up to a second before the nominal window ends, and the refinement
holds with this margin only.

### UpgradeApply

The database is **one record**, `db`, because a snapshot copies all of it and a restore puts all of it back:
the lock row (`holder`, `stale`), the maintenance flag (`maint`), the newest accepted release (`target`), the runs (status,
release, snapshot reference), whether a P1 (`urgent`) or a pending item of the newest run (`open`) is unresolved, the
migration ledger, and per family the build whose defaults it has. `files[s]` is the image in snapshot file `s`. `build` is
the deployed code, `up` whether the adapter's connection is open, and `op[o]` the call request `o` is
executing: its statement (`pc`) and its local variables. `base` and `resumed` only record history for properties.

Each awaited statement that changes something is an action: `StartApply` (preflight), `Acquire`, `Begin`
(begin or resume), `SetMaintenance`, `RecordPlan`, `Snapshot`, `SetRef`, `RunSchema` (L3), `Reconcile` (L4), `Verify`,
`ClearMaintenance`, `Finish`, `Retain`, `DiscardPrior` and `ClearPriorRef` (retention: list the prior snapshots once, then
file and reference of each), `Release`; a failed batch, a failed verify and a
manual rollback go through `Restore` and then `Undo`, one write per step in the order `UndoWrites` gives each path.
`Throw` is an exception at any statement of a try block, after which only the finally block runs. `Boot` is the death of
the process, on the same build or for the deploy of the next one, and its restart: migrations and reseeding, without the
mutex. `AcceptRelease`, `Resolve` and `Elapse` (ten minutes since the lock row was written) are the rest of the world.
`UpgradeLock` has the statements of `Acquire` and the clock; here they are one step and a flag.

`latestUpgradeRun` orders by `started_at`, which counts whole seconds, and then by id, which is random
(`upgrade-run-store.ts:81`, `:316`). A run's number is its place in that order, so `IsLatest` is the highest number. With
`SameSecond` FALSE runs begin in different seconds and a new run comes after all others. With `SameSecond` TRUE a new run may also
begin in the second of the one before it and then takes any number that second has left (`free`, `Places`).

Abstracted: the text of details and reasons, package and edition gates that are constant for an instance, telemetry
(best effort, not read by apply), operators' edits to single records (`RealmContent`'s subject), and the
tables an apply does not touch.

### RunEvents and RunRetention

`log` is the run's rows of `user_run_events`, `status` its row of `user_runs`. `append[w]` is the `appendEvent` call of a
**writer** `w` (the executor, a post, a cancel handler): queued in the run's promise chain behind the call `after`,
then `List` (it read the journal: a second terminal event is answered without a write, anything else gets the number of rows
as its sequence), `Insert` (INSERT OR IGNORE on the unique sequence), `Broadcast` (fan-out and answer). `tail` is the
promise in `#locks`; a call whose predecessor has settled waits for nobody, so a settled tail and none are the same.
`AppendThrows` is a statement that fails: the call is rejected and the chain goes on.

`exec` follows `#execute`: `Start`, `SetRunning` (status and `run.started`) or `Disowned` (the run is not found for its user, and the
executor leaves without status or event), `AgentEmits` and `Emitted` for every event the
agent emits, `AgentEnds` (returned or threw; the abort signal is read here), `Finalise` (status, then the terminal event),
`Close` (the finally, which deletes the run from `#active` and **its chain from `#locks`, whatever is still queued**). A
completion whose append threw falls into the catch block and fails the run instead; if that append throws too, the
executor leaves with its end unrecorded (`"lost"`). A status write may fail too: at the start or at completion it goes to the
catch block (`SetRunningThrows`, `FinaliseThrows`); at a failure or a cancellation it is swallowed and the event is appended all the
same (`FinaliseForgets`, which sets the history variable `swallowed`). `Post` is a posted or steering event; `ReadStatus`, `Abort` and
`SetCancelled` are the three awaited parts of both cancel handlers.

`stream[s]` is a client's connection: `Open` (the route reads the run), `Subscribe`, `Replay` (the journal after the cursor,
at most `MaxEvents` rows), `Activate` (flush what was kept back, or close if the run was over when it was read),
`Drop` and `Reconnect` with the id of the last event it was sent. `Emit` and `Deliver` are the subscriber's own rules.
`Restart` is the death of the process: chain, executor and connections go, the rows stay, and nothing takes a
running run up again. `Sweep`, in `RunRetention`, is `pruneUserRunEvents`: it is composed separately because the promises of
`RunEvents` are about a journal nobody prunes, and `events_pruned` shows which of them the sweep breaks.

Every await on the database is a step. The Postgres adapter does suspend there; the SQLite adapter answers at once, its
awaits take only a turn of the microtask queue, and it has a subset of these behaviours. What events carry, presence and
other events without a sequence, the revocation of a stream and approvals' own
tasks are left out. What happens after a terminal event is `NotificationOutbox`.

### NotificationOutbox

One run and its subscribers. `run` is `"running"`, `"ended"` (the terminal status is written) or `"told"` (the terminal event
too, and `onTerminal` was called): the two writes of `RunEvents`' `Finalise` and `Close`, with room for a crash between them.
`row[u]` is user `u`'s row of `notification_outbox`, `feed` the inbox entries, `received[u]` the endpoints of `u` that got the
webhook. `call[s]` is one of the asynchronous calls in flight; each await is a step of it:

- `OnTerminal`, and the subscribe handler (`SubscribeRead`, `SubscribeWrite`) when the run it *read* had ended, list the
  subscribers once and `Enqueue` a row for each, then drain; `Tick` is the timer, kept apart from other ticks, and only from those, by
  its flag; `Reconcile` is the boot's, which backfills a terminal run **if no user has a row** (`HasOutbox`).
- `Claim` leases up to `Batch` due rows in one transaction and counts the attempt, but returns the rows **as it read them**,
  so `tries` is one behind `attempts`. `AppendFeed`, `CallWebhook` per endpoint (which may answer, or fail having received the
  call or not), then `MarkSent`; a failure goes to `Reschedule`, which gives the row up when the count it has is at the limit.
  Both write by the row's id, whatever has become of the row.
- `Crash` is the death of the process at any await; `Elapse` the moment a row waits for, its next attempt or the end of its
  lease, possibly under the relay that has it (`outlived`). Deaths and outlived leases are the mishaps `MaxMishaps` bounds.

Time is one flag per row, `ripe`: all the code compares is whether a time has passed. Database errors are crashes of
the call that meets them, hence covered by `Crash` in effect. The claim is SQLite's transaction; on Postgres it is a SELECT and
an UPDATE per row without a transaction (`db-postgres/me.ts:358-373`), where two relays may lease one row, and this module
does not describe it. `owed` records history for two properties.

### RealmMerge and RealmContent

`RealmMerge` stands a content hash for the payload it is a hash of, so a hash is looked up by being there. `Drift` is
`classifyDrift`; `Conflicts`, `AutoMerge` and `Merge` are `threeWayFieldDiff`, `autoMerge` and what `applyRealmMerge` writes;
`Mergeable` is its refusal.

`RealmContent` is one record of a family. `rec` is the global row (content, `origin_hash`, `content_hash`), `fork` a tenant's copy,
`head` and `versions` its rows of `realm_versions`, `item[i]` a row of `upgrade_details` (status, whether P1, undo state),
`proposal` the fork's proposal. `call[c]` is what a call holds between its statements, `Seeder` the reconcile:

- the reconcile at boot or in an apply: `PublishDefault` (append to the log), `ReadRow` (read, hash, classify), then `Baseline`,
  or `AdoptDefault` and `Record`, or `Record` alone;
- an answer: `GetDetail`, then the ledger, or for an adopt `FetchRow` (to undo to), `LoadDiff`, `ReloadDiff` (upstream is read
  twice: for the values and for the base), `WriteAdopted`, `SaveUndo`, `Ledger`. A sweep (bulk resolve, automation rules) lists
  the open items that are not P1 and answers them one after the other (`SweepNext`);
- an undo: `LookUp`, `Restore`, `Reopen`;
- an `Edit` of the row or of the fork, which leaves the hashes alone; a merge of either (`MergeDiff` or `ForkDiff`, then the write);
- `Propose`; approve and reject (`ReadProposal`, `CopyFork`, `Promote`, `PublishPromoted`, `CloseProposal`); `Prune` with the
  smallest window; `Restart` on the same release or the next one.

`dialect` says whose interleavings there are. On SQLite the adapter answers synchronously, so a call runs to its end before
another starts (`MayStart`), and only a crash cuts it; on Postgres the statements of requests and of an apply's reconcile
interleave freely. `before`, `torn` and `promoted` are history: the row just before an adopt, what a crash cut off, whether
the fork went global. `ItemsOn` and `EditsOn` bound review items and edits per database.

Abstracted: a merge's loads are one step (nothing else writes between them on SQLite; on Postgres a merge may also mix two moments
of its reads), pruning is one step, a bulk and a rule sweep are one action whose choices are free, one proposal is made, payloads
are a few columns of a few values. Left out: structured merges of workflow steps, pins, making and deprecating forks, tenants'
on/off state, and `resyncPromptToPackage`. What version the log's `append` gives content that an older version already has
is the package's choice, so both outcomes are allowed.

## Runs

| Run | Question | Result |
|---|---|---|
| `lock` | does the row exclude, follow its leases, implement `LeaseMutex`, and is an abandoned row reclaimed? | holds |
| `apply` | is every change guarded, maintenance taken down, success complete, rollback available and exact, and is there one running run per release? | holds |
| `apply_recovery` | does re-running apply with `force` finish an interrupted run, if nobody keeps rolling back instead? | holds |
| `apply_twice` | can two applies be past the mutex together? | yes: one label for all applies, and the lock is re-entrant by label |
| `apply_maintenance` | is maintenance down when no call is in progress? | no: an exception leaves it up, the finally block only frees the lock |
| `apply_ties` | is there one running run per release if two runs begin in one second? | no: the newest is then picked by random id |
| `events` | is the journal exact and only ever extended, is what is acknowledged stored, is a client sent exactly the journal, does a finished executor leave a recorded end, does a started run end and every client learn of it? | holds |
| `events_pruned` | does a finished executor leave a recorded end when the journal is swept meanwhile? | no: the number of rows is a number in use |
| `outbox` | does a lease have one relay, was what is marked sent delivered, did what is given up use its budget, do both stay, does every row settle, is everybody subscribed at the end enqueued, is no end forgotten over a crash? | holds |
| `outbox_attempts` | is a row tried at most `notify_max_attempts` times? | no: once more, the count compared is the one from before the claim |
| `realm` | do queue and proposal tell the truth, is undo exact (SQLite, a crash anywhere), does the first answer stand (both databases)? | holds |
| `realm_swept` | does a sweep ever overwrite a record both sides have changed? | yes: through the item of an earlier release |

The six violation runs each violate a sentence of `docs/UPGRADE_ENGINE.md`, `docs/RUNBOOKS.md` or a comment; PROJECT.json quotes
the lines under `findings`. `apply_ties` and `events_pruned` check a property of `apply` and `events` where its assumption (runs that
begin in different seconds, a journal that is not swept) is dropped. `outbox_attempts` and `DeadAfterBudget` are the two sides of the
budget: a row is never given up with attempts left, but it may get one too many.

Properties of `apply`, and the hazard each is about:

- `WorkIsGuarded`: schema and content change only under the newest running run, the lock, maintenance, and a snapshot on
  disk that the run refers to. It is broken by any reordering of steps 3 to 6 of `applyUpgrade`.
- `MaintenanceOwned`: no finished run leaves maintenance behind, in the database **or in any image a later restore could put
  back**. An interrupted run does leave it up until it is resumed, against what `upgrade-maintenance.ts:5-6` says: that is
  `MaintenanceCleared`, the property `apply_maintenance` refutes.
- `OneRunningPerRelease`: retries continue, they do not pile up, as long as runs begin in different seconds.
- `RollbackAvailable`: the newest successful run keeps its file through retention, crashes between the two
  statements of retention, and restores.
- `FreshRollbackExact`, `SuccessIsComplete`: what the words "rolled back" and "succeeded" in the run row mean. The first is about
  runs no other apply had resumed; the second about what any number of attempts, restores and boots left in the ledger.

Properties of `events`:

- `JournalExact`: no gap, no duplicate, one terminal event, **although** two chains may run at once after the executor left.
- `AppendInv`: why, in terms of the number an append holds.
- `AppendStored`: until the executor leaves, an event that is broadcast and acknowledged is in the journal. Afterwards it
  need not be: two appends with one number are both acknowledged, and one is dropped.
- `StreamExact`: replay, buffer, flush and resume together send 0, 1, 2, ... and nothing that is not journaled. It excepts an
  executor that could not record its end: then the two chains may exist while streams are open.
- `FinishedIsRecorded`: an executor that left has a terminal event in the journal and a terminal status, and if the event is its
  own the two agree, whoever cancelled or posted meanwhile. It excepts a status write that was refused and swallowed
  (`me-run-executor.ts:545`, `:551`), a cancel handler that overruled the executor's status, and an executor that left without
  recording its end at all (`"lost"`: not its run, or its last append refused).
- `RunEnds`: no append waits for ever behind one that threw. `EveryClientLearns`: also if the route read a terminal status
  before the terminal event was there, and closed the stream without it.

Properties of `outbox`:

- `LeaseExclusive`: four kinds of callers drain at once, and only the claim keeps them apart. It excepts a lease that ran out
  under a live relay, and that is what makes it worth saying: `SentIsDelivered` does **not** except it.
- `SentIsDelivered`: in whichever attempt, by whichever relay; a retry begins with the inbox and the first endpoint again.
- `DeadAfterBudget`: at least `notify_max_attempts` attempts, by the count of the row and not by the stale one the relay holds.
- `SettledStays`: neither fan-out, reconcile, timer nor a late relay touches a settled row, unless its lease was outlived.
- `RowSettles`, `SubscribersGetRows`, `EndIsNotForgotten`: nothing waits for ever on a lease, on a flag or on a callback that died.

Properties of `realm`:

- `UndoRestores`: row and hashes come back exactly, although edits, merges, promotions, prunes, releases and other answers came
  between. An adopt cut off by a crash is excepted: its undo state may be missing or may be the adopted row.
- `LedgerTruth`, `ProposalTruth`: what the queue and the proposal say happened to the row did happen, and nothing else. On Postgres
  a reject may come between an approval's promotion and its closing, and a losing adopt has overwritten the row all the same; a crash
  may cut either on both databases. These are excepted, and listed under `hazards`.
- `AnswerStands`: of answers that race, the first stands; only an undo takes it back.

Known divergences without a run of their own (each a behaviour of the models, seen while they were written):

- a subscriber who reads the run before its end and is stored after it gets no row (`routes/me.ts:594-596` says "no lost
  edge"); `SubscribersGetRows` says what does hold;
- a crash in the middle of a fan-out leaves the rest of the subscribers without rows, since the reconcile skips the run;
- a promoted fork is put back to the shipped default by the next boot;
- an undo brings back a row whose base may have been pruned while it sat in the undo state; a merge then has no base;
- on Postgres an edit between the reconcile's read and its overwrite inside an apply is lost, and a reject closes a proposal
  whose approval has promoted the fork already;
- rolling back a *resumed* apply restores the half-applied database, a restored image can refer to a file that
  retention has deleted, boot runs batches an apply holds, and preflight refuses a stale lock row until `force` is given;
- a cancel that arrives after the executor's last look at the signal leaves status cancelled beside `run.completed`; a swallowed
  status write leaves `running` beside `run.failed`; an executor whose run is not found leaves neither;
- an event appended after the executor left may be broadcast and acknowledged and yet not be stored.

### Bounds

- `lock`: three callers, a second of 2 ticks, a window of 4, time up to 8, one crash. Each caller can be
  superseded, come back late, and be superseded again; half-second offsets exercise the rounding. 716 thousand states.
- `apply`: one request at a time (see below), two builds and releases with a batch each, the second holdable and providing
  the family; two runs in different seconds, three snapshots, one fault. Two runs are what retention and rollback to an older
  image need; three snapshots let one of the two be resumed; a resume needs one fault. 8.1 million states, two minutes.
- `apply_recovery`: one build, two runs, three snapshots, one fault; a temporal property over 283 thousand states.
- `events`: one post (of an ordinary or of a terminal kind), one cancel, one client, one agent event (output or an approval request),
  and one mishap: a refused append or status write, a lost connection or a death of the process. Three writers are what
  two chains at once need. The replay limit is above the journal's length. 447 thousand states, safety and three
  temporal properties in two minutes. Longer runs and several mishaps are what the theorems are for.
- `outbox`: two users, one with a webhook and one who may unsubscribe, two calls in flight, batches of one row, two attempts, one
  mishap (a crash or an outlived lease). Two calls are what it takes to contend for a row; a batch of one makes the rows of two users
  two batches; one outlived lease lets two relays have one row, and a second call finish it first. 935 thousand states, safety
  and four temporal properties.
- `realm`: one column of three values (default of each release, and an operator's), two releases, one restart, the policy that adopts.
  On SQLite two review items and one edit or merge: an old item beside a new one, and undo after a later release. On Postgres,
  where everything interleaves, one item and no edit: two requests and an apply's reconcile. 5.3 million states with the two
  calls symmetric, two minutes.
- Violation runs use the smallest bounds that show the behaviour. `apply_twice` has two requests and nothing failing;
  `apply_maintenance` one request and one exception; `apply_ties` three runs, two of them in one second; `outbox_attempts` a budget
  of one attempt and no mishap.

Every safety property of the passing runs is proved for all values of the constants, under the assumptions *Proofs* names, so the
bounds decide only what TLC has looked at before, and what the liveness properties are checked on.

The passing `apply` runs have one request in flight because with two the finding of `apply_twice` breaks
every other property as well (two applies interleave freely). `Serial` in the proofs is the same assumption, with runs in different seconds. Bounds on
runs and snapshots are in the guards of `StartApply`, `Begin` and `Snapshot`; a restart of a server whose database is
closed does not count as a fault, so a bound never leaves the system down. The apply configurations do not check deadlock,
because a system that used up its bounds, with no calls in flight, has nothing left to do.

### Fairness

`UpgradeLock`: a caller that is alive goes on (`WF` of its steps), and time passes. A Node process runs its promise chains to
the end. `UpgradeApply`: a started call goes on, time passes, and a server whose database is closed is restarted by its
supervisor on the same build. `RetrySpec` adds what the runbook asks of the operator: clear the P1 items and re-run apply;
strong fairness, because preflight's gates open and close and other calls come between. No fairness is assumed of crashes,
faults, new releases, rollbacks or automation. An operator who goes on rolling back can keep the retry out for ever (each
rollback of an older run whose file is gone closes the database), so `CrashedRunResumes` excepts that.

`RunEvents`: promise chains run on (`WF` of every append, of the executor's steps and of the handlers'), an agent comes to an
end, and a client whose stream ended without a terminal event comes back. Agents are bounded by `MaxOutputs`; an agent that never
returns is not a run that ends, and nothing in the executor stops it. No fairness is assumed of posts, cancels, faults or
lost connections.

`NotificationOutbox`: calls run on (`WF` of `Step`), moments that are waited for come (`WF` of `Elapse`), and what the process owes is
done: the terminal callback, the boot's reconcile and the timer (`WF` of each, by whichever call slot is free). Endpoints owe
nothing: they may fail every time, and a row settles because its attempts are counted. Users and crashes are free. `RealmContent`
states no liveness: nothing in it waits for anything but its own next statement.

## Proofs

`UpgradeLockProofs`, for any set of callers, any window and any time bound:

- `Typing`: `TypeOK` is inductive.
- `RowFollowsLease`: `LockInv` is inductive given typing and **`DistinctLabels`**: a caller whose lease is fresh is
  in the row with its own time, so nobody can take the row from it and nobody else's release matches it. Exclusion is
  not inductive by itself, since nothing in it ties a caller to the row.
- `Exclusion` follows: two fresh callers would both be in the row.
- `Refinement`: initial states map to initial states, and each of the actions maps to a grant, an expiry, a
  leave or a stutter. Grant is the interesting case: `Confirm` sees its label in the row, and every other unexpired lease
  would have to be there too.

`DistinctLabels` is exactly what applies do not satisfy among themselves (`apply_twice`); it does hold among an apply, a
rollback and an automation pass.

`UpgradeApplyProofs`:

- `ApplyTyping`, for all constants and any number of concurrent requests. Every image is a database record, so a restore keeps
  typing; the tail index needs its own fact (`Tails`).
- `ApplyGuarded`, `MaintenanceComesDown`, `SuccessComplete`, under **`Serial`** (one request in flight at a time, and
  runs that begin in different seconds, so that a new run is the newest). The invariant is `SerialInv`: `Sound(d, n)` says of a
  database record, with `n` the next run, that maintenance is up only under a newest running run; it is required of `db` **and of every image in `files`**, because a restore makes an image current.
  `CallInv(o)` says what each statement of a call may rely on: which run is newest, its status, the label in the row,
  the flag, the file. None of the three properties is inductive without both halves: a restore needs the images, and the
  statements after `SetRef` need those before it.
- `OneRunPerRelease`, from `OrderInv`: in `db` and in every image, a running run is for an older release than every run opened after
  it, and no run is for a release newer than the accepted one (`RunsInOrder`); an apply that has yet to begin holds the newest release
  there is, although it read it before it took the lock (`Newest`). So a begin that finds no newest running run for its release opens
  one that no other running run is for.
- `RollbackStays`, from `RefInv`: a run's reference names a snapshot that was taken, no other run's, and if the file is still there
  its image has that run as its newest, still running (`Referenced`, `ImageOf`). It is required of every image too, because a restore
  brings back old references. `CallRef(o)` says the same of the reference a call carries in its local variables between `Snapshot`
  and `SetRef`, during retention (which deletes the files of *prior* runs only, as listed at its start) and during an undo. The image also remembers no run as
  rolled back that the database does not (`ImageOf`'s last part): without it a restore could mark a run rolled back.
- `FreshRollback` needs no invariant beyond `RefInv`: `OnlyUndoRollsBack` shows that a run becomes rolled back in one write of `Undo`
  only, and there `CallRef` has the restored data equal to `base` unless the run was resumed.

`RunEventsProofs`, for any number of posts, cancels, clients, events and faults. The invariant `JournalInv` is typing,
`JournalExact` and `AppendInv` together. An insert whose number is free has the number `Cardinality(log)`: it is at most
that by `AppendInv`, and everything below is taken by `GapFree`. A terminal insert finds no terminal row, for such a row
would be at or above its number. Nothing is assumed of the chain: `JournalIsExact` holds after it was forgotten. Every other step
is `Quiet`: it writes nothing and numbers nobody. `JournalGrows` comes from the same case analysis.

`RunChainProofs` is about the chain while the executor has the run (`Kept`). `Ordered(rank)` says that the calls in
flight are a line: each waits for the one ranked just before it, the tail is last, and only the first may hold a number.
Joining extends a rank, settling keeps it; hence `TurnsAlternate`, that two calls past their turn are one. With the
journal's invariant, a held number is then *exactly* the journal's length (`Lengths`), so the insert is never ignored:
`AppendsAreStored`. `Callers` (whoever is about to append has nothing in flight) is what lets a call join the line.
`EndIsRecorded` adds `Ending`: while closing, an executor whose append is done finds a terminal row, its own by `Lengths`
or the earlier one `List` saw; and an event of its own agrees with the status, unless a write of it was swallowed or a cancel
handler has overruled it.

`RunStreamProofs`, for any number of clients as well. `RunIsTyped` is the whole of `TypeOK`. `StreamsAreExact` and
`NobodyWaitsForTheEnd` assume that the journal never outgrows one replay, `[](Cardinality(log) <= MaxEvents)`: a longer replay is
cut off (`routes/me.ts:249`, a listed hazard) and a live stream then skips what is missing: with `MaxEvents = 1` TLC finds
`StreamExact` violated.
The invariant is `StreamInv`:

- `Sent`: a connection was sent rows 0, 1, 2, ... of the journal, and no terminal one unless it is closed.
- `Following`, while the executor has the run: what is kept back is a run of rows without a gap up to the last *broadcast*
  (`Announced`, which is one less than the journal's length while an insert is not broadcast yet), and a replay has reached
  the place where it begins. `WrittenLast` ties a broadcast to the journal's last row: this is where the chain is needed.
- `Finishing`, once the executor has left: the chain is forgotten, numbers collide and a broadcast may bring an event that was never
  stored. No stream is live then, and what a stream keeps back leads to the terminal row without a gap; what comes after
  it is dropped, because the connection closes there. `ClosingInv`, that the executor's own end is broadcast before it
  leaves, is what makes the one follow from the other.

A replay and a flush emit a sequence of events, and `EmitAll` is a fold. `EmitAllFolds` is the induction: what each event carries from
`Q[k]` to `Q[k + 1]`, the sequence carries to `Q[n]`. It is made with sets for predicates, from the least element of a set of naturals (`Least`,
out of `WFMin`). `AfterIs` says what a replay reads, from `RowsBetween`, which counts the rows between two numbers by a bijection.

`OutboxProofs`, for any number of users, endpoints, calls, crashes and outlived leases. `OutboxInv` has three parts beside typing:
a row in somebody's batch whose lease was not outlived is `sending`, not ripe and in one batch only (`Leases`); what a call that is
calling webhooks still has to call, and what has been received, cover the user's endpoints (`Deliveries`); the attempts a
call read are below the row's (`Budgets`). The last two hold whoever else has the row, which is why `SentWasDelivered` and
`DeadUsedItsBudget` need no exception for outlived leases, while `OneRelayPerLease` and `SettledForGood` do.

`RealmMergeProofs`, for any columns and values: `MergeLosesNothing` (where nothing was chosen a merged column has the change
of whichever side made one), `MergeSettles` (after a merge the drift is in sync or customised, and merging again
is the identity) and `MergeIsSymmetric`.

`RealmContentProofs`, for any columns, values, releases, calls in flight and bounds, on either database where the property says
so. It is layered:

- `Shape`: typing, what a call holds at each of its statements (`Formed`), that requests wait for boot (`Boots`), that SQLite runs
  one call at a time (`Serial`), and that items from `nextItem` on are absent (`Fresh`). A step of a call is `Moves(c, k)`, its
  new record; most calls' steps also only read (`Reads`), and one lemma each carries them through all parts.
- `ProposalsAreTrue` adds that a call about to close a proposal as approved has promoted it, and that on SQLite nothing is promoted
  while the proposal is pending or rejected, but for an approval in progress or cut short.
- `LedgerIsTrue` and `UndoIsExact` share `LedgerInv`: for an item no crash has cut, `before` is set exactly when it is adopted or its call
  has just written the row, and the undo state, once saved, is `before`. A call holds, from `FetchRow` on, the row as it *is*: that
  needs `Serial`, and it fails on Postgres.
- `FirstAnswerStands` needs typing only: the guard of the ledger's UPDATE does it, and not the check at the start of the call.

Every invariant was checked by TLC before it was proved: on the states of `apply`, `events`, `outbox` and `realm`.

No safety property of a passing run is left without a theorem. Not proved, model-checked only, is what is out of TLAPS's reach: the
liveness properties (`AbandonedIsReclaimed`, `CrashedRunResumes`, `RunEnds`, `EveryClientLearns`, `RowSettles`,
`SubscribersGetRows`, `EndIsNotForgotten`), since fairness and ENABLED are not supported. The library's induction theorems take an
operator as a parameter and cannot be used; where induction is needed (`EmitAllFolds`) it goes through a set. There are no RECURSIVE
operators.

## Plan

1. *(done)* `LeaseMutex`, `UpgradeLock`, refinement and proofs.
2. *(done)* `UpgradeApply`: the core, with typing and six safety theorems.
3. *(done)* `RealmMerge`, `RealmContent`: reconcile, review queue, merge, governance and pruning over one record, with eight theorems. Left:
   a second record (bulk actions across records), pins, and the effect of a crash-cut adopt stated as a property of its own.
4. *(done)* `RunEvents`, `RunRetention`: executor, journal, chain, cancel, streams and sweep, with eight theorems. Left: approvals
   (`me-run-approvals.ts`), whose tasks and persisted interrupts are answered from several sides.
5. *(done)* `NotificationOutbox`: subscribers, fan-out, claim, lease, retry and reconcile, with five theorems. Left: the claim of the
   Postgres adapter, and handoffs (guarded transitions against expiry).
6. *(done)* Proofs of the remaining safety properties of `UpgradeApply` and `RunEvents`.

## Not modelled

PROJECT.json lists every component with the reason. In short: the Postgres adapter's apply (its snapshots are not
restored in process and it has no batch ledger), release discovery and verification of signatures (network and
cryptography), the code layer (a tree scan), and everything outside upgrades and runs until the plan reaches it.
