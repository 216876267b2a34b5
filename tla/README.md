# A model of BRAIN Google Drive Sync

This directory holds TLA+ specifications of the synchronization engine of the
plugin (`src/src`, TypeScript, about 23,000 lines), the TLC configurations that
check them on small instances, and proofs that TLAPS checks for every instance.
Paths below are relative to `src/src` unless they say otherwise.

## 1. Inventory

The plugin keeps an Obsidian vault and a Google Drive folder alike. A *planning
pass* compares BASE (the last committed state), LOCAL and REMOTE and produces a
plan; a *run* executes the plan, one operation after another. A single document,
the *authority*, records what has been decided, dispatched, verified and
committed, so that a crash at any moment can be recovered from.

| Component | State it keeps | Operations | Hard behaviour |
|---|---|---|---|
| Durable effect lifecycle: `product/operation-isolation.ts`, `contracts/synchronization-foundation.ts` | operation intents, a stage per physical effect | persistIntent, authorizePersistedEffect, recordPhysicalResult, retireUnattemptedIntent, markEffectStateCommitted | every one is load, decide, compare-and-swap; crash between any two |
| Executor: `product/authoritative-production-executor*.ts` | none of its own | execute: prepare, persist, authorize, guard, dispatch, record, verify | lost answers, requests that arrive late, merges with two effects |
| Recovery: `product/durable-intent-recovery*.ts` | none of its own | preflight, recoverOne, recover matching | what a look at a file proves; runs in planning passes, also of previews |
| Coordinators of commit: `core/execution-coordinator*.ts`, `core/commit-coordinator.ts` | none of its own | executeOperation, commitVerifiedSuccess, finalizeDurableEffects | commit and finalization are different writes |
| Adapters: `product/synchronization-adapters.ts` | semantic generation, persistence revision | load, saveAuthority, saveTrusted, rebase of completed intents | generation moves under outstanding intents |
| Controller: `product/product-controller*.ts` | retained plan, pending trigger | createPlan, executePlanned, runAutomatic, request, disposal | manual and automatic passes interleave |
| Run coordinator: `core/run-coordinator.ts` | active, acquiring, paused, deferred, cancellation; process-wide lifecycle | beginRun, finishRun, pause, resume, requestCancellation | events that fall into the await of the lease |
| Web Lock lease: `product/web-lock-run-lease.ts` | the browser's lock | tryAcquire, release | several windows, death of one |
| Runtime: `product/runtime.ts`, `main.ts` | the current product | initialize, disposeProduct | replacement while a run executes |
| Scheduler: `product/scheduler.ts` | pending triggers, timers, drain flag | start, stop, handleLocalChange, handleResume, beginStopping, drain | coalescing by priority, timers that outlive a stop |
| State store: `state/persistent-state-store.ts` and its storages | primary and backup documents, learned batches | saveAuthority, appendLearnedRemoteBatch, recovery | torn writes, replacement of the backup |
| Remote inventory: `state/*inventory*.ts`, `drive/*inventory*.ts` | generations of rows, the active pointer, reader pins | materialize, publish, lease, collect | publications that overlap writes of the authority, readers and collectors |
| Planner: `core/planner.ts`, `core/conflict-resolver.ts`, `core/destructive-safety.ts` | none | decision table, conflict resolution, thresholds | pure; many cases |
| Local transaction: `local/local-vault-access-boundary.ts` | the note, its stage, its backup | stage, prove, replace, recover | crash inside a replacement, edits of the user beside it |
| Local ports: `product/canonical-local-vault.ts`, `local/*` | none | in-place writes, moves, trash, watcher | hints correlated with own writes |
| Convergence: `product/remote-update-convergence.ts` | none | retried reads after a lost answer | stale reads |
| Drive access: `drive/auth.ts`, `drive/transport.ts` | tokens, revocation generation, semaphore | accessToken, completeAuthorization, request | concurrent refreshes, deauthorization in between, retries, limit of concurrency |
| Plugin data, text versions: `product/plugin-data.ts`, `product/text-version-store.ts` | settings, base texts | serialized updates | lost updates, retention |
| UI, diagnostics, seams | presentation, logs | | not modelled |

Components interact by calls between chains of awaits on one event loop per
window, through the authority document (shared by all of them), through the
vault and Drive (shared with the user and other devices) and through the Web
Lock (shared by the windows). What makes them correct, component by component:

* lifecycle, executor, recovery, commit: nothing happens to a file without a
  record of it; what is recorded as verified has happened; BASE covers whole
  operations only; what is committed is committed once and then finalized; what
  is left outstanding is settled by a later pass.
* coordinator, lease, runtime: one mutator; a stop is obeyed; a replaced runtime
  is at rest; nothing is wedged; a change noted during a run is not forgotten.
* scheduler: a pending trigger has someone to serve it; no timer fires outside
  the active lifecycle; a change gets its pass.
* inventory: what a reader is shown is the account at the canonical cursor, for
  as long as its lease lasts; the cursor takes along what it passes; what nobody
  can reach is collected.
* local transaction: no version that the user wrote is lost, and a note that a
  replacement has moved aside gets its name back.
* state store: a reader sees a complete, validated document; a learned batch is
  reduced exactly once.
* planner, conflict resolver, Drive port, and several devices at once: no version
  that exists nowhere else is destroyed; BASE only says what both sides really
  shared; equal sides are left alone; devices converge or tell a user.
* Drive access: no token survives a deauthorization; no request that is not
  replay-safe is sent twice; no slot of the semaphore is lost.

## 2. Modules

| Module | What it is |
|---|---|
| `OperationContract` | abstract specification of one operation: opened, its effects applied, committed, closed, or dropped without effect |
| `EffectLifecycle` | the authority document, the chains of awaits that plan, recover and execute over it, and the files; implements `OperationContract` |
| `MCEffectLifecycle` | its instances: a two-effect merge and an upload |
| `EffectLifecycleProofs` | its theorems, the refinement among them |
| `RunCoordinator` | coordinator, lifecycle, lease, disposal and follow-up of every window |
| `MCRunCoordinator` | its instance: two windows with two chains each |
| `RunCoordinatorProofs` | its theorems |
| `AutomaticSync` | the schedulers over the coordinators: triggers, timers, drain, lifecycle; extends `RunCoordinator` |
| `MCAutomaticSync` | its instances: a window with the drain and a click |
| `AutomaticSyncProofs` | its theorems; extends `RunCoordinatorProofs` |
| `OAuthSession` | tokens, authorizations and refreshes of one session |
| `DriveTransport` | the requests over that session: semaphore, attempts, replay; extends `OAuthSession` |
| `MCDriveTransport` | its instances: requests that share one slot |
| `DriveTransportProofs` | the theorems of both |
| `InventoryView` | abstract specification of the inventory: one value, shown or hidden as a whole, and its cursor |
| `InventoryStore` | the inventory in IndexedDB, its writers, readers and collectors; implements `InventoryView` |
| `MCInventoryStore` | its instance: a window that writes and a worker that reads |
| `InventoryStoreProofs` | its theorems on the database |
| `InventoryViewProofs` | its theorems on what readers are shown; that it implements `InventoryView` |
| `LocalTransaction` | one staged creation or replacement of a note, with crashes, failing calls, recovery and the user |
| `MCLocalTransaction` | its instance: three edits |
| `LocalTransactionProofs` | its theorems |
| `Planner` | the decision table: from BASE, LOCAL and REMOTE of one device to its operations; no state |
| `Reconciliation` | devices that plan and execute against one account, their crashes and recovery, and their users; extends `Planner` |
| `MCReconciliation` | its instance: two devices that share a note |
| `ReconciliationProofs` | the theorems of both |

### EffectLifecycle

*State.* `doc` is the authority document: the semantic generation `gen`, the set
of `intents`, the generation each was `born` in, the `stage` of each effect, and
the canonical `journal` with the evidence reference of each commit. `view` and
`snap` are the snapshot a chain has loaded and not yet used: `current`, or
`stale` once another chain has written; this is the compare-and-swap on
`persistenceRevision`, without the number. `applied` and `inflight` are the
world: effects that have happened, requests under way. `ctl[c]` is where a chain
of awaits stands and what its local variables hold. `planned` is
`this.planned` of the controller.

*Actions.* `Load` is `loadAuthority`. Every other action is the code between two
awaits: it decides on the snapshot in hand and either writes (`Save`), finds its
write refused (`SaveRefused`) or writes nothing (`NoWrite`). A planning pass is
`BeginPlanning`, `Learn` and `Mirror` (`persistLearnedRemoteBatch`), `Preflight`
(`preflightVerifiedEffects`), `SelectIntent` with `RetireUnattempted`, `Observe`,
`Record`, `Verify`, `Canonical`, `Commit`, `Finalize` (`recoverOne`) and
`EndPlanning`. A run is `BeginOperation`, `SkipDependent`, `CheckIntent`,
`PersistIntent`, then `Authorize`, `Guard`, `Respond`, `Record` for each effect,
then `Verify`, `Canonical`, `Ready`, `Commit`, `Finalize`, and in the end
`EndRun` and `CommitCursor`. `ExecuteReviewed` executes the retained plan however
old it is; `CancelRun` ends a run between operations. `Land`, `Lose` and `Crash`
are the world.

*Clients.* A client is any chain of awaits over the document: the automatic pass of
a window, a manual run, a preview. All plan, and so recover, without the run lease:
`createPlan` (`product/product-controller-base.ts`, lines 376 and 446) comes before
`beginRun` (545). Only who executes holds it (`LeaseFree`, a guard of `EndPlanning` and
`ExecuteReviewed`); that the lease excludes is what `RunCoordinator` establishes.
Therefore any number of chains may recover while one executes, and each other's
intents. `Automatic` is the client whose passes the scheduler starts; the others act at
the cost of a disturbance.

*Left out or abstracted.* The contents of files, BASE and mappings: an operation
is in the journal or it is not. The order of a plan is arbitrary. Consecutive
loads with nothing in between are one. Operation ids are content-derived in the
code and model values here. The commit advances the generation whenever it is
the first of its operation; a repetition may or may not find BASE unchanged, so
both are allowed. `persistLocalTransaction` (`LocalTransaction` has it), the preverification of remote
updates against their predecessors (`Reconciliation` has it), and the base executor's own recovery branch
(unreachable, since the outstanding intent is intercepted before it) are not in
the model. `Observe` may fail to prove anything even when the effect has
happened (a failed read), at the cost of a disturbance.

*Constants.* `Provable` are the effects whose absence recovery takes for proved by a
look (a new file under a reserved identity). `Glanced` are those that their own call
reports as not applied after one look, though the request it failed on may still be
executed: `moveExisting` and `trashExisting` (`drive/google-drive-port.ts`, lines 378
and 384). `Lingering` are the effects whose request may still arrive after the caller
has given up. Where `Lingering` meets one of the other two an intent is retired and its
effect comes later: the effect is orphaned, in the model as in the code. `Sure` are the
operations with no effect of either kind, which nothing gives up after a mere look:
updates, merges, downloads, local moves and trashes. The instances of the runs have no
create that outlives its caller and no `Glanced` effect; the theorems have both.

*Fairness.* `WF_vars(ClientStep(Automatic))`: the event loop resumes a chain whose
promise has settled, and the scheduler starts another pass; nothing is assumed of
other chains, of the user, or of which intent is selected first. `WF_vars(Land(e))`:
a request that is neither lost nor executed does not stay under way for ever.

### RunCoordinator

*State.* `coord[r]` has the fields of the class; `life`, `epoch` and `across` are
the module-level variables that all runtimes of a window share; `disposing` is
the time between `beginRuntimeDisposal` and the next runtime; `queued` says that
an automatic trigger waits for the drain; `chain[c]` is the place of a chain of
awaits; `lock` is the Web Lock. `told` in a chain is a history variable: a stop
was requested while this chain held or asked for the run.

*Actions.* `BeginRun` is `beginRun` up to its await; `Grant` and `Deny` are the
answers of the lock manager; `Start` is the code after the await with its four
ways of being overtaken; `Free` and `Leave` return a late lease. `Finish` is
`finishRun` up to its await: the flags change before the lock is free, so
`Deny` can be the answer to the run's own follow-up. `Finished` starts the
follow-up or leaves it to the next resume. The events are `Trigger`, `Pause`,
`Resume`, `Cancel`, `Suspend`, `Settle`, `Wake`, `Dispose`, `Replace`, `Crash`.

*Left out or abstracted.* Trigger kinds and timers (they are `AutomaticSync`'s),
the recovery gate, what planning does. The re-initialisation of a runtime is one
step. The in-process fallback of the lease is the case of one realm.

*Fairness.* Each chain that waits for the browser or for its own operation goes
on. Planning, triggers and every user or lifecycle event are unfair.
`CHECK_DEADLOCK FALSE`: `MaxEvents` bounds the environment, and a plugin at rest
with nothing queued rightly does nothing.

### AutomaticSync

*State.* `sched[r]` has the fields of the scheduler of a runtime: the timers that
run, `pendingTrigger`, `deferredInactiveTrigger`, where its drain stands and how
many passes it has started, and whether the periodic pass over the vault is
under way. `enabled` are the automatic settings. `dirty` and `fresh` are history
variables: whether a local change waits for a pass, and whether the pass of the
drain has begun after the last change. The chain `<<r, Drain>>` of
`RunCoordinator` is the controller's queue that serves the drain.

*Actions.* `LocalChange`, `VaultReady`, `PeriodicTimer`, `Refresh` and `ResumeSync`
are the entry points; `ChangeTimer` and `DelayedDrain` the timers; `DrainTakes`,
`DrainReturns`, `DrainEnds` and `DrainSettles` the drain between its awaits, with
the moment after its loop and before its `finally` that a new trigger can fall
into. `SuspendSync`, `DisposeSync`, `ReplaceSync` and `CrashSync` are the steps of
`RunCoordinator` with what the scheduler does in the same turn of the event loop.
`Step` is a step of a chain with the bookkeeping of `dirty`.

*Left out or abstracted.* A pass counts as serving a change however it ends, but
for a suspension: failures, pauses, cancellations and a lease held by another
window are reported to the user and, as in the code, not repeated for that
change; so is a lease that is denied because the run that finishes still holds
it. While the user has paused, a change's trigger is dropped and `Resume` queues
nothing. A change the scheduler was not told of (`missed`) is owed only where the
startup-resume setting promises a look at the vault. Only the periodic setting
changes while the plugin runs. The early rejection of
`awaitAutomaticQuiescence` is its return.

*Fairness.* `WF_syncVars(SchedulerStep(r))`: timers expire and awaits come back.
`WF_syncVars` of the drain's chain and of every chain that has begun: the queue
serves what is in it. Nothing obliges the user to resume, to plan or to run.

### OAuthSession and DriveTransport

*State.* `tokens` is the record in the secret store: the grant (authorization) it
comes from, whether an access token is usable and which, what scope the refresh
token has, and whether the scope is exactly `drive.file`. `generation` is
`revocationGeneration`, `transaction` the pending PKCE transaction.
`authorization[a]` and `ask[r]` are the suspended calls of `beginAuthorization`
and `completeAuthorization`, and of `accessToken`, with the generation and the
tokens they read before their await. `active` and `waiting` are the fields of
`Semaphore`; `request[r]` is a call of `request` with its local variables. `serial`
numbers the access tokens that Google issues: a refresh never returns a token it
has returned before. `floor`, `copies` and `refused` are history variables.

*Actions.* `BeginAuthorization`, `OpenBrowser` and `Callback`, `ExchangeAnswered`
are the two halves of each of the two methods; `AskToken` and `RefreshAnswered`
those of `accessToken`; `Invalidate` is `invalidateAccessToken`. `Deauthorize`,
`ReplaceSession` and `Expire` are the user and the clock. `Issue` is `request` up to
its first await, in the queue or at work; `Exit` is the `finally` clause, which
takes the first waiter out of the queue and resolves its promise; `Enter` is the
waiter's continuation, which counts itself. `TakeToken`, `Send`, `Concluded`,
`Failed`, `Slept` and `Unauthorized` are one attempt.

*Left out or abstracted.* Which failure is reported; the reason kept for a denied
token; delays. A call of `request` with `retry = false` and a `POST` are the same:
not `safe`. Two sessions over one secret (a superseded runtime's and its
successor's) are not modelled: `ReplaceSession` retires and goes on with one.
Any continuation that is ready may run next; the order of the microtask queue is
not modelled.

*Fairness.* `WF_accessVars(Progress(r))`: the event loop resumes a request whose
promise has settled, its timers fire and its HTTP exchange ends. Authorizations,
callbacks and every other event are unfair. `MaxDrifts` bounds lost answers,
refusals, expiries and user events; the attempts of a request are bounded by
`maxAttempts` as in the code.

### InventoryStore and InventoryView

*State.* `remote` is the account at each cursor (external); `authority` the fields
of the authority document that the inventory is fenced by: revision, cursor,
whether provider changes are unresolved, and the batches that were learned and
not reduced. `control` is the active pointer, `manifest`, `counter` and `rows` the
stores of the generations, `pinned` the durable reader pins. `staging`, `reader`
and `job` are the memory of a JavaScript context, which dies with it.

*Actions.* A publication is `Begin`, `Materialize` or `ReadBaseline` and
`ReadChanges`, `Recheck`, `Reserve`, one `Flush` per transaction, `Seal`, `Prove`
and `Publish`, which writes the pointer and the authority in one transaction
after it has compared both with what the publication began from. `OpenRead`,
`OpenReadDone` and `Release` are a lease; `Collect` is one transaction of the
collector. `Save` is any writer of the authority that knows nothing of the
inventory, and withdraws it when it moves the fence. `GiveUp` is an abandoned
publication, `Crash` the death of a context.

*Abstract specification.* `InventoryView` is what a planner may rely on: a single
value that is the account at the canonical cursor, replaced or withdrawn as a
whole, and a cursor that moves over a change only by owing it or by a reading
of the whole account while nothing is owed. `PublishesViews` substitutes the
content of the active chain of generations for the value and the learned
batches for what is owed.

*Left out or abstracted.* The semantic generation is part of the revision. A
digest stands for the rows it was computed from. The identity fence, coverage and
LOCAL rows are left out; a flush writes one row. Pins of a dead context never
expire, and the collector may run without the cross-instance lease: both allow
more than the code. The product does not read the inventory yet; the model is of
the store and of its integration coordinator as they are called by the tests.

*Fairness.* Leases are returned, publications go on and the collector is called
again; `FairStoreSpec`. Beginning a publication is unfair.

### LocalTransaction

*State.* `target`, `stage` and `backup` are the files under the three names of a
transaction, `bin` the vault's trash, `token` whether the observation token it was
authorized with is still current, `effect` what the durable intent knows. `mine`
and `deleted` are history variables: the versions the user has written and not
given up, and whether he deleted the note.

*Actions.* The live dispatch is `Check`, `Write`, `Fill`, `Verify`
(`stageAndVerify`), `Saved` (the descriptor becomes durable), `Commit`, `Recheck`,
`Displace`, `Proof`, `Swap`, `Confirm`, `Tidy` (`commitVerifiedStage`). `Recover` is
the decision of `recoverCreate` or `recoverReplace` on the files it finds;
`Clear` and `Restore` are what else it does. `Settle` is the caller's own look at
the note. `Fault` is a failing call, `Crash` a death at any step; `Edit` and
`Delete` are the user, at any moment. A fault between the renames of the live
commit may end the call without the effect being marked: `commitVerifiedStage`
returns the promise of `commitReplace` from its `try` block without awaiting it
(`Uncaught`).

*Left out or abstracted.* A content stands for bytes, hash and size. The adapter's
rename refuses a taken name. The stage may be damaged or removed while the
process is down. Probes at the start of the live dispatch that find nothing, path
validation, cancellation, the correlation of watcher hints and the in-place
writes of the other ports are not in the model.

*Fairness.* `WF_vars(Work)`: the process goes on with its call, and later runs
recover an unsettled effect, as every planning pass does.

### Planner and Reconciliation

*State.* `drive` are the objects of the account: unused, reserved (an id generated
for a create or an update), live or trashed, with path and content. `local[d]` is
the vault of a device. `base[d]` and `mapping[d]` are the BASE entries and the
`remoteMappings` of its canonical state, `intent[d]` its durable operation intent,
`plan[d]` the operations its pass has not done yet, `skipped[d]` the paths it
isolates, `step[d]` how far the operation in execution is. A content is the set of
edits it is made of: it says whose writing a version carries, and a three-way merge
is a union that `Clash` may forbid. `fresh`, `given` and `bin` are history: edits
not written yet, edits a user deleted or decided against, and what a pass put into
the trash of a vault.

*Actions.* `Plan` of `Planner` is `plan` of `core/planner.ts` with
`classifyProvenMoves` and the assessment of a conflict. `Begin` is `createPlan`;
`Skip`, `GiveUp`, `Note` and `Dispatch` are what the loop over the operations does
with the next one: isolates it behind a skipped one or as stale, ends the pass for
want of authority or of an observation, commits it without effect (equal contents
adopted, an entry forgotten), or records its intent. Then the effect, in the steps
of the Drive port and of the vault: `Create`; `Upload`, `Finalize` and `Retire` of
an update through an immutable candidate; `CheckTrash` and `TrashRemote`,
`CheckMove` and `MoveRemote`, since the look and the request are two calls;
`Replace`, `TrashLocal`, `MoveLocal`. `Complete` verifies and commits, as
`applySuccessfulOperation` does, or leaves the intent outstanding; what it verifies is
the effect that was sent last (`Visible`): a pass does not look again at the half of a
merge that the vault got, a recovery does (`Recovering`, `MergeStands`). After `Crash`
only what is durable is left, and `RecoverUpdate`, `RecoverReplace`,
`RecoverCommit` and `RecoverUnapplied` take the intent up again before the next
plan. `Write`, `Delete`, `Rename` and `Resolve` are the users'; `Resolve` executes
the operations of `resolutionOperations`.

*Left out or abstracted.* The first synchronization of a device; folders; edits of
the account by other programs in place (every writer here is the plugin, which
never overwrites an object); tombstones and stale devices; the resolution that
keeps a deletion and the manual one; approval of destructive plans, which the user
gives; requests that are lost or answered late, and the stages of an intent
(`EffectLifecycle`); the steps of a local replacement (`LocalTransaction`); the
incremental view of the account (`InventoryStore`). An intent that dies before its
dispatch is retired by `EffectLifecycle` and not made here. The content of a moved
BASE entry is the first found under either path in the order of the document, which
the model leaves open.

*Fairness.* `Fairness` (`WF_vars(Device(d))`) is the premise of `ConvergesOrAsks`: every
device goes on synchronizing and recovering, as the periodic pass and the scheduler
make it. Nothing is assumed of the users, of
crashes, or of `RecoverReplace`: whether an interrupted replacement can go on
depends on what is left of its stage. `CHECK_DEADLOCK FALSE`: devices that have
converged rightly do nothing.

*Observed while modelling.* All of these are behaviours of the model. The second falls
short of what the specification says should hold (CONFLICT-007,
`dev/planning/01-target-system/target-system-specification.md`, line 319). The fourth
disagrees with its "without silently losing" (line 99): the edit is left in the trash
of the account, where no device looks. No run shows it, as it takes more acts than
the run of this module has; the run's property states the condition it breaks.

* A download that is recovered while its path is empty or ambiguous in the account
  is committed with the new content under the old object id (`remoteIdentity` of
  `product/durable-intent-recovery-base.ts`). Therefore `BaseWasShared` claims the
  content of a BASE entry for *some* object of the account, and not for the one the
  entry names.
* A clean merge of another device's update has no identity authority: its path is
  still mapped to the object the other device has replaced. The pass ends as
  recovery-required, and paths after it are not reached. The same holds when a user
  keeps the local version against another device's update. Downloads renew the
  mapping, so that a device without edits of its own is not affected.
* A note renamed in one vault and edited by another device leaves a planned move
  that is stale in every pass and is skipped every time; the attention ledger shows
  it.
* Two devices can make a note disappear that nobody deleted. One renames it from 2
  to 1, writes something new at 2, and after its pass has created 1 takes the new
  note away, renames 1 back to 2 and writes something new at 1. The other, which
  has seen none of this, renames 2 to 1 and writes something new at 2; it adopts 1,
  where it finds the content it has, and uploads 2. The first uploads 1. Both now
  hold a copy that BASE knows and the other has replaced: each takes the other's
  update, and the note is left in the trash only. That takes seven acts; TLC
  finds the behaviour in seconds when they are given. So `EditsKept` (in a vault, in a
  live object or in the trash of a vault) is not a property of this code, and no run
  claims it. What holds in every instance is `EditsRecoverable`, and
  `EditsStayInPlace`: `EditsKept` as long as no edit is known under two paths
  (`OnePath`; section 5).
* An update that races a rename of another device leaves its predecessor under the
  new name, or trashes it there, and its candidate under the old one.

## 3. Runs

| Run | Instance | States | Shows |
|---|---|---|---|
| `effect_solo` | a merge and an upload, one chain, 4 disturbances | 66 thousand | the contract (refinement), no orphaned effect, one commit, outstanding intents are settled |
| `effect_preview` | the merge, whose request may linger, two chains, 3 disturbances | 765 thousand | overlapping planning, recovery and execution: authorization before dispatch, commits cover and are repeated by recoveries alone, nothing verified is demoted, the contract of the merge (refinement) |
| `effect_restart` | one chain, 1 disturbance | violation | finding 1 |
| `effect_orphan` | a merge and an upload, two chains, 1 disturbance | violation | finding 2 |
| `run_lease` | two windows, two chains each, 2 operations, 4 events | 227 thousand | one mutator, obeyed stops, quiet replacement, no wedge, no forgotten change |
| `drive_access` | two requests, one slot, one authorization, 2 attempts, 2 drifts | 600 thousand | no revived, replaced or broadened tokens, no replay of an unsafe request, no lost slot, no refused token again, every request ends |
| `sync_schedule` | one window, the drain and a click, 1 operation, 3 events, all settings or all but startup-resume | 218 thousand | no timer outlives the app's activity, no trigger is stranded, no change is forgotten, every change is taken up |
| `sync_forgotten` | the same with two settings | violation | finding 3 |
| `inventory_publish` | two contexts, one object, 3 generations, one pin, one overlay, 2 cursors, 3 revisions, 1 fault | 293 thousand | intact layers, the fence, leases, collection, and the view (refinement) |
| `local_replace` | one transaction, 3 edits, 3 crashes, 3 faults | 10 thousand | nothing of the user's is lost, a displaced note comes back |
| `local_deleted` | one transaction, no edits, 3 crashes, 3 faults | violation | finding 4 |
| `reconcile` | two devices, a shared note, two paths, 3 acts of users, 4 edits, 5 objects, 1 crash | 231 thousand | no edit is beyond reach, none leaves its place while known under one path, BASE was shared, equal sides are left alone, objects are only replaced or deleted, devices converge or ask |

*Bounds.* `MaxDisturbances` counts crashes, lost requests, lost answers, failed
reads, refused guards, cancellations, passes of the second chain, learned batches and
executions of a retained plan; what the code does by itself is not counted. Four let a run be
interrupted, its recovery be interrupted, a request be lost and a batch be
learned in one behaviour; three with a second chain let a recovery overlap a run that
fails and is recovered. The two chains meet over the merge alone: what
their run checks is proved for any operations, and the merge has the longer
life. A larger instance was checked once, with two chains, the merge and a trash that
is both `Glanced` and lingering (7.7 million states with 2 disturbances): it keeps all
six properties. With one chain, two operations suffice for one commit to make another intent stale;
one of them has two effects, so that a run can stop between them. Two windows and
two chains are the smallest instance in which both the flags of one window and
the lock between windows are contended; four events allow suspend and resume, or
pause and resume, inside one acquisition, with a crash or a trigger beside it.
Two requests on one slot suffice for one to wait, to be woken and to be
overtaken; the tokens stored at the start are a first grant, so that one
authorization is a second one that can overlap a refresh of the first; two drifts
let a refused token or a lost answer meet a deauthorization or a broken exchange.
Three events let a change meet a suspension and its resume, or two changes meet a
run; between windows the schedulers share nothing but the lock, which `run_lease`
contends. Three generations are a baseline, an overlay and a compaction or a
second baseline; one object that appears, changes and disappears gives every kind
of row; one fault lets a publication, a lease or the removal of a generation be
cut. Three crashes let a transaction be interrupted, its recovery be interrupted
and the recovery of that; three edits let the user write before, inside and after
a replacement. `local_replace` says `CHECK_DEADLOCK FALSE` because a settled
transaction is over. Two devices and two paths are what moves, updates of one
object and a note that meets a rename need; three acts let both users write and
one of them resolve, or a write meet a rename and a deletion, with a crash in
between; edits 2 and 3 clash, so that there are conflicts as well as merges. The
first act is on `d1` because the devices are alike at the start (`Openers`), and no
behaviour uses up the objects. The safety properties were also checked with four
acts (3.6 million states).

*Properties.* The type invariants (`TypeOK`, `RunTypeOK`, `AccessTypeOK`,
`SyncTypeOK`, `StoreTypeOK`, `LocalTypeOK`, `ReconciliationTypeOK`) are proved and
not checked by runs.

*Properties of EffectLifecycle.* With one chain: `NoOrphanEffect` (an applied effect
belongs to an intent or to a committed operation); `CommittedOnce`;
`ImplementsContract`; `OutstandingIsSettled` (liveness; an intent that provably
cannot be settled, `Stuck`, is excluded and so are the intents behind it). With two
chains: `CommitCoversEffects`; `FinalizedAfterCommit`; `VerifiedIsStable`;
`DispatchIsRecorded` (a request leaves only under a durable authorization);
`RepeatedOnlyByRecovery` (an entry of the journal is replaced at most from the receipt
of a run to the evidence of a recovery); `SureImplementContract` (the refinement, of
the operations in `Sure`).

The properties of the first group do not hold with two chains. `NoOrphanEffect` and
`ImplementsContract` fail for creates, which another chain's recovery retires while
their request is under way: finding 2 shows the first. `CommittedOnce` fails for every
kind of operation, in the one way that `RepeatedOnlyByRecovery` leaves. Nor do they hold
with one chain where a create outlives its caller; their instance has none.

*Properties of RunCoordinator.* `OneMutator`, `StopIsObeyed`,
`ReplacedAtRest`, `NeverWedged` (liveness), `OwedIsKept` (a change noted during a
run is handed on until a planning pass, a replaced runtime or the death of the
window discharges it).

*Properties of OAuthSession and DriveTransport.* `NothingRevived`, `NewerGrantWins`,
`ScopeNeverBroadens`, `UnsafeSentOnce`, `SlotsAreUsed`, `RefusedNotResent`,
`RequestsEnd` (liveness). That the limit of concurrency is kept is not among them: a
request issued between a release and the continuation of the woken waiter takes the
same slot (`drive/transport.ts`, lines 16-20), which the model shows when three
requests share one.

*Properties of AutomaticSync.* `QuietWhenStopped`; `NothingStranded`
(a waiting trigger has a drain or a timer); `NothingForgotten` (a change is at every
moment in one of the places from which a pass follows); `EveryChangeIsTakenUp`
(liveness, except for what finding 3 describes); `EveryChangeGetsItsPass`, without
the exception, does not hold.

*Properties of InventoryStore.* `ReachableIntact` (a layer that the
pointer or a pin reaches has the rows it was sealed with); `CursorFenced`;
`LeaseReadsItsHorizon`; `RowsAccounted`; `PublishesViews` (refinement);
`GarbageIsCollected` (liveness).

*Properties of LocalTransaction.* `NothingLost`; `DisplacedComesBack`
(liveness); `DeletedStaysDeleted`, which does not hold.

*Properties of Planner and Reconciliation.* `EditsRecoverable` (what a user wrote and no
user gave up is in a vault, in an object of the account, live or trashed, or in the
trash of a vault); `EditsStayInPlace` (it is in a vault, in a live object or in the
trash of a vault, `EditsKept`, as long as no edit is known under two paths, `OnePath`);
`BaseWasShared` (the content of a BASE entry was uploaded by someone);
`CalmWhenEqual`; `TrashedOrReplaced` (an action property); `ConvergesOrAsks`
(liveness: in the end vaults and account agree and no device has anything to do, or
a user is told).

## 4. Findings

1. *An interrupted finalization is never finished* (`effect_restart`). The test
   `tests/integration/orchestration/v1.2-authoritative-commit-lifecycle.test.ts`
   (line 210) says that a restart after the canonical commit and before the
   durable finalization finishes the operation. In the product the commit moves
   the semantic generation; only wholly finalized intents are rebased; the
   interrupted intent is of an older generation, `validateIntent` refuses it and
   every later planning pass ends at its preflight.
2. *Another chain retires the intent of a request in flight* (`effect_orphan`). The
   comment of `product/operation-isolation.ts` (lines 151-155) says that a
   verified non-effect proves that the operation had no physical effect. A manual
   preview, or an automatic pass of another window, plans without the run lease and
   observes before the run's request has been executed.
3. *A change that met an acquisition is forgotten* (`sync_forgotten`). `beginRun`
   answers a second caller `already-running` and notes a follow-up
   (`core/run-coordinator.ts`, line 91), which only `finishRun` reads. When the
   acquisition ends without a run, nothing reads it: the change waits for the
   next run, whoever starts it. A test
   (`tests/integration/phase5-scheduler-acceptance.test.ts`, line 283) names the
   fact that must be preserved.
4. *A deleted note comes back* (`local_deleted`). A replacement that is interrupted
   after its swap leaves the old version as backup. If the user then deletes the
   note, recovery takes it for displaced and restores the old version
   (`local/local-vault-access-boundary.ts`, line 238), which the specification
   (line 99) calls resurrecting.

## 5. Proofs

*EffectLifecycleProofs.* `IInv` adds to the checked invariants what the chains
remember: every snapshot is truthful, that is what it calls verified has
happened and what it calls committed is committed (`Truthful`); a snapshot that
is `current` equals the document; and what a chain has established before its
next await still holds (`Remembers`). It is needed because the checked
invariants speak of the document alone, and a write puts an old snapshot into
it. The argument rests on `applied` and the journal only growing. `Good` says
that a step preserves `IInv` and demotes nothing verified; one lemma per action
proves it, through `QuietStep` and `WriteStep`, which say what a step that writes
nothing, and a step that writes an admissible document, preserve. From it follow
`TypeCorrect`, `VerifiedHappened`, `CommitsCover`, `FinalizedBehindCommit` and
`VerifiedStays`, for any sets of operations, merges and clients.

The second half of the module proves the converse, that documents omit nothing, for
chains that overlap in any way the code allows: any number plan and recover, one
executes. There is no hypothesis besides the constants' types, and `Lingering`,
`Glanced` and `Provable` may meet; the price is that what is said of effects is said of
`Sure` operations. That is where the line runs in the code: an operation that someone
gives up after a mere look can be orphaned (finding 2 and the hazards), every other one
is accounted for whatever overlaps. `SharedInv` adds to `IInv`:

* `Exclusive`: one chain at most holds the lease.
* `Recorded`: no `Sure` effect that was ever sent is called unsent by the document.
* `Journal`: a committed operation keeps its intent and its verified effects, and until
  it is complete a recovery's commit carries the generation of the intent.
* `Requests`: no `Sure` effect is under way again once it has happened, and a request
  that cannot linger has its chain waiting for it.
* `Claims`: all recoveries that are about to commit an operation, or have read it as
  verified and incomplete, mean the same generation, and the journal has no other from
  a recovery. This is why recoveries do not repeat each other's commits.
* `Knows` and `Owns`, of each chain: what its place in the code says of the document,
  whoever has written meanwhile, and what only the holder of the lease could undo.
* `Snapshot`, of each snapshot in hand: it lags behind the document and never
  contradicts it.

`IInv` alone is not enough: it bounds what documents claim. The proof separates what a
write does to the document (`Evolves`) from what the other chains keep under it
(`ClientFrame`), so that each action is treated once, however many chains there are;
the `...Promise` lemmas say of each action that it keeps `SharedInv`, dispatches and
commits as required, and is a step of `OperationContract` or leaves it alone
(`ContractStep`). From it follow `AccountsAreComplete`, `EffectsAreAccounted`,
`DispatchIsBehindRecord`, `RepeatsAreOrdered` and the refinement
`LifecycleKeepsContract`.

*RunCoordinatorProofs.* `RunInv` says which chain stands behind each flag and
behind the lock (`Mirrors`), and that a window has one chain in hand whose
cancellation signal knows what it was told (`Serial`). `Move` is the frame of a
step of one chain; one lemma per action. From it follow `RunTypeCorrect`,
`MutualExclusion`, `StopsAreObeyed` and `ReplacementIsQuiet`. `HandedOn` adds that
only a run that is ending holds a follow-up and that a runtime under disposal is no
longer active; with it `NothingOwedIsLost` follows, by the places a follow-up can move
to. All are for any number of windows, chains, operations and events.

*DriveTransportProofs.* `SessionInv` says that only the last authorization begun can
still be completed, and not if it was deauthorized (`LastOne`), and that a refresh
that was not retired renews the grant that is stored, of the same scope
(`Renewing`): an answer decides by the generation alone whether it may write, so
the invariant has to say what an equal generation implies. `TransportInv` ties
the queue, the count of the semaphore and the requests at work together
(`Queue`, `Slots`), keeps an unsafe request unsent until it is sent (`Replay`) and
says where a refused token cannot be (`Fresh`). `SessionGood` is what a step does
to the session; `Issuing` in it, that an access token is either the one stored or
a new one, is all that the transport needs to know of the session's steps. From
it follow `AccessTypeCorrect`, `DeauthorizedStaysGone`, `ScopeIsKept`,
`GrantsMoveForward`, `UnsafeIsSentOnce`, `NoSlotIsLost` and `RefusedStaysRefused`,
for any number of requests, authorizations, attempts and slots.

*AutomaticSyncProofs.* `SyncInv` is `RunInv` with the types of the scheduler and
`Orderly`, which ties the timers, the pending trigger and the drain of a runtime to
its lifecycle. The steps of the chains keep `RunInv` by the lemmas of
`RunCoordinatorProofs`, so that the theorems of the coordinator hold under the
scheduler as well: `ScheduledRunsExclude` is mutual exclusion there.
`SyncTypeCorrect`, `NoTimerOutlivesTheApp` and `NothingIsStranded` follow.
`Tracked` makes `NothingForgotten` inductive: a change that was told came to a started,
ready scheduler, and a runtime under disposal has stopped its own. With it and
`HandedOn` there is one lemma for each move of the scheduler, of the drain and of the
lifecycle, and `NoChangeIsForgotten` follows. All are for any number of windows,
callers, events and settings.

*InventoryStoreProofs.* `StoreInv` says why what is reachable is intact: the active
generation lies in a set of intact generations that is closed under parents
(`ActiveIntact`), so is what a pin holds (`PinnedIntact`); a publication works on a
generation that was handed out to it alone, unsealed while it flushes rows of its
candidate, and has proved the rows it is about to publish (`Jobs`, `Apart`); ids
not handed out have no manifest (`Unissued`); a reader's pin protects what its lease
reads and is its own (`Readings`, `OwnPins`). The collector is the hard case: it
takes a generation nobody names, which therefore no chain contains. Chains are
least closed sets; what has to be known of them is proved from that
(`ChainIsClosed`), without induction, and that a topmost row exists from the
well-foundedness of strict inclusion on finite sets (`Greatest`). From it follow
`StoreTypeCorrect`, `LayersAreIntact` and `InventoryStandsAtTheCursor`, for any
contexts, objects and bounds; `NoRowIsLost` is inductive with it.

*InventoryViewProofs.* `HorizonInv` says what layers over layers show. `Shows` is the
lookup of a row without a choice: of the rows an object has in a set of layers, one
lies above all others. The active chain shows the account at the pointer's cursor and
its top is its highest layer (`ActiveShown`), a lease shows it at the cursor of the
lease (`ReadersShown`); a publication knows that its candidate is the difference of
the account between two cursors, that its predecessor lies one layer below it, and
that its manifest says so (`DraftGood`), of which others can only collect
(`Spared`); and nobody fills the layer another publication is made for (`Bygone`). A
publication puts one layer above the chain it was made for (`AcceptedShows`); every
other step leaves the reachable layers alone (`Steady`). From it follow
`LeasesReadTheirHorizon` and, by `Step`, which says what each step of the store is to
its readers, `StoreImplementsView`: the refinement of `InventoryView` for every value
of the constants.

*LocalTransactionProofs.* `LocalInv` adds to `NothingLost` what each step has
established before it: from the swap on the stage is proved (`StageProved`), the
backup is the authorized version once it was looked at (`BackupKnown`), and the note
is not the new version as long as the swap is ahead (`NoteIsNotNew`). From it follow
`LocalTypeCorrect` and `NothingIsLost`, for any edits and any number of crashes and
failing calls.

*ReconciliationProofs.* `ReconInv` adds to the types what makes the theorems inductive.
`BackedAt`: the contents of BASE, and those that the operations of plan and intent
would commit, have been uploaded (`Sound`). `CandidateAt`: the object an intent
reserved is still without content or holds the whole of what the intent brings, and
the object it is about was in the account. `Underway`: an operation in execution has
its intent. `Apart`: no two intents have reserved one object, which is why a step of
one device leaves the candidates of the others alone. Objects keep their content once
they have one (`Gentle`), so that what was established of the account stays true
whatever other devices do. That a plan is sound goes by the cases of the table
(`VerdictIsFounded`, `DecidedIsSound`, `PlanIsSound`). From it follow
`ReconciliationTypeCorrect`, `BaseIsShared` and `ObjectsAreReplaced`;
`EqualSidesAreCalm` needs the types alone. `ReachInv` adds that of every version a
planned or outstanding download is to replace, each edit has been given up or is in
an object of the account (`Safe`): the table downloads over nothing but what BASE
holds (`PlannedIsSafe`), a user who keeps the remote version gives up the rest
(`ResolvedIsSafe`), and since objects last (`AccountLasts`), this stays true until
the replacement happens, in whichever run. Together with the cases in which a vault
loses a version (`VaultsLose`) it gives `NoEditVanishes`. All are for any devices,
paths, objects, edits, acts and crashes.

`EditsKept` says more, that what nobody gave up is not in the account's trash alone,
and is false where a note is carried back and forth between two names (section 2). The
theorem `EditsStay` proves `EditsStayInPlace`, which gives a condition under which it
holds: at no time is an edit known under two paths (`OnePath`), where known means in a vault, in BASE, in a live object or
in a version that a planned or outstanding operation is to record. `KeptInv` is
inductive as long as that is so. Its parts:

* `Noticed`: of what BASE holds of a path, the vault has what is not spent, that is,
  given up or in the trash of a vault. So a version the table takes for superseded is.
* `Founded`: an operation rests, since it was planned, on what the vault has; what an
  upload or a deletion replaces in the account it brings, or it is spent; and its
  object still has the content that was seen, since objects keep theirs.
* `Renewing`: a download under way brings what BASE holds of its path, which it is
  about to replace.
* `Succeeded`: until a candidate's predecessor is in the trash, nobody has an
  operation about the candidate, because no inventory shows it alone at its path. This is
  where two devices could take each other's updates away.
* `Merging`: while a pass has a merge in hand whose first half is in the vault, each edit
  of the merge is there or spent: a user may have given it up, and the pass does not look.
* `Orderly`: the operations of a pass are about different paths, and an intent is one of
  them, so that a step leaves what the others rest on.
* `Surviving`: of every object that was in the account, trashed ones included, each
  edit is spent or in a live object. With `Noticed` and `VaultsForget` it gives
  `EditsKept`.

`OnePath` is a condition on behaviours, not on constants. Renaming a note that is
synchronized breaks it, as does keeping both versions of a conflict. That it is not
empty is a theorem as well: where users only write and delete, and the notes of the
start share nothing (`NotesStay`, on constants alone), every behaviour has it
(`NotesKeepTheirPath`), so that `EditsStayWithTheirNote` needs no condition on
behaviours. The invariant there is `StillInv`: operations, BASE and the mapping of a
path are about objects at that path (`Homes`), no edit is seen at two, and one not yet
written at none. TLC had checked the parts of both invariants before the proofs: those of
`KeptInv`, guarded by `OnePath`, with all actions of the users and three acts,
`StillInv` with two notes, three acts and a crash.

The only assumptions are those on the constants: `ConstantsAssumption`,
`CoordinatorAssumption`, `SettingsAssumption`, `SessionAssumption`,
`TransportAssumption`, `InventoryAssumption`, `RecordsAssumption`,
`ContentsAssumption`, `BoundsAssumption`, `PathsAssumption`,
`ReconciliationAssumption`, `AbsenceAssumption` and `IntentAssumption`, which TLC evaluates on every run of
their modules.

*Model-checked only.* Everything under fairness (`OutstandingIsSettled`,
`NeverWedged`, `RequestsEnd`, `EveryChangeIsTakenUp`, `GarbageIsCollected`,
`DisplacedComesBack`, `ConvergesOrAsks`): liveness is out of the prover's reach here. So do
`NoOrphanEffect`, `CommittedOnce` and `ImplementsContract`, which hold of one chain
without late creates and not in general. `EditsKept` is checked and proved under
`OnePath` alone: of behaviours with renames of synchronized notes, or with conflicts
whose versions are both kept, `EditsRecoverable` is all that is claimed.

## 6. Not modelled, and plan

In the order of importance; each step is a module with its run.

1. `AuthorityStore`: primary and backup, revision check, learned batches and
   their reduction, the two-step base transition; an abstract atomic register
   that it implements.
2. `Reconciliation`, the rest: the first synchronization, folders and the moves they
   carry, tombstones and stale devices, the thresholds of `core/destructive-safety.ts`
   and their approval, resolutions that keep a deletion, edits of the account by
   other programs.
3. Resumable uploads of the Drive port; plugin data; text versions; the in-place
   writes of the local ports and the correlation of their hints.
4. Drive access, the rest: two sessions over one secret, the reason of a
   denied token, a limit of concurrency that a repaired semaphore would keep.
5. Proofs: a condition weaker than `OnePath` under which `EditsKept` holds, which admits
   a rename of a synchronized note as long as no path is taken twice.

The user interface, diagnostics, the attention ledger and the audit history decide
nothing about files and are left out for good; so are the archive, the test
platform (a simulated Drive and vault for the tests) and the build files, which
are not part of the plugin.
