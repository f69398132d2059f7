# A verification of Super Productivity's operation-log synchronisation

Super Productivity is a task manager (Angular/NgRx, in Electron, Android, iOS and the
browser) that keeps several devices of one account in step. Every user action that
changes persistent state becomes an *operation* with a vector clock. Devices exchange
operations through a server (SuperSync) or a shared file (Dropbox, WebDAV, ...), and
each device replays them. There is no central state: what a task looks like is decided
by which operations are accepted, in which order, and which of them a device keeps. A
mistake there loses an edit silently, on every device. That is what this project
specifies, model-checks with TLC and proves with TLAPS.

Paths below are relative to `src/`.

## 1. The system

| Component | State it keeps | Operations | Where |
|---|---|---|---|
| Vector clocks, import filter | none (pure) | compare, merge, increment, `limitVectorClockSize`, `classifyOpAgainstSyncImport` | `packages/sync-core/src/vector-clock.ts`, `sync-import-filter.ts`, `src/app/core/util/vector-clock.ts` |
| Operation capture | a queue of actions, the deferred actions, the durable clock | `writeOperation` under a lock | `src/app/op-log/capture/` |
| Local operation log | entries (`pending`, `archive_pending`, `applied`, `failed`, rejected, synced), the durable vector clock, the author of the latest full-state op | `append*`, `markApplied`, `mergeRemoteOpClocks`, `clearFullStateOpsExcept`, ... | `src/app/op-log/persistence/operation-log-store.service.ts` |
| Remote apply, hydration | the stage each remote operation has reached | `applyRemoteOperations`, `hydrateStore` | `packages/sync-core/src/remote-apply.ts`, `operation-log-hydrator.service.ts` |
| Compaction | snapshot + tail | `compact` | `operation-log-compaction.service.ts` |
| Client orchestration | server cursor, cycle guards | upload, download, USE_LOCAL / USE_REMOTE, server migration, backup import | `src/app/op-log/sync/`, `backup/`, `clean-slate/` |
| Conflict resolution | attempts per entity | detection against the entity's frontier, last writer wins per entity or per field, local-win operations, re-creation of refused ops | `packages/sync-core/src/conflict-resolution.ts`, `src/app/op-log/sync/conflict-resolution.service.ts`, `superseded-operation-resolver.service.ts` |
| SuperSync upload path | `operations`, `user_sync_state` (PostgreSQL) | `POST /ops`, `POST /snapshot`, `DELETE /data` | `packages/super-sync-server/src/sync/` |
| SuperSync storage | the same tables | quota cleanup, retention sweep | `services/storage-quota.service.ts`, `sync.routes.quota.ts` |
| Request deduplication | a cache per process | lookup, store, clear, expire | `services/request-deduplication.service.ts` |
| SuperSync download path | none | `getOpsSinceWithSeq` | `services/operation-download.service.ts` |
| File-based sync | one file per account and its backup; cursor, revision and clock of the file as last taken in, per device | download with gap detection, snapshot hydration, upload by conditional put, replacement, the user's decisions | `src/app/op-log/sync-providers/file-based/` |
| Snapshots, websocket, devices, rate limits, accounts | caches, rows beside the log | - | `packages/super-sync-server/src/` |
| Encryption, schema migration | none | payload transformations | `packages/sync-core/src/encryption.ts`, `packages/shared-schema/` |
| Features, plugins, platforms | the NgRx store | reducers | `src/app/features/`, `electron/`, `android/`, ... |

**How they interact.** A capture reads the durable clock, increments the own counter
and appends the operation (one lock, `sp_op_log`). A sync cycle first downloads: the
server sends what is above the device's cursor, skipping to the latest full-state
operation when the cursor is below it; the client drops what an import it holds has
superseded, resolves conflicts, applies the rest, merges the clocks and moves the cursor
(which lives in another store). It then uploads: the server takes a batch through a
cache of earlier answers, an in-process promise chain per account, the quota check, and
one REPEATABLE READ transaction in which each operation is checked against the latest
row of every entity it touches. A *full-state operation* (`SYNC_IMPORT`,
`BACKUP_IMPORT`, `REPAIR`) replaces everything before it. Retention, quota cleanup and
`DELETE /data` delete history beside all of this, some of them without any lock.

**What is hard.**

* Races of uploads of one account in several server processes, with only the
  `user_sync_state` row between them - which may not exist yet (ADR 4 in
  `ARCHITECTURE-DECISIONS.md`).
* Clocks are bounded to 20 entries. A dropped entry reads as zero: causally later
  becomes concurrent. Server and client must prune at the right moment and keep the
  right entries, and the import filter has to see through it.
* Imports: an operation from before an import must be dropped by everyone, one from
  after it by nobody, although all the filter has is two pruned clocks.
* Retries and lost answers: batches are committed although the client saw a timeout;
  results are cached outside the transaction they describe.
* History deletion in steps that interleave with uploads, with a replacement marker
  that is resolved lazily from the history that is being deleted.
* Applying remote operations in stages, each a transaction of its own, with crashes
  between them, a user who goes on editing, a second tab, compaction, and a cursor in
  another store than the log.
* Conflict resolution: both sides of a conflict decide for themselves, at different times
  and with different parts of the other's history; what they decide becomes operations
  that meet again.
* A shared file has no server behind it: plain storage with a revision, a backup that is
  written first, a put whose answer may be lost or which may be cut short, a history
  trimmed by batches, and a snapshot that stands in for what was trimmed.

Every one of them is listed in `PROJECT.json` under `hazards`, at the line where it
bites, with the properties that would catch it going wrong.

**What makes each component correct.** Clocks: order and merge agree with causality as
far as the bound allows; pruning never hides a conflict. Causality across devices: an
accepted edit knows the earlier one, the filter keeps exactly the informed operations,
an informed edit is accepted, a re-created one is not refused again. Upload path: no
lost update, monotone sequence numbers, the replacement fence, at most one row per id,
a repair includes everything before it, true answers, an answer to every request.
Storage: only superseded history disappears. Apply and hydration: every stored remote
operation is eventually applied exactly once to the state a restart sees, and the cursor
never runs ahead of the log. Compaction: snapshot + tail equals the log. Conflict
resolution: devices that have nothing left to sync show the same task, and the newest edit
of each field is in it. File-based sync: no edit is dropped from the folder or from a
device unless a user's decision gave it up, and everybody catches up.

## 2. The modules

| Module | Models |
|---|---|
| `SyncClock` | vector clocks as total functions from client ids to counters (a missing entry is zero, as in every reader of the code), their comparison, merge, increment and pruning, the import filter, the clock reset by an import |
| `CausalClocks` | the devices of one account and the server's log, with every decision taken on bounded clocks and the true causal past of each operation beside them |
| `SyncServer` | the write path of the server for one account, at the grain of its statements and locks |
| `Selection` | `Array.prototype.filter`, as a recursive function |
| `AppState` | the application state as far as the log is concerned: how often the effect of each operation is in it; what a full-state operation replaces |
| `DurableLog` | abstract: what a device's log promises to the next start |
| `RemoteApply` | one tab of a device: capture, download, staged apply, start, archive retry, compaction, crashes; implements `DurableLog` |
| `Conflict` | concurrent edits and deletes of one task on several devices: detection, resolution, upload, refusal, replacement |
| `SyncFile` | the file of file-based sync and the pure decisions over it: trimming, gap detection, snapshot planning |
| `SyncFolder` | abstract: replicas and a folder that never lose an edit nobody gave up |
| `FileSync` | the devices' cycles over the file and its backup, with faults and user decisions; implements `SyncFolder` |
| `MCCausalClocks`, `MCSyncServer`, `MCRemoteApply`, `MCConflict`, `MCFileSync`, `MCSharedFolder` | model values, kinds of folder, request tables, feeds, plans and symmetry for TLC |
| `SyncClockProofs` | lemmas about comparison and pruning |
| `CausalClocksProofs` | type correctness of devices and log; the import filter is exact; no lost update behind the fence; no rejection loop |
| `SyncServerProofs` | type correctness, growing sequence numbers, no lost update; an id is stored once; only superseded history disappears; a repair includes everything before it; true answers; the replacement fence; the full-state marker |
| `SelectionProofs` | what a filter keeps |
| `RemoteApplyProofs` | type correctness of a device; the cursor passes nothing unfinished; archive work follows reducers |
| `RemoteApplyStateProofs` | the state: nothing applied twice, nothing passed lost; snapshot and screen agree with the log; the refinement of `DurableLog`; what new operations know |
| `FileSyncProofs` | type correctness of file-based sync; in a folder that nobody replaces, nothing acknowledged is missing from the file, no gap is passed over, and `SyncFolder` is implemented |
| `ConflictProofs` | type correctness of conflict resolution; without deletions a start rebuilds what is on screen |

`CausalClocks` and `SyncServer` both EXTEND `SyncClock`; the first looks at many
devices and one simple server, the second at one server and arbitrary devices. What
`CausalClocks` assumes of the server (an operation is checked against the latest row of
its entity and stored in one step) is what `SyncServer` shows of the real transactions
(`NoLostUpdate`); the planned composition (section 8) states that as a refinement.
`Conflict` uses the same clocks (unbounded there) and the same server rule for one
entity, and looks at what the devices do about refusals. `FileSync` is the other
transport: no server, `SyncFile` over `SyncClock`.
`RemoteApply` looks inside one device: what `CausalClocks` does in one `Download` or
`Capture` step takes it many, any of which may be the last before a crash.

### SyncClock

`Compare` is the code's three-way loop as two quantified comparisons. `LimitClock`
keeps preserved ids in the order given, then the largest counters, the smaller id first
among equal ones. `SurvivesImport` is the whole of `classifyOpAgainstSyncImport`:
`GREATER_THAN` or `EQUAL`, or the import author's own later counter, or knowledge of the
import counter through pruned clocks. `BoundOwnClock` is the store's
`pruneClockForStorage`.

### CausalClocks

| Variable | In the code |
|---|---|
| `issued` | operation ids handed out (`uuidv7`): every new operation, a re-created one included, has an id no other has |
| `ident`, `minted` | the device's client id; a backup import mints a new one |
| `clock` | the durable vector clock (`VECTOR_CLOCK` store) |
| `author` | the latest full-state author the store protects when it prunes |
| `stored` | the local operation log: which operations, their clocks, which are full-state |
| `cursor` | `lastServerSeq` |
| `pending` | unsynced operations, in log order |
| `log` | the server's operations; `Retained` is what is left after the latest import, which is uploaded as a clean slate |
| `known`, and `past` of an operation | ghost: what really happened before it |

Actions: `Capture`; `SyncImport` (server migration and force upload: merge all local
clocks, increment, prune, append to the log and *not* to the durable clock, drop the
waiting edits it includes); `BackupImport` (new id, clock `{newId: 1}`); `Upload` with
the replacement fence and conflict detection on the full clock, pruning before storage;
`RejectedUpload` (re-creation with the merged clocks, or dropping, when the latest
operation has not been seen yet); `Download` of the next operation (own ones are
skipped, imports reset, updates are merged or filtered); `UseRemote` (the rebuild of
`forceDownloadRemoteState`).

Abstractions: a device captures only while nothing waits (a bound on the queue; a queue
of two edits of one device is one more edit with the same knowledge); operations the
server piggybacks on an upload are later downloads; a conflict in which the local side
wins by timestamp is the re-creation of `RejectedUpload`, one in which it loses is its
drop; the rebuild is one step. Restart, compaction, `REPAIR` and the aggregated
`snapshotVectorClock` are left out. Not merging the clock of a stored import is true
of a running client: a restart does merge it (`operation-log-hydrator.service.ts:568`).

### SyncServer

A handler goes through `stage`:

```
idle -Receive-> queued -EnterStorageLock-> (admitted ->) checked -> [freeing <-> deleting]
     -Begin-> (began -LockRow->) working -Accept/Reject*- -Commit-> (committed ->) finishing
     -Finish-> idle                              Abort: began, working -> finishing
```

| Variable | In the code |
|---|---|
| `log`, `row`, `holder` | the account's `operations`, its `user_sync_state` row and that row's lock |
| `storage` | the promise chain of `runWithStorageUsageLock`, per process |
| `dedup` | `RequestDeduplicationService`, per process |
| `batch`, `cursor`, `wipe`, `occupied`, `cut`, `results` | locals of the handler |
| `view`, `trow`, `stale` | the transaction's snapshot with its own writes; whether a commit has changed the row since |
| `wiping`, `sweepTo` | `DELETE /data` between its commit and its cache clearing; a running retention sweep |
| `published`, `imports`, `wipedAt` | ghosts |

PostgreSQL is what the code relies on: the first statement of a REPEATABLE READ
transaction fixes its snapshot; a statement on the sequence row (the lock, or the
upsert that allocates the sequence number) waits for the holder and fails with 40001
when a commit changed the row since; a commit is atomic. A transaction that needs no
early lock (an upload without cursor) meets the row only at its first accepted
operation, with everything it checked before that taken from its snapshot: the code's
argument for correctness is exactly that this write then fails, and the model checks
it, the first upload of an account (no row yet) included.

Abstractions: contents of operations are a table (`Content`); byte counts are the
choice between "fits" and `QuotaShort`; the 50 iterations of `freeStorageForUpload`
are not counted; the sweep's age filter becomes the choice of any checkpoint as its
boundary; `POST /snapshot` results share the map `dedup` under keys that differ from
those of `POST /ops`; the pre-lock and in-lock tests for a second `SYNC_IMPORT` are
one; a `REPAIR` with `NoCursor` is the legacy repair the code treats as non-causal;
payload validation, encryption gates, rate limits and the reads that only fill the
answer are left out. A request answered from the cache changes nothing, so it is not a
step; what it would say is in `AnswersAreTrue` and `RetriesForgetWipedResults`.

### RemoteApply

| Variable | In the code |
|---|---|
| `rows`, `nextSeq` | the `OPS` store of IndexedDB: status, synced, rejected per row; its key generator, which survives deletions |
| `cache` | the `STATE_CACHE` entry: state, `lastAppliedOpSeq`, clock |
| `clock` | the durable vector clock, as the set of operations it covers |
| `archived` | the archive side effects that have run (another database) |
| `cursor` | `lastServerSeq` |
| `live` | the NgRx state |
| `captured`, `deferred` | actions counted by `OperationCaptureService` and not written; actions buffered by the meta-reducer |
| `lost` | `hasUnrecoveredPersistFailure` |
| `frontier`, `foreign` | `TabSeqFrontierService` |
| `stage`, `mode` | how far the tab is, and whether an apply belongs to the start, to the retry at the gate or to a download |
| `first`, `target`, `work`, `done`, `failed` | locals of the download and of `applyRemoteOperations` |
| `compacting` | a compaction has written its snapshot and deletes next |
| `served`, `nextOwn`, `faults` | the server's log, the user, the bound on failures |
| `logged` | ghost: the sequence number an operation was last written at |

```
off -Load-> loaded -Replay-> replayed -Settle-> settled -EndStart-> effects (start)
idle -Sync-> flush -Gate-> [effects (gate)] -> fetched -FirstPage-> paging -LastPage->
  flushed -StoreBatch-> stored -MergeClocks-> informed -RunReducers-> reduced
  -CommitReducers-> effects -RunEffect*, EndEffects-> mark -MarkApplied-> clear
  -ClearOlder-> quarantine -MarkFailed-> drain -WriteDeferred*, EndDrain-> advance
  -Advance-> upload -Upload-> idle
Crash: any -> off      Throw: a stage of a download's apply -> drain
effects (start, gate) run through the same stages to drain, then to idle or fetched
```

The `sp_op_log` lock (`LockFree`) is held by a download from `stored` to `drain` and by
a compaction between its two writes; a retry of archive work does not take it, so
captures and compactions interleave with it. `Window` is `isApplyingRemoteOps`: from the
dispatch to the last archive effect, and for a full-state operation from the lock on
(the hold of `beforeFullStateApply`). An action in the window is buffered, any other is
captured; the drain writes the buffer under the lock the download still holds.

`DurableLog` has two actions: an operation of this device is written, or news from the
server arrive; both change the state by exactly these operations. The refinement maps
its `state` to `Rebuilt` (the snapshot and what a start would replay on it) and its
`received` to `DOMAIN logged`. Crashes, restarts, compaction, snapshots and retries are
stutters, and a batch is received at once, although it is stored, reduced, committed
and finished in separate transactions.

Assumptions and abstractions: a state counts effects, so that a lost and a doubled
operation are both visible; archive work is idempotent per operation; remote operations
touch other entities than unsynced local ones (`Conflict` is about the others),
and one after a full-state operation knows it; an import that meets unsynced local work
is refused (the dialog is cancelled; the other answers are the rebuild paths that are
left out); a full-state operation whose reducer throws would stop every start and is left
out (`ReducerAssumption`); the user acts only when the start's retry is over; the other
tab only writes, and only once this one has started (`startup.service.ts` stops a second
start); "stall" means that no sync completed for the retention time, so that compaction
may delete rows the cursor has not passed.

### Conflict

| Variable | In the code |
|---|---|
| `shared` | the server's rows of the entity |
| `log` | the device's `OPS` rows of it, each `pending`, `synced`, `rejected` or `remote` |
| `live`, `clock`, `cursor`, `time` | the task in the NgRx state; the durable clock; `lastServerSeq`; the timestamp of the last action |
| `answer` | the answer of the upload under way: what was taken, piggybacked and refused |
| `attempts` | `RejectedOpsHandlerService`'s resolution attempts of the entity |
| `todo`, `faults` | what the users are going to do; the bound on faults |

```
answer.step: idle -Upload-> sent -ProcessPiggyback-> processed -Acknowledge-> idle | refused
             refused -Refetch-> fetched -Supersede-> idle        (NothingOpen: -> idle)
LoseAnswer: any step but idle -> idle      CrashMidway: a download's resolution cut in two
```

A download and its processing are one step, since the operation-log lock is held from the
conflict check to the end of the resolution; a crash inside it is `CrashMidway`: the rows
of the resolution are stored, its end (the rejections and the cursor) is not, and the next
start rebuilds the task from the log. A
resolution is a sequence of steps (`WholeSteps`, `PatchSteps`): apply or reject a row,
store a remote one, append an operation of one's own; `Finalize` re-sends what survives.
The planner's choices are translated one by one: `Verdict` (comparison with the entity's
frontier), `LocalWins`, `LocalWinOp`, `Converted` (an edit that wins over a delete becomes
a re-creation), `Compensation`, `FieldWinner` and `Patchable` (patches field by field).
`Supersede` is the replacement of refused operations, with its fold over the rejected
ones.

Abstractions: the task has two fields, `Plain` says which of them is a plain field; a
stamp names the edit a value comes from; clocks on the wall are any that grow on each
device, so skewed clocks are included. Left out: other entities and operations on
several, archive and restore, projects (a delete wins there), time deltas, sections and
orders, relationship follow-ups, noise fields, reminders, entity types without patches,
reducers that throw (`RemoteApply`), file providers, and crossings of operations when
nothing is pending.

### SyncFile, SyncFolder and FileSync

| Variable | In the code |
|---|---|
| `primary`, `bak` | `sync-data.json` with its revision (or torn by a partial write) and `sync-data.json.bak` |
| `stamp` | the vector clock of each edit's operation |
| `log`, `pending` | synced and unsynced rows of the operation log |
| `known`, `clock` | the edits the device's state reflects; its vector clock |
| `import` | the device's latest full-state operation: its clock and state; unsynced (`pending`) or rejected (`barred`); whether a put of it has reached the folder (`sent`); whether the next start replays it (`tail`), and which rows behind it (`later`) |
| `rebuild` | the marker of a USE_REMOTE rebuild that has begun |
| `mem` | the adapter's persisted cursor, expected version, revision and clock of the file |
| `staged`, `cache` | the same staged by a download until it is applied; the file kept for the upload of the cycle |
| `stage`, `hand` | where the cycle is, and its locals |
| `waived`, `faults` | ghost: the edits a user's decision gave up; the bound on faults |

```
idle -Fetch-> got (gap -Refetch-> got) -Apply*, Hydrate-> applied -Commit-> synced
synced -Start*Upload-> back -WriteBackup-> put -Put-> stored -CommitUpload-> counted
       -Acknowledge-> idle
got -AskBeforeSnapshot-> dialog | confirm
confirm -ApplySnapshot-> applied | -Reconsider-> dialog
dialog -UseLocal-> synced (a replacement is sent)
dialog -FetchRemote-> remote -Rebuild-> rebuilt -FinishRebuild-> idle
```

`SyncFile` is pure: `Trim` and `Appended` build the next file, `GapDetected` is
`detectDownloadGap` with all its six reasons, `HoldsSnapshot`, `SnapshotAhead` and
`ExtendsLastSeen` decide about a snapshot. `SyncFolder` has five actions (an edit, a push, a pull,
and the two decisions), each of which may lose nothing but what is waived; the mapping is
`replica` to `known`, `folder` to the edits of the last complete write.

A user's answer and the step it leads to are one action, because pending work is read
again under the lock before anything is replaced; hydration and the commit of its
baseline are one transaction in the code. USE_LOCAL appends its `SYNC_IMPORT` to the log and
leaves the durable clock where it was, one own counter behind the import
(`server-migration.service.ts:363`). Only a restart makes up for it: its hydration merges the
clocks of the rows it replays (`RestartClock`), until a saved snapshot (`Hydrate`, `Prune`) stands
in their place. An edit made in between takes the import's counter, and a device that meets its
own unacknowledged replacement in the folder takes it for a foreign one, hydrates it, and rejects
its import. `waived` has what a user gave up: at USE_REMOTE, and at USE_LOCAL what the *first* put
of the replacement overwrites; what a later put of the same replacement overwrites nobody
decided about. The edits are on different entities, so that a
conflict between two pending edits is `Conflict`'s. A file that was never applied, and
one read afresh at another revision, is not extended. "slow" is a cycle that outlives
the 30 seconds of the cache; "prune" deletes synced rows past their retention. Without
the event "stale", the backup of a writer that is late fails before its put does (see
section 5). Left out: the split format and its migration, buffers trimmed by older
versions, `REPAIR`, seeding an emptied folder, encryption, the guard against a
switched target, a first put that is torn before any backup exists, the loss of the
operation log.

## 3. What the runs check

| Run | Question | Bounds, and why they are enough |
|---|---|---|
| `CausalClocksPruned` | Does the filter keep exactly the operations whose author had the import? | three devices, three ids, clocks of two entries, so every device's clock overflows; four operations, of which one may be an import of either kind |
| `CausalClocksFenced` | Behind the fence, are edits lost between devices that restore a backup? Does pruning hide a conflict or make a rejection loop? | two devices and a third id to rotate to, clocks of two entries, two entities so that conflict detection can look at the wrong one; five operations, so that a re-created one can meet another edit |
| `CausalClocksMigration` | finding: see section 5 | two devices, one import, two edits |
| `SyncServerRaces` | Is an accepted edit overwritten by one that did not know it? Is a client told of a commit that did not happen? | two handlers in two processes (the race needs two), batches of two on overlapping entities, timer batches that commute, clocks of one entry; timeouts, repeated requests, an expiring cache; room for one stored operation before the race |
| `SyncServerReplacement` | Fence, repairs, at most one row per id, the marker of the newest checkpoint; does only superseded history disappear? Does the lazily resolved marker fence an old account? | an edit, an import and a repair, any cursor, two processes, sweep, quota cleanup and restarts in between; a history whose import is already pruned behind a repair |
| `SyncServerDeletion` | Do sequence numbers restart? Is every request answered, whatever the one before it left locked? | an edit and an import, two processes, sweep, quota cleanup and wipes beside them, on a new account; under `FairSpec` |
| `RemoteApplyDevice` | Does the cursor pass only what is applied, once, with its archive work? Do snapshots, the screen and the clocks agree with the log? Does the device implement `DurableLog`? | an edit of the user and one of a second tab, two remote operations in one or two downloads, the reducer of one throws; every kind of event, two faults (a second crash in the recovery from the first); a device with a snapshot |
| `RemoteApplyImports` | The same with a full-state operation between two others, in any batches; does everything the server has arrive? | an edit of the user, three remote operations, the last of which throws; one fault; under `FairSpec` |
| `RemoteApplyReordered` | finding: see section 5 | two edits, one remote operation |
| `Conflict` | Do the devices agree once they have synced? Does the newest edit of a field win? Does it end? | fourteen plans: three users edit one field; two users edit any of two fields, edit twice, delete, or both delete, with a third device that follows; clocks on the wall in any order; one fault, lost answers anywhere and a crash of device 2 within a resolution; under `FairSpec` |
| `FileSync` | Is an edit lost from the file or a device? Is a gap passed over? Does everybody catch up? Does it implement `SyncFolder`? | two devices with two edits and one, a file that keeps one batch (so that it is trimmed at once), clocks of two entries; in a folder that nobody replaces, one fault of a crash, a lost answer or write, a torn write, a cancelled dialog, pruned rows, an expired cache; in a folder that the user of device 2 may replace, the same but for the crash and the torn write (section 5); `MCSharedFolder` chooses between the two at the start; under fairness of each cycle |
| `FileSyncTwoDecisions` | finding: see section 5 | both may replace the folder, one answer is lost |

Two handlers, two or three devices and three operations are small, but each hazard
involves two actors and at most three operations on one entity (a stored one, the racing
one, the import that comes between); clock overflow needs one id more than the bound; and
the bound of the code (20) is a constant, so two entries stand for it. The proofs remove
the bounds for the properties they cover. Larger instances were checked once: of `FileSync`
with its invariants, two edits of each device where nobody replaces the folder (606 826 states);
of `Conflict`: two edits of both fields by
both users, three users editing both fields where both are plain, three devices with
three timestamps.

**Deadlock.** The configurations of `CausalClocks`, `SyncServer` and `FileSync` say
`CHECK_DEADLOCK FALSE`: bounds on operations and sequence numbers stop the models, and
these systems may stop (nobody edits). Those of `RemoteApply` check for deadlock: whatever
happened, a tab can always start, sync or compact, and no stage waits for something that
cannot come. That of `Conflict` checks that it ends only in `Finished`, with every device
caught up.

**Properties.** `AcceptedEditsKnowEarlierOnes`, `NoLostUpdate`: the later of two edits
of an entity knew the earlier (the first against true pasts, the second against the
transactions). `FilterKeepsExactlyInformedOps`: the filter is exact in both directions.
`NoRejectionLoop`: progress of honest edits.
`FencedByImports`, `RepairsIncludeEverything`, `StoredOnce`, `MarkerCoversHistory`,
`GapsAreSuperseded`, `CommitsAboveEverything`, `AnswersAreTrue`: the promises of the
write path; `EveryRequestIsAnswered`: nobody is left holding a lock. `NothingPassedIsLost`,
`NothingPassedIsUnfinished`, `AppliedOnce`, `EffectsFollowReducers`: exactly-once apply
under crashes, from the log's and the archive's side; `EverythingArrives`: and it is
applied at last. `SnapshotCoversLog`, `LiveMatchesLog`: a snapshot is what the log says,
so replaying only what is behind it is right. `WritesKnowRemote`, `CountersAreFresh`,
`LoggedInDispatchOrder`: the clocks a device hands out are those the other modules
assume. `ImplementsDurableLog`: the refinement. `CaughtUpDevicesAgree`,
`NewestEditSurvives`: convergence, and to the right value; `LiveIsReplay`: a restart does
not bring back what lost; `NeverGivesUp`, `Settles`: replacements of refused operations do
not go on refusing each other. `AcknowledgedIsStored`, `NoSilentGap`: a device that
believes the file is read holds what the file reflects, and what it counts as sent is
there; `ImplementsSyncFolder`: no step drops an edit nobody gave up; `TheFolderCatchesUp`,
`EveryDeviceCatchesUp`: it is there again and again.

Some of these properties fail in particular circumstances (section 5), and each passing
run leaves out just those of the properties it checks: `Migrates = FALSE` where lost
updates are checked behind the fence; `Anchored = 1` (a device that has a snapshot)
excludes the first session; snapshots are checked without the event "act" (an edit while a
full-state operation is applied), `CountersAreFresh` and `WritesKnowRemote` without
full-state operations; `LoggedInDispatchOrder` where every remote batch holds the window
from the lock on (only full-state operations in the feed). `Conflict`'s plans have no edit that is re-sent
while it meets a newer one, no delete against two edits and no deleter that crashes;
in `FileSync` no backup is late, one device may replace the folder, with one edit, and where it
may nothing crashes or is torn (with a torn write as the fault its other properties hold, but
`TheFolderCatchesUp` does not).

Each property of a passing run has a *mutant* in `PROJECT.json`: a plausible bug (the
operator marked "Faulty variant" in front of the definition it replaces) under which TLC
finds the property violated, so none of them holds by the shape of the model.

**Symmetry.** Handlers (together with their processes) are interchangeable: nothing
refers to a particular one. Clients and operations are not (the content table tells
them apart). The runs that check liveness use none.

## 4. Fairness

`SyncServer`'s `FairSpec` is strong fairness of each handler's next step,
`SF_vars(Handle(r))`. Strong, because the storage lock and the row lock are enabled and
disabled by others: the code grants the first through a promise chain (first come, first
served) and PostgreSQL queues waiters for the second, so a waiter is not overtaken for
ever. Handlers run because Node runs ready callbacks, and every statement ends. Nothing is
assumed of clients, sweeps, wipes or restarts. (`SyncServerDeletion` has no timeouts: the
answers must come without them.)

`RemoteApply`'s `FairSpec` has weak fairness for the steps the tab makes by itself: the
stages of a sync (the immediate upload and the interval start one again and again), of
a start, and the deletion that follows a compaction's snapshot. Captured and deferred
writes and the step that takes the lock for a batch have strong fairness, since others
hold the lock in between: Web Locks are granted in the order of the requests, and
`concatMap` keeps one writer. Failures are bounded by `MaxFaults`, which stands for "in
the end an attempt succeeds". `EverythingArrives` excepts a device that is `Held`: rows
left `pending` by reducers that threw hold every sync until the tab is started again,
which is what the code intends, and nothing makes a user restart; and a refused import
waits for the user's answer.

`Conflict`'s says that while some device is not caught up, some step of a sync is taken
again and again; the check for deadlock shows that there is one. It is weaker than
fairness of each device, which the interval timers give: a device may wait while another goes on. `FileSync`'s has weak fairness
of each device's cycle, `WF_vars(Sync(d))`, in its run within the kind of folder chosen: the interval starts one, a cycle's next step is
never disabled by another device (a changed revision enables the mismatch instead), and
users answer dialogs; that they do not cancel for ever is the bound on faults.

## 5. Findings

Three runs expect a violation; `PROJECT.json` quotes the lines.

1. **`CausalClocksMigration`**, `server-migration.service.ts:363`. The `SYNC_IMPORT`
   of a server migration or force upload increments the own counter but stores the
   operation with `opLogStore.append`, which leaves the durable clock behind. The next
   edit carries the same counter as the import, so a device that has only the import
   looks as if it knew that edit: its concurrent edit compares `GREATER_THAN`, is
   accepted, and overwrites. It disappears when `Migrates` is `FALSE` (backup imports
   set the durable clock).
2. **`RemoteApplyReordered`**, `operation-capture.meta-reducer.ts:272`. An action
   dispatched before the window of a download waits for its lock; a later one inside the
   window is buffered and written under that lock, so first: of two edits of one field
   the older is uploaded as the newer.
3. **`FileSyncTwoDecisions`**, `server-migration.service.ts:329`. Two users choose USE_LOCAL
   in turn. The clock of the second `SYNC_IMPORT` does not merge that of the file it
   overwrites, and the first device, which takes the replacement in as a snapshot, keeps its
   own older import as the latest full-state operation. The second device's next edit is
   concurrent with that import, and is filtered on the first device for good, while its
   cursor passes it; its next upload writes a state without the edit into the folder.

Sixteen more disagreements were met while modelling. Each shows within seconds as a
violation of the property named when a configuration is given the constants in
brackets, and the passing runs are bounded so as not to meet them.

* `operation-log-upload.service.ts:318`: a replacement is stored, the tab ends before it is
  acknowledged, and the other device uploads an edit on top of it. After the restart (the
  clock is now that of the import, `operation-log-hydrator.service.ts:568`) that edit is
  downloaded and applied; the dialog comes only when every operation is filtered
  (`operation-log-sync.service.ts:1252-1256`). Then the `SYNC_IMPORT`, still unsynced and with
  the reason `FORCE_UPLOAD`, is put again without a condition and with the state it had when it was
  created: the other device's edit is gone from the folder, and nobody decided so.
  `file-based-sync-adapter.service.ts:785-789` says that the adapter "NEVER force-overwrites the
  primary sync file" but from explicit user actions. `AcknowledgedIsStored`, and
  `ImplementsSyncFolder` and `TheFolderCatchesUp` as well [`FileSyncTwoDecisions.cfg` with
  `Overwriters = {2}`, `Events = {"crash"}`; `FairSpec` for the last one]
* `server-migration.service.ts:363`, the consequence of finding 1 with a file provider, without
  any fault: the edit that follows USE_LOCAL has the import's counter, so its upload leaves
  the file's clock as it was. The other device, which has hydrated the replacement, finds a
  gap, reads again from 0, and skips the snapshot that holds the edit, because its clock is not
  behind it (`operation-log-sync.service.ts:723-799`). It commits the revision, counts itself up
  to date without the edit, and writes a state without it when it uploads.
  `docs/sync-and-op-log/vector-clocks.md:341` says "counters are monotonically increasing", and
  `operation-log-architecture.md:914-915` that every snapshot a device wrote "is merged into that
  clock". `NoSilentGap`, and `EveryDeviceCatchesUp` as well [`FileSyncTwoDecisions.cfg` with
  `Overwriters = {2}`, `MaxEdits <- TwoOfSecond`, `Events = {}`, `MaxFaults = 0`; `FairSpec` for the
  second]
* `server-migration.service.ts:363`: after a second `SYNC_IMPORT` the author's next edit
  has a *smaller* counter than its own import; the filter of every other device drops
  it, although the comment at `sync-import-filter.service.ts:192` says counters make
  that impossible. `FilterKeepsExactlyInformedOps` [`CausalClocksMigration.cfg` with
  clients 1..3, `MaxClockSize = 3`, `MaxOps = 4`, `MaxCounter = 3`, `MaxImports = 2`]. Two
  devices that both create one have the same effect: the durable clock stays behind the
  import, so a later operation of its author looks older than it
* `sync.service.ts:974`: the comment says clearing the cache after a wipe stops a retry
  from getting pre-wipe results. An upload that committed before the wipe and ends after
  it puts its results into the cleared cache. `RetriesForgetWipedResults`
  [`SyncServerDeletion.cfg` with `Events = {"requestId", "wipe"}`]
* `remote-ops-processing.service.ts:316`: the hold buffers what the user does while a
  full-state operation is applied. An edit made after the hold begins and before the
  reducers run is wiped from the screen by the import, and written behind it when the
  buffer is drained without being dispatched again; a snapshot of the screen is then
  anchored behind an operation that it does not contain, against
  `operation-log-snapshot.service.ts:101-104`. `SnapshotCoversLog`
  [`RemoteApply`, one edit, `Feed = <<21>>`, `Imports = {21}`, the event "act"]
* The same place again, without such an edit: the recheck counts captured writes
  (`flushThenRunExclusive` waits for `getPendingCount`), not buffered ones. An action whose
  drain failed in the retry of archive work at the gate stays buffered; the import of the
  same sync wipes it from the screen, and it is written behind the import later.
  `SnapshotCoversLog` [`RemoteApply`, one edit, two remote operations, the second a
  full-state operation, `Events = {"write", "throw"}`, two faults]
* `tab-seq-frontier.service.ts:65`: a start on an empty log establishes the frontier 0,
  which the service takes for "unestablished"; against its comment at `:35-37`, the
  first session lets a compaction anchor past another tab's operation.
  `SnapshotCoversLog` [`RemoteApply`, one edit, one of the other tab, `Events = {"tab"}`,
  `Anchored = 0`]
* `operation-log-hydrator.service.ts:268`: a start puts the snapshot's clock in place of
  the durable one and merges only what it replays; an operation rejected since the
  snapshot is filtered from the replay and forgotten, against the comment at `:849-852`.
  `RejectedStaysKnown` [`RemoteApply`, `Feed = <<21, 22>>`, `Broken = {22}`, one crash]
* `operation-log-hydrator.service.ts:1102`: retrying the archive work of a batch merges
  the clocks of its finished prefix again, "a harmless component-wise max" (`:1096-1100`).
  When that is a full-state operation the merge resets the clock, and the operations
  behind it, which the user sees, are no longer known. `WritesKnowRemote`
  [`RemoteApply`, one edit, `Feed = <<21, 22>>`, `Imports = {21}`, crash and archive
  failure, two faults]
* `operation-log-hydrator.service.ts:568`: a start that loads a full-state operation at
  the end of the log restores the own counter of the older snapshot; the local operations
  in between are not replayed, and their counters are used again, against the invariant
  at `operation-log-store.service.ts:2769-2774`. `CountersAreFresh` [`RemoteApply`, three
  edits, `Feed = <<21>>`, `Imports = {21}`, one crash]
* `operation-log-store.service.ts:1606`: the answer of a replacing put is lost. The durable clock
  is behind the replacement, so the next download takes it as a foreign snapshot that is
  ahead. Hydration marks the device's own pending `SYNC_IMPORT` as rejected, and from then on
  `operation-log-upload.service.ts:198-213` refuses every upload: what the user edits next is
  never sent. `UploadsGoOn` [`FileSyncTwoDecisions.cfg` with `FairSpec`, `Overwriters = {2}`,
  `MaxEdits <- TwoOfSecond`]
* The same with a replacing put that is cut short: the backup holds the replacement
  (`file-based-sync-adapter.service.ts`, the backup is written first), the overwriter hydrates it from there as
  foreign and is barred, the other device adopts it and has nothing to send. The primary file
  stays torn, and the folder can be read from the backup only, until the other device edits.
  `TheFolderCatchesUp` [`FileSyncTwoDecisions.cfg` with `FairSpec`, `Overwriters = {2}`,
  `Events = {"torn"}`]
* `file-based-sync-adapter.service.ts`, the backup before the put: a late writer overwrites
  `.bak` with the older content it had read before its put is refused; if the put of the
  other device is torn, the older backup is recovered. An acknowledged operation is then in
  no file; it returns with its device's next state under a reused version, in which
  another device sees no gap. `AcknowledgedIsStored` [`FileSyncTwoDecisions.cfg` with
  two edits each, `Overwriters = {}`, `Events = {"torn", "stale"}`]
* `conflict-disjoint-merge.util.ts:167-173`: a field that won and was re-sent is a pending
  last-writer-wins row, which is opaque: when a newer edit of *another* field arrives before
  it is uploaded, the whole entity is decided, the re-sent value is rejected and not sent
  again, and its device keeps showing it. `docs/sync-and-op-log/protocol-change-options.md:106`
  says "the replicas end up equal on declared entities". `CaughtUpDevicesAgree`,
  `NewestEditSurvives` [`Conflict.cfg`, clients 1 and 2, `Plans <- PendingResend`, no faults]
* `docs/sync-and-op-log/protocol-change-options.md:66` lists as #10438 that a batch in which
  one operation wins and another loses is resolved as both. The model has it too: `LiveIsReplay` for a delete against two edits; `CaughtUpDevicesAgree`
  for an edit twice, once and once on three devices [`Conflict.cfg` with such plans]
* A device that deletes the task crashes after a newer edit was stored as a re-creation and
  before its own `DELETE` was rejected. The `DELETE` is sent, refused, and replaced by a
  re-creation from the local state, above the edit. `LiveIsReplay` [`Conflict.cfg`, an edit
  against a delete, the deleter in `Crashers`]

Two more were seen and are not in the model: file providers have no check for an operation
id that is sent again after a lost answer, and a `REPAIR` that is retried after a download
is not computed again from the new base.

## 6. Proofs

All proofs are checked from nothing by `tlapm` (SMT, Zenon, LS4); there are no
unproved steps, and the only assumptions are the named `ASSUME`s on the constants, which
TLC evaluates on its instances: clients are integers (`SyncClock`), the content table,
batches, requests and the pre-existing history have their types, and that history was
written by this server (`HistoryIsInformed`, `HistoryIsFenced`, `HistoryIsOnce`); for a
device, those of `RemoteApply` on its feed, operations and bounds; for the devices of
`CausalClocks`, distinct first ids, an entity, and bounds that are numbers; for those of
`Conflict`, plans that are sequences of sets of fields, a field, and bounds that are numbers.
Every safety property the runs check of `SyncServer` is proved, for any number of
operations, clients, handlers, processes and sequence numbers, with every event enabled.

* **`SyncClockProofs!PruningHidesNoConflict`** - for every bound: an edit whose clock
  lacks the counter of a stored edit's author never compares newer than, or equal to,
  the clock that was stored for it, because the server protects the uploader's id first
  when it prunes (`LimitClockKeepsFirst`).
* **`SyncServerProofs!TypeCorrect`** - `Spec => []TypeOK`. `TypeOK` is not inductive: a
  commit overwrites `row` with the transaction's copy, so the proof needs that the
  copy's counter is not below the row's (`HandlerInv`), that only one transaction can
  write it (`RowInv`: a handler that holds the row is not stale and saw the current
  row), and that what a transaction inserted lies above the counter it started from.
  The strengthening is `Inv == TypeOK /\ HandlerInv /\ RowInv`; all that follows uses it.
* **`SyncServerProofs!SequenceNumbersGrow`** - `Spec => CommitsAboveEverything`, from the
  same invariant and `published` staying at or below `row.lastSeq`.
* **`SyncServerProofs!UpdatesAreNeverLost`** - `Spec => []NoLostUpdate`. The
  argument is the code's own (ADR 4), made precise: `ViewInv` says that a transaction
  which holds the row sees at least the retained log (`SeesTheLog`: deletions may have
  run, nothing can have been added), that its view is itself `Informed`, and that a
  handler that is not stale saw the current row (`Current`). An operation accepted
  against a view that contains the log knows its predecessor there
  (`Compare` = `GREATER_THAN`, or equal clocks of one client, or two timers); deleting a
  *prefix* of the log makes no new neighbours, which is why sweeps and quota cleanup
  need no lock.
* **`SyncServerProofs!OperationsAreStoredOnce`** - `Spec => []StoredOnce`.
  `OnceInv`: the log and every transaction's view have each id once. Accepting looks for
  the id in the view; only the holder commits, and its view contains the log.
* **`SyncServerProofs!OnlySupersededHistoryDisappears`** -
  `Spec => []GapsAreSuperseded`. A deletion is decided in one step and made in a later one.
  `GapInv` says of each boundary that is decided (`Planned`) that deleting below it is
  `Safe`: a checkpoint is at or above it, or nothing is below it. The point is that this is
  stable: commits add only above every boundary, another deletion at `n` leaves the
  checkpoint at or above `n`, and a wipe leaves nothing below.
* **`SyncServerProofs!RepairsIncludeAll`** - `Spec => []RepairsIncludeEverything`.
  `RequestInv` says what a request can be (a full-state operation is alone in its batch, a
  clean slate carries an import); `RepairInv` that between the check of a repair's base
  against the locked row and its insert the copy of the counter cannot move.
* **`SyncServerProofs!ImportsFenceOperations`** - `Spec => []FencedByImports`. The
  number a cursor is compared with is `Marker`: what the row says, or what would be resolved
  from the log if it says nothing. `FenceInv`: no import accepted since the last wipe is
  above it, for the row, for each transaction that may still lock the row (`WaitingFence`),
  and for what the holder is going to commit (`MarkerFence`, `CursorFence`,
  `InsertsFence`). The subtle step is a deletion while the marker is unresolved: it may take
  the import away, but only behind a newer checkpoint, which resolves to a higher number.
* **`SyncServerProofs!MarkerNamesTheNewestCheckpoint`** -
  `Spec => []MarkerCoversHistory`. `MarkInv`: the row is `Marked`, and the holder has either
  put the marker on a row it inserted, with a clock merged from a view that contains the
  log, or left it alone and inserted no checkpoint (`HolderMarks`). Deletions keep the
  newest checkpoint (`Safe` again).
* **`SyncServerProofs!ClientsAreToldTheTruth`** - `Spec => []AnswersAreTrue`.
  `AnswerInv`: what a transaction is going to confirm is among what it has inserted
  (`Confirms`), so the commit publishes it; results are only kept for a retry, or turned
  into an idempotent success, once that has happened.

* **`CausalClocksProofs`** - for any number of devices, client ids, entities and operations.
  `TypeCorrectClocks` (`Spec => []TypeOK`) and `RejectedOnce` (`Spec => NoRejectionLoop`)
  hold with every flag. `TypeInv` strengthens `TypeOK` by what an operation id means
  (`Names`): nobody knows an operation that was not issued, and none is twice in the log or
  waits while it is there.
* **`CausalClocksProofs!FilterIsExact`** - `Spec => []FilterKeepsExactlyInformedOps` for
  `~Migrates` and `MaxClockSize > 1`, with or without the fence. The filter sees two pruned
  clocks, the property speaks of what really happened, so `FilterInv` ties them together
  for everything the filter may ever see: the log, every queue and every durable clock.
  `Identities`: a client id belongs to one device at a time. `Privacy`: nobody knows an
  operation that waits elsewhere. `Closure`: who knows an operation knows its past.
  `Fresh`: no clock has an entry for an id that only an import in the queue carries, so a
  counter of the import's author says that the import is known. `Holders`, `Exactness`: a
  clock has the author's entry exactly if the import is in the past beside it, and pruning
  keeps that entry, because server and devices protect the author
  (`LimitClockKeepsSecond`). With `MaxClockSize = 1` there is no room for it. With
  `Migrates` the counter of an import is used again, and it is false (section 5).
* **`CausalClocksProofs!NoLostUpdate`** - `Spec => []AcceptedEditsKnowEarlierOnes` for
  `Fenced`, `~Migrates` and `MaxClockSize > 1`. `EditInv` adds to `FilterInv` that a device
  which has passed the fence reads the log by its clock (`Views`): if its entry for an
  author is at least the counter of that author's retained edit, the edit is in its
  state; and each entry it has is vouched for by such an edit, except its own. That is
  stable under merges because the counters of one author grow along the log and stored
  clocks can be read the same way (`History`), and a device whose operations are retained
  has itself read the latest import (`Speakers`). An accepted edit then compares `GREATER_THAN` the latest edit, whose
  author's entry the server has kept, hence covers it, hence knows it; and the latest
  knows those before it.

* **`RemoteApplyProofs`** - `RemoteApplyTypes`, `PassedIsFinished` and
  `EffectsAfterReducers`: `Spec => []TypeOK`, `Spec => []NothingPassedIsUnfinished` and
  `Spec => EffectsFollowReducers`, for every feed, batching, number of failures and both
  kinds of operations. The cursor says nothing of how the work before it was done, so
  `NothingPassedIsUnfinished` needs the whole pipeline in `Inv`. `LogInv`: a row is remote
  exactly when it is not local, is rejected only for its reducer, is applied only with its
  archive work, and an operation has one row. `GateInv`: the gate leaves no unfinished row,
  so that in a download the only ones are its own batch's; this is what makes it safe to
  advance over operations the duplicate filter dropped. `FirstInv`: a page skips only what
  a full-state operation behind it replaced. `TargetInv`: up to the target everything is
  complete or in what is left of the batch, until something fails, and then the cursor
  stays. `KnownInv`: what a clock covers is complete or still in the log, which is why an
  operation hidden by a full-state clock, or deleted by a compaction, was not owed.
  `EffectsFollowReducers` follows from `WorkInv`: the rows whose effects run are `Unfinished`,
  hence not `Pending`. The filters are written with `Kept` (`Selection`), a recursive
  function: which elements it keeps is a lemma (`SelectionProofs!KeptOf`), proved by
  induction on the length, where the provers' library says nothing of `SelectSeq`.

* **`RemoteApplyStateProofs`** - what the state of the application holds, for every feed,
  batching, number of operations and of failures, in the instances that are `Regular`:
  `RemoteAppliedOnce` (`[]AppliedOnce`), `RemoteNotLost` (`[]NothingPassedIsLost`),
  `RemoteLiveMatchesLog` (`[]LiveMatchesLog`), `RemoteSnapshotCovers`
  (`[]SnapshotCoversLog`), `RemoteImplementsDurableLog` (`ImplementsDurableLog`).

  *`Regular`* leaves out only what is known to go wrong; both passing instances satisfy
  it. Without full-state operations it allows every event, any number of faults, and a
  second tab behind a snapshot; with them crashes, throws and failures of archive work in any number,
  and a failed write as the only fault. It excludes the second tab of a device that started
  without a snapshot and, with full-state operations, an action between the hold and the
  reducers and a failed write among other faults: in each of these TLC finds
  `SnapshotCoversLog` violated, in the last two `LiveMatchesLog` as well (section 5). It also
  excludes "stall" with full-state operations (`operation-log-compaction.service.ts:301`):
  one whose row was compacted away before the cursor passed it is stored and applied again,
  since a batch with a full-state operation is not compared with the snapshot's clock, and
  TLC finds `SnapshotCoversLog` violated. `AppliedOnce` and `NothingPassedIsLost` hold in
  all of these on a small instance (an edit in each tab, `ThreeOps`, one import, every event,
  two faults; 3.7 million states); that they do not need `Regular` is not proved.

  *The invariant* is `Inv /\ BaseInv /\ StateInv`, with `Inv` from `RemoteApplyProofs`.
  `BaseInv` is the bookkeeping: an operation is written while it has no row (`OnceInv`),
  a clock and the archive know only what was written (`LearnInv`), each of the user's operations is
  captured, buffered, written or excused (`OwnInv`), a batch comes behind every earlier
  full-state operation (`BatchInv`), the frontier is not behind the snapshot (`FrontInv`).
  `StateInv` has one part for each place the state is in. `CoveredInv`: what was downloaded
  is behind the snapshot or in its clock, hence a start knows it. `PagesInv`: with full-state
  operations the clock may forget, so a page stores nothing that was ever written because
  of the order of the feed instead. `SnapInv`: the snapshot is the log up to *some*
  place at or behind its own number. It is not the number itself: a row that
  is rejected or replaced changes nothing, a snapshot may be taken over rows it does
  not count, and the start's shortcut throws away what precedes a full-state operation.
  `ScreenInv`: nothing is on the screen twice, what waits is on it, what is
  stored and not reduced is not. `LiveInv`: the screen is the log but for what the stage says:
  a batch that is stored and not reduced is exactly what is missing, `Excused` operations
  were shown and never written, `Unseen` ones are the other tab's. Every snapshot
  is taken of the screen, so `SnapInv` needs `LiveInv`; every start sets the screen
  from the snapshot, so the converse holds too, and the two are inductive only together.

  `SnapshotCoversLog` speaks of rows that may be long deleted, and needs `CoverInv` on top:
  the archive work goes up the log (`QueueInv`), so nothing is open before an applied row (`DoneInv`), and
  nothing unsynced before a full-state operation (`SyncedInv`); therefore a compaction that
  takes the row of the full-state operation in effect takes every row before it (`TailInv`),
  and no start can replay what it replaced.

  *The refinement.* `HeldState` is the state of `DurableLog` as a function of the log alone:
  `Rebuilt` equals it by `SnapInv` (`RebuiltHeld`). A local write is `DurableLog`'s write,
  a stored batch its receipt; every other step, the crash in the middle of an apply and both
  halves of a compaction included, leaves `HeldState` alone (`RefineStep`).

  *What a new operation knows.* `RemoteWritesKnow` (`WritesKnowRemote`) and
  `RemoteCountersFresh` (`CountersAreFresh`), for devices that meet no full-state operation
  (`Imports = {}`) and otherwise every event, any number of faults and a second tab, not only
  `Regular` ones; with full-state operations both are false (section 5). The write takes the
  clock of the store, the property speaks of the screen. `KnowsInv` says that in every stage
  in which something can be written the clock covers every remote operation shown and every
  own one in the log: the merge comes before the reducers (`InformedStep`), and a start
  reads the clock from the snapshot and the rows it replays (`KnowsLoaded`), which
  is why a crash between the two cannot separate them.

* **`FileSyncProofs`** - for every set of devices, number of edits, length of the operation
  list and number of faults. `FileSyncTypes` (`Spec => []TypeOK`) holds without any
  hypothesis. `FolderKeepsAcknowledged` (`[]AcknowledgedIsStored`), `FolderHasNoSilentGap`
  (`[]NoSilentGap`) and `FileSyncImplementsFolder` (`ImplementsSyncFolder`) are for
  `NoReplacement`: no device may replace the folder (`Overwriters = {}`), and a backup
  writer is not late (`"stale" \notin Events`). In such a folder no
  device ever has a full-state operation (`OwnImport`), so that a restart leaves its clock as it
  was and no import of its own filters a download. Both hypotheses are needed. A replacement is put
  whatever the revision is, and two that cross lose edits (`FileSyncTwoDecisions`, section
  5; with two overwriters, two edits each and faults `ImplementsSyncFolder` fails as well); a
  late backup loses an acknowledged one (section 5). With one overwriter the run
  `FileSync` checks them where they hold.

  The code compares clocks in place of states, so the invariant `IInv` says when that is right.
  A clock *counts* no edit that a state lacks, but for those given up (`Counts`, `Counted`). A
  file is *good* (`GoodFile`) if its clock counts exactly the edits its state reflects, and
  its recent operations lead from any state its versions had to the present one, or the oldest
  kept version shows the gap (`Reaches`). `FileOk`: the file is good, and a torn one
  has its own content as backup. `StampsOk`: an edit is with its author until it is
  given up, and knew of others only what a file said. For each device, `LogOk`: its state is what it has to
  send and what the folder has. `MemOk`: what the adapter remembers as taken in has been taken in.
  `CacheOk`: a cached file of the present revision is the present file. `HandOk`: a cycle in the
  middle holds a file of now or of before; and if the revision it read is still the
  folder's, what it is about to put extends what is there (`Extends`), so that a conditional put that
  succeeds loses nothing. `Later` says how a step of anyone moves the shared file on, and
  `OtherKept` that all of a device's parts survive that; what remains to show for each
  action is about its own device. The refinement is proved
  step by step: writing an edit, a put that succeeds, taking in operations or a snapshot and
  giving up edits change the abstract replicas and folder; every other step is a stutter. TLC checked
  the invariant before it was proved, with two devices, two edits each and two faults, with three
  devices, and with a list of two batches.

* **`ConflictProofs!ConflictTypes`** - `Spec => []TypeOK`, for every set of devices and
  fields, every plan of edits and deletions, any number of attempts and faults.
  `ConflictInv` (`DevicesTyped`, `SyncTyped`, `CountsTyped`) gives rows, steps, answers and
  refusals their types. What needs it: a row's id has a counter, an operation that is not
  written yet has none (`Sent`, `Op`); a task is whole (`Task`), although updates and
  patches carry some of its fields, because nothing is laid over `Gone` but a patch, and
  that over the defaults; and a re-creation takes its fields from a task that was deleted,
  so a deletion carries all of them.
* **`ConflictProofs!ReplayedIsShown`** - `Spec => []LiveIsReplay` if no user deletes the
  task (`NoDeletes`, a condition on `Plans`), whoever edits what, wins, is refused or gives
  up, and wherever a device crashes. With deletions it is false in general (section 5); the
  run `Conflict` checks it for three plans with deletions.

  A resolution writes the log and the screen in different orders: a losing remote row is
  stored and never shown, a local winner is stored and on screen already. A start replays
  them all, the rejected ones too. `InStep` says of a device that both lead to the same
  task, and `WholeInStep` that a whole-entity resolution leaves it so. The local winner's
  row restates the task, so what was stored before it does not count; what is stored after
  it are the remote winners. If they are plain edits of plain fields, they were laid over
  the restatement as well as shown, and laying them over a task twice is laying them once
  (`Idempotent`); otherwise they come after it on both sides. A batch without a local
  winner, and one that is resolved by fields, shows all that it stores, in one order
  (`ShownSteps`). What `Finalize` and `Supersede` append restates what is on screen
  (`RestatesNothing`). The folds are recursive functions on sequences: that they exist, have
  their type and split at a concatenation is proved once for each of them (`ApplyAllConcat`,
  `TakeFromConcat`, `Served`'s in `ServedOf`), by induction on the length.

**Only model-checked.** Liveness: TLAPS has no backend for fairness. In `Conflict`, what
speaks of several devices: `CaughtUpDevicesAgree` and `NewestEditSurvives` are true of the
listed `Plans` and not of all (both fail for `PendingResend`, section 5), `NeverGivesUp`
not with one attempt. `FileSync` with a device that may replace the folder. `RemoteApply`
outside `Regular` and, for the two action properties, with full-state operations. What
`RECURSIVE` operators compute for every input is out of the prover's reach; the modules
proved about declare none.

## 7. Not modelled

* Conflict resolution beyond one entity with plain fields: operations on several entities,
  archive and restore, projects and sections, orders, time deltas, follow-ups on
  relationships, entity types without patches.
* File providers: the split format and its migration, buffers trimmed by older versions,
  `REPAIR`, seeding a folder that was emptied (and two devices that do it at once), the guard
  against a switched target, a first put torn before any backup exists.
* `REPAIR` on the devices' side; payloads, encryption, compression, schema migration
  (operations are opaque).
* On the device: emergency compaction and the handling of a full disk, the migration of
  snapshots and operations, the recovery from a corrupt snapshot, lock timeouts, immediate
  upload as a path of its own (it makes the same calls as a cycle's upload).
* Paging and gap detection of the SuperSync download, server snapshots (derived from the
  log, never written to it), websocket notification, devices, accounts, mail, rate
  limits: none of them changes the operation log.
* Usage counters and their reconciliation: they only decide whether an upload fits.
* Features, plugins and platform shells (the greater part of the repository): they produce
  operations.

## 8. Plan

Done: `SyncClock`, `CausalClocks`, `SyncServer`, their proof modules, `RemoteApply`
with `Selection`, `AppState`, `DurableLog` and their proof modules (capture with its buffer,
a second tab and compaction included, which share every variable with it), `Conflict`, and `FileSync` with `SyncFile`
and `SyncFolder`.

1. `SyncLog` (abstract: one log, atomic accept) with `SyncServer` shown to implement it,
   and the server of `CausalClocks` as an instance; `SyncSystem`, cursors, paging and
   gap detection on top of it: a device that has read to the end has everything.
2. `Conflict` with operations on two entities, and with archiving.
3. `RawRebuild` - USE_REMOTE's rebuild against SuperSync and its crashes; emergency
   compaction.
4. Reference definitions for the clock algorithms over bounded inputs (sequential
   pruning, order properties of the merge).

Theorems to come: `AppliedOnce` and `NothingPassedIsLost` without `Regular`, for which
`CoveredInv` has to be stated with full-state operations; the safety properties of `FileSync` with one
overwriter, whose replacement starts a new order of files; the refinement of `SyncLog`.
