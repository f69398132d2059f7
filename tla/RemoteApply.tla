------------------------------ MODULE RemoteApply ------------------------------
(***************************************************************************)
(* One tab of a device between its user, its operation log and the server: *)
(* capture of user actions, download and staged apply of remote operations *)
(* (remote-apply.ts and its host), hydration at start, retry of archive    *)
(* work, compaction, and crashes between any two steps.  Every IndexedDB   *)
(* transaction is one step; the sp_op_log lock is held through the stages  *)
(* of a download's apply and between the two writes of a compaction.       *)
(*                                                                         *)
(* A device's causal clock is the set of operations it covers.  Remote     *)
(* operations touch other entities than pending local ones (conflict       *)
(* resolution is another path), those after a full-state operation know it,*)
(* and an import that meets unsynced local work is refused (the dialog is  *)
(* cancelled).  Left out: schema migration, corrupt snapshots, the raw     *)
(* rebuild of USE_REMOTE, file snapshots, REPAIR, emergency compaction.    *)
(* Another tab of the device only writes (startup.service.ts stops a       *)
(* second start), once this one has started.                               *)
(***************************************************************************)
EXTENDS AppState

CONSTANTS Events,       \* what an instance admits: a subset of AllEvents
          Anchored,     \* a snapshot exists at sequence number Anchored (0: fresh)
          MaxFaults     \* bound: crashes and failures

\* A crash; an IndexedDB transaction or the dispatch throws; archive work fails; the
\* write of a local operation fails; another tab writes; no sync completes for longer
\* than compaction retains rows; the user acts in the moment before a full-state operation
\* replaces the state he acts on (README, section 5).
AllEvents == {"crash", "throw", "archive", "write", "tab", "stall", "act"}

ASSUME BoundAssumption ==
  Events \subseteq AllEvents /\ Anchored \in Nat /\ MaxFaults \in Nat

Statuses == {"local", "pending", "archive_pending", "failed", "applied"}
Row == [op : Op, status : Statuses, synced : BOOLEAN, rejected : BOOLEAN]
Snapshot == [state : [Op -> Nat], anchor : Nat, clock : SUBSET Op]

BootStages == {"off", "loaded", "replayed", "settled"}
ApplyStages == {"stored", "informed", "reduced", "effects", "mark", "clear", "quarantine", "drain"}
Stages == BootStages \cup ApplyStages
          \cup {"idle", "flush", "fetched", "paging", "flushed", "advance", "upload"}

\* On disk.
VARIABLES rows,      \* the log: a finite partial function from sequence numbers to rows
          nextSeq,   \* the store's key generator; it survives deletions
          cache,     \* the state cache (snapshot)
          clock,     \* the durable vector clock
          archived,  \* operations whose archive side effects have run
          cursor     \* lastServerSeq

\* In memory.
VARIABLES live,      \* the NgRx state
          captured,  \* actions dispatched and waiting for their write, in order
          deferred,  \* actions buffered while remote operations are applied
          frontier,  \* TabSeqFrontierService: 0 is unestablished
          foreign,   \* it has seen a gap
          lost,      \* hasUnrecoveredPersistFailure
          stage,     \* how far the tab is
          mode,      \* what the apply belongs to: start, retry at the gate, download
          first,     \* where in Feed the download starts
          target,    \* the server sequence number the download reached
          work,      \* the sequence numbers being applied
          done,      \* how many of them have their archive effects
          failed,    \* this apply has failed
          compacting \* a compaction has saved its snapshot and not deleted yet

\* The world.
VARIABLES served,    \* how much of Feed the server has
          nextOwn,   \* how many actions the user has dispatched
          faults,    \* crashes and failures so far
          logged     \* history: logged[o] is where o was last written

disk == <<rows, nextSeq, cache, clock, archived, cursor>>
ui == <<live, captured, deferred, lost>>
tab == <<frontier, foreign>>
apply == <<mode, first, target, work, done, failed>>
world == <<served, nextOwn, faults>>
vars == <<disk, ui, tab, stage, apply, compacting, world, logged>>

----------------------------------------------------------------------------
(* The log *)

InOrder(S) == Kept([i \in 1..nextSeq |-> i], S)
OpsAt(s) == [i \in DOMAIN s |-> rows[s[i]].op]
Ids == {rows[s].op : s \in DOMAIN rows}

\* getLastSeq: the greatest key in the store.
LastSeq == IF DOMAIN rows = {} THEN 0
           ELSE CHOOSE s \in DOMAIN rows : \A t \in DOMAIN rows : t <= s

\* Faulty variant: only the row whose archive effect failed is retried, not those after it.
UnfinishedFailedOnly == {s \in DOMAIN rows : rows[s].status = "failed" /\ ~rows[s].rejected}

\* getPendingRemoteOps, getFailedRemoteOps, getUnsynced.
Pending == {s \in DOMAIN rows : rows[s].status = "pending" /\ ~rows[s].rejected}
Unfinished == {s \in DOMAIN rows :
                 rows[s].status \in {"archive_pending", "failed"} /\ ~rows[s].rejected}
Unsynced == {s \in DOMAIN rows : ~rows[s].synced}

\* getOpsAfterSeq, without the rows no reducer may see again.
Replayable == InOrder({s \in DOMAIN rows : s > cache.anchor /\ ~rows[s].rejected})

\* The state that a start would rebuild from the disk.
Rebuilt == Reduce(cache.state, OpsAt(Replayable))

\* Faulty variant: the last operation of a batch is taken to know the others.
MergeLast(c, s) == IF s = <<>> THEN c ELSE c \cup {s[Len(s)]}

\* calculateRemoteClockMerge: a full-state operation keeps only its author's counter
\* and the device's own.
Merge(c, s) == LET kept == IF LastImport(s) = 0 THEN c
                           ELSE (c \cup {s[i] : i \in 1..LastImport(s)}) \cap Local
               IN kept \cup {FromImport(s)[i] : i \in DOMAIN FromImport(s)}

Marked(S, st) == [s \in DOMAIN rows |->
                    IF s \in S THEN [rows[s] EXCEPT !.status = st] ELSE rows[s]]

\* appendBatchSkipDuplicates, appendWithVectorClockOverwrite: new rows for s.
Stored(s, st, synced) ==
  LET new == nextSeq..(nextSeq + Len(s) - 1)
      at(n) == s[n - nextSeq + 1]
  IN /\ rows' = [n \in DOMAIN rows \cup new |->
                   IF n \in DOMAIN rows THEN rows[n]
                   ELSE [op |-> at(n), status |-> st, synced |-> synced, rejected |-> FALSE]]
     /\ nextSeq' = nextSeq + Len(s)
     /\ logged' = [o \in DOMAIN logged \cup {at(n) : n \in new} |->
                     IF \E n \in new : at(n) = o THEN CHOOSE n \in new : at(n) = o
                     ELSE logged[o]]

\* Faulty variants: the frontier is the next sequence number; without the sticky flag.
ObserveOneAhead(seq, n) ==
  /\ frontier' = IF frontier = 0 THEN 0 ELSE seq + n
  /\ foreign' = (foreign \/ (frontier # 0 /\ seq > frontier + 1))
SaveSafeScalar(seq) == frontier = 0 \/ frontier = seq

\* observeOwnWrite for n rows from seq on, establishFrontier, isSaveSafeAt.
Observe(seq, n) ==
  /\ frontier' = IF frontier = 0 THEN 0 ELSE seq + n - 1
  /\ foreign' = (foreign \/ (frontier # 0 /\ seq > frontier + 1))
Establish(seq) == frontier' = seq /\ foreign' = FALSE
SaveSafe(seq) == frontier = 0 \/ (~foreign /\ frontier = seq)

\* getPhantomChangeRisk
PhantomRisk == lost \/ captured # <<>> \/ deferred # <<>>

----------------------------------------------------------------------------
(* The user, the other tab and the writes of local operations *)

LockFree == ~compacting /\ ~(mode = "download" /\ stage \in ApplyStages)
Running == stage \notin BootStages /\ mode # "start"

\* A full-state operation among those being applied.
FullState == \E i \in DOMAIN work : rows[work[i]].op \in Imports

\* isApplyingRemoteOps: from the dispatch of the reducers to the last archive effect;
\* for a full-state operation, from the lock to the drain of the buffer.
Window == \/ stage \in {"reduced", "effects"}
          \/ mode = "download" /\ stage \in ApplyStages \ {"drain"} /\ FullState

\* An action reaches the reducers; operationCaptureMetaReducer buffers or counts it.
Dispatch ==
  /\ Running /\ nextOwn + 1 \in OwnOps
  /\ stage \in {"stored", "informed"} /\ mode = "download" /\ FullState => "act" \in Events
  /\ LET o == nextOwn + 1
     IN /\ live' = Reduce(live, <<o>>)
        /\ nextOwn' = o
        /\ IF Window THEN deferred' = Append(deferred, o) /\ UNCHANGED captured
                     ELSE captured' = Append(captured, o) /\ UNCHANGED deferred
  /\ UNCHANGED <<disk, lost, tab, stage, apply, compacting, served, faults, logged>>

\* Faulty variant: the clock is built from this tab's cache (#8939).
WriteLocalCached(o) ==
  /\ Stored(<<o>>, "local", FALSE)
  /\ clock' = (clock \ TabOps) \cup {o}
  /\ UNCHANGED <<cache, archived, cursor>>

\* appendWithVectorClockOverwrite of an operation whose clock extends the durable one.
WriteLocal(o) ==
  /\ Stored(<<o>>, "local", FALSE)
  /\ clock' = clock \cup {o}
  /\ UNCHANGED <<cache, archived, cursor>>

\* persistOperation$ writes the oldest captured action under the lock.
WriteCaptured ==
  /\ Running /\ LockFree /\ captured # <<>>
  /\ WriteLocal(Head(captured))
  /\ Observe(nextSeq, 1)
  /\ captured' = Tail(captured)
  /\ UNCHANGED <<live, deferred, lost, stage, apply, compacting, world>>

\* The write throws: the action stays in the state and gets no operation.
LoseCaptured ==
  /\ "write" \in Events /\ faults < MaxFaults
  /\ Running /\ captured # <<>>
  /\ captured' = Tail(captured)
  /\ lost' = TRUE
  /\ faults' = faults + 1
  /\ UNCHANGED <<disk, live, deferred, tab, stage, apply, compacting, served, nextOwn, logged>>

\* The other tab writes an operation that is not in this tab's state.
WriteElsewhere(o) ==
  /\ "tab" \in Events /\ Running /\ LockFree
  /\ o \notin DOMAIN logged
  /\ WriteLocal(o)
  /\ UNCHANGED <<ui, tab, stage, apply, compacting, world>>

\* processDeferredActions, one action: at the end of an apply, which may hold the
\* lock, or before a download.
WriteDeferred ==
  /\ stage \in {"drain", "flush"} /\ deferred # <<>>
  /\ (stage = "drain" /\ mode = "download") \/ LockFree
  /\ WriteLocal(Head(deferred))
  /\ Observe(nextSeq, 1)
  /\ deferred' = Tail(deferred)
  /\ UNCHANGED <<live, captured, lost, stage, apply, compacting, world>>

\* Its write throws: it and its successors stay buffered.  That ends a sync, except after
\* a retry at the gate, which goes on if nothing is unfinished.
FailDeferred ==
  /\ "write" \in Events /\ faults < MaxFaults
  /\ stage \in {"drain", "flush"} /\ deferred # <<>>
  /\ stage' = IF mode = "gate" /\ Unfinished = {} THEN "fetched" ELSE "idle"
  /\ mode' = "download"
  /\ faults' = faults + 1
  /\ UNCHANGED <<disk, ui, tab, first, target, work, done, failed, compacting, served, nextOwn, logged>>

----------------------------------------------------------------------------
(* Download and apply *)

Go(from, to) == stage = from /\ stage' = to

Publish ==
  /\ served < Len(Feed)
  /\ served' = served + 1
  /\ UNCHANGED <<disk, ui, tab, stage, apply, compacting, nextOwn, faults, logged>>

\* A sync begins: it first has the local writes flushed (WriteCaptured, WriteDeferred).
Sync == Go("idle", "flush")
        /\ UNCHANGED <<disk, ui, tab, apply, compacting, world, logged>>

\* The archive work of the rows in S begins, in the order of the log.
Begin(m, S) ==
  /\ stage' = "effects" /\ mode' = m
  /\ work' = InOrder(S) /\ done' = 0 /\ failed' = FALSE
  /\ UNCHANGED <<first, target>>

\* Faulty variant: unfinished archive work holds the sync without being retried.
GateWithoutRetry ==
  /\ stage = "flush" /\ captured = <<>> /\ deferred = <<>>
  /\ stage' = IF Pending \cup Unfinished # {} THEN "idle" ELSE "fetched"
  /\ UNCHANGED <<disk, ui, tab, apply, compacting, world, logged>>

\* _assertNoIncompleteRemoteOperations: no sync over rows whose reducers have not
\* committed; one retry of unfinished archive work.
Gate ==
  /\ stage = "flush" /\ captured = <<>> /\ deferred = <<>>
  /\ IF Pending # {} THEN stage' = "idle" /\ UNCHANGED apply
     ELSE IF Unfinished # {} THEN Begin("gate", Unfinished)
     ELSE stage' = "fetched" /\ UNCHANGED apply
  /\ UNCHANGED <<disk, ui, tab, compacting, world, logged>>

\* The server answers the first page: it skips what the last full-state operation replaced.
FirstPage ==
  /\ Go("fetched", "paging")
  /\ first' = IF LastImport(SubSeq(Feed, 1, served)) > cursor
               THEN LastImport(SubSeq(Feed, 1, served)) ELSE cursor + 1
  /\ UNCHANGED <<disk, ui, tab, mode, target, work, done, failed, compacting, world, logged>>

\* Faulty variant: what the log has already is not dropped.
NewsAgain(n) == Admitted(SubSeq(Feed, first, n))

\* What a download up to n brings: operations that the log does not have.
News(n) == Kept(Admitted(SubSeq(Feed, first, n)), Op \ Ids)

\* The last page; the writes are flushed once more before the lock is taken.
LastPage ==
  /\ stage = "paging" /\ captured = <<>>
  /\ target' = served
  /\ stage' = IF News(served) = <<>> THEN "advance" ELSE "flushed"
  /\ UNCHANGED <<disk, ui, tab, mode, first, work, done, failed, compacting, world, logged>>

\* Conflict detection drops what the snapshot covers already.
Applicable == IF LastImport(News(target)) # 0 THEN News(target)
              ELSE Kept(News(target), Op \ cache.clock)

\* flushThenRunExclusive and beforeFullStateApply: a full-state operation is applied
\* only if nothing waits for its write, and refused over unsynced local work.
Quiet == LastImport(News(target)) # 0 => captured = <<>>
Refused == LastImport(News(target)) # 0 /\ Unsynced # {}

Refuse ==
  /\ Go("flushed", "idle") /\ LockFree /\ Quiet /\ Refused
  /\ UNCHANGED <<disk, ui, tab, apply, compacting, world, logged>>

\* Under the lock: the batch becomes durable as pending.
StoreBatch ==
  /\ stage = "flushed" /\ LockFree /\ Quiet /\ ~Refused
  /\ IF Applicable = <<>>
     THEN stage' = "advance" /\ UNCHANGED <<rows, nextSeq, logged, tab, work>>
     ELSE /\ stage' = "stored"
          /\ Stored(Applicable, "pending", TRUE)
          /\ Observe(nextSeq, Len(Applicable))
          /\ work' = [i \in DOMAIN Applicable |-> nextSeq + i - 1]
  /\ done' = 0 /\ failed' = FALSE
  /\ UNCHANGED <<cache, clock, archived, cursor, ui, mode, first, target, compacting, world>>

\* mergeRemoteOpClocks, before the reducers.
MergeClocks ==
  /\ Go("stored", "informed")
  /\ clock' = Merge(clock, OpsAt(work))
  /\ UNCHANGED <<rows, nextSeq, cache, archived, cursor, ui, tab, apply, compacting, world, logged>>

\* Faulty variant: the archive effects start before the reducers' outcome is durable.
RunReducersUncommitted ==
  /\ Go("informed", "effects")
  /\ live' = Reduce(live, OpsAt(work))
  /\ UNCHANGED <<disk, captured, deferred, lost, tab, apply, compacting, world, logged>>

\* bulkApplyOperations: all reducers run in one dispatch.
RunReducers ==
  /\ Go("informed", "reduced")
  /\ live' = Reduce(live, OpsAt(work))
  /\ UNCHANGED <<disk, captured, deferred, lost, tab, apply, compacting, world, logged>>

\* markReducersCommittedAndMergeClocks for the rows of S, in one transaction.
Checkpoint(S) ==
  LET bad(s) == rows[s].op \in Broken
      good == InOrder({s \in S : ~bad(s)})
  IN /\ rows' = [s \in DOMAIN rows |->
                   IF s \notin S THEN rows[s]
                   ELSE IF bad(s) THEN [rows[s] EXCEPT !.rejected = TRUE]
                   ELSE [rows[s] EXCEPT !.status = "archive_pending"]]
     /\ clock' = Merge(clock, OpsAt(good))

CommitReducers ==
  /\ Go("reduced", "effects")
  /\ Checkpoint({work[i] : i \in DOMAIN work})
  /\ work' = Kept(work, {s \in DOMAIN rows : rows[s].op \notin Broken})
  /\ UNCHANGED <<nextSeq, cache, archived, cursor, ui, tab, mode, first, target, done, failed,
                 compacting, world, logged>>

\* processArchiveSideEffects, one operation.
RunEffect ==
  /\ stage = "effects" /\ ~failed /\ done < Len(work)
  /\ archived' = archived \cup {rows[work[done + 1]].op}
  /\ done' = done + 1
  /\ UNCHANGED <<rows, nextSeq, cache, clock, cursor, ui, tab, stage, mode, first, target, work,
                 failed, compacting, world, logged>>

FailEffect ==
  /\ "archive" \in Events /\ faults < MaxFaults
  /\ stage = "effects" /\ ~failed /\ done < Len(work)
  /\ failed' = TRUE
  /\ faults' = faults + 1
  /\ UNCHANGED <<disk, ui, tab, stage, mode, first, target, work, done, compacting, served, nextOwn, logged>>

Finished == {work[i] : i \in 1..done}

\* A retry merges the clocks of what it finished, in a transaction of its own.
EndEffects ==
  /\ Go("effects", "mark") /\ (failed \/ done = Len(work))
  /\ clock' = IF mode = "download" THEN clock ELSE Merge(clock, OpsAt(SubSeq(work, 1, done)))
  /\ UNCHANGED <<rows, nextSeq, cache, archived, cursor, ui, tab, apply, compacting, world, logged>>

MarkApplied ==
  /\ Go("mark", "clear")
  /\ rows' = Marked(Finished, "applied")
  /\ UNCHANGED <<nextSeq, cache, clock, archived, cursor, ui, tab, apply, compacting, world, logged>>

\* clearFullStateOpsExcept: an applied full-state operation supersedes the earlier ones,
\* but none of its own batch.
ClearOlder ==
  /\ Go("clear", "quarantine")
  /\ LET mine == {work[i] : i \in DOMAIN work}
         older == {s \in DOMAIN rows \ mine : rows[s].op \in Imports}
     IN rows' = IF mode = "download" /\ \E s \in Finished : rows[s].op \in Imports
                THEN [s \in DOMAIN rows \ older |-> rows[s]] ELSE rows
  /\ UNCHANGED <<nextSeq, cache, clock, archived, cursor, ui, tab, apply, compacting, world, logged>>

\* markFailed: only the operation whose archive effect failed.
MarkFailed ==
  /\ Go("quarantine", "drain")
  /\ rows' = IF failed THEN Marked({work[done + 1]}, "failed") ELSE rows
  /\ UNCHANGED <<nextSeq, cache, clock, archived, cursor, ui, tab, apply, compacting, world, logged>>

\* A transaction or the dispatch throws; what was buffered is still written.
Throw ==
  /\ "throw" \in Events /\ faults < MaxFaults
  /\ mode = "download" /\ stage \in ApplyStages \ {"effects", "drain"}
  /\ stage' = "drain" /\ failed' = TRUE
  /\ faults' = faults + 1
  /\ UNCHANGED <<disk, ui, tab, mode, first, target, work, done, compacting, served, nextOwn, logged>>

\* Faulty variant: a failure does not end the sync.
EndDrainRegardless ==
  /\ stage = "drain" /\ deferred = <<>>
  /\ stage' = CASE mode = "start" -> "idle"
                [] mode = "gate" -> IF Unfinished = {} THEN "fetched" ELSE "idle"
                [] OTHER -> "advance"
  /\ mode' = "download" /\ work' = <<>> /\ done' = 0 /\ failed' = FALSE
  /\ UNCHANGED <<disk, ui, tab, first, target, compacting, world, logged>>

\* The buffer is empty and the lock is released; a failure ends the sync.  After a retry
\* the gate looks again.
EndDrain ==
  /\ stage = "drain" /\ deferred = <<>>
  /\ stage' = CASE mode = "start" -> "idle"
                [] mode = "gate" -> IF Unfinished = {} THEN "fetched" ELSE "idle"
                [] OTHER -> IF failed THEN "idle" ELSE "advance"
  /\ mode' = "download" /\ work' = <<>> /\ done' = 0 /\ failed' = FALSE
  /\ UNCHANGED <<disk, ui, tab, first, target, compacting, world, logged>>

\* setLastServerSeq, in another store than the log.
Advance ==
  /\ Go("advance", "upload")
  /\ cursor' = target
  /\ UNCHANGED <<rows, nextSeq, cache, clock, archived, ui, tab, apply, compacting, world, logged>>

\* The server acknowledges the unsynced operations, unless it has a full-state operation
\* behind which the cursor is (BehindReplacement of SyncServer), or the upload fails.
Upload ==
  /\ Go("upload", "idle")
  /\ \/ /\ LastImport(SubSeq(Feed, 1, served)) <= cursor
        /\ rows' = [s \in DOMAIN rows |-> [rows[s] EXCEPT !.synced = TRUE]]
     \/ rows' = rows
  /\ UNCHANGED <<nextSeq, cache, clock, archived, cursor, ui, tab, apply, compacting, world, logged>>

----------------------------------------------------------------------------
(* Start *)

\* hydrateStore: the snapshot becomes the state, and its clock the durable clock.
Load ==
  /\ Go("off", "loaded")
  /\ live' = cache.state
  /\ clock' = IF cache.clock = {} THEN clock ELSE cache.clock
  /\ UNCHANGED <<rows, nextSeq, cache, archived, cursor, captured, deferred, lost, tab, apply,
                 compacting, world, logged>>

\* _replayTailOps: the rest of the log on top.  A full-state operation at its end is
\* loaded alone, unless reducers are outstanding.
Replay ==
  LET tail == OpsAt(Replayable)
      last == SubSeq(tail, Len(tail), Len(tail))
      shortcut == tail # <<>> /\ last[1] \in Imports /\ Pending = {}
  IN /\ Go("loaded", "replayed")
     /\ live' = Reduce(live, IF shortcut THEN last ELSE tail)
     /\ clock' = Merge(clock, IF shortcut THEN last ELSE tail)
     /\ work' = IF shortcut THEN <<>> ELSE Replayable
     /\ UNCHANGED <<rows, nextSeq, cache, archived, cursor, captured, deferred, lost, tab, mode, first,
                    target, done, failed, compacting, world, logged>>

\* The reducers' outcome becomes durable, and the tab knows up to where its state goes:
\* to the last row behind the snapshot (rejected rows count), or to the snapshot.
Settle ==
  LET covered == {s \in DOMAIN rows : s > cache.anchor}
  IN /\ Go("replayed", "settled")
     /\ Checkpoint(Pending)
     /\ Establish(IF covered = {} THEN cache.anchor ELSE LastSeq)
     /\ UNCHANGED <<nextSeq, cache, archived, cursor, ui, apply, compacting, world, logged>>

\* Faulty variant: the next sequence number is anchored.
SnapOneAhead == cache' = [state |-> live, anchor |-> LastSeq + 1, clock |-> clock]

\* saveStateCache of the live state, as of the last sequence number.
Snap == cache' = [state |-> live, anchor |-> LastSeq, clock |-> clock]

\* saveCurrentStateAsSnapshot if much was replayed, then retryFailedRemoteOps.
EndStart ==
  /\ stage = "settled"
  /\ \/ work # <<>> /\ Snap /\ SaveSafe(LastSeq) /\ ~PhantomRisk
     \/ UNCHANGED cache
  /\ Begin("start", Unfinished)
  /\ UNCHANGED <<rows, nextSeq, clock, archived, cursor, ui, tab, compacting, world, logged>>

\* The tab is closed or dies.
Crash ==
  /\ "crash" \in Events /\ faults < MaxFaults
  /\ stage # "off"
  /\ stage' = "off" /\ mode' = "start"
  /\ live' = Empty /\ captured' = <<>> /\ deferred' = <<>> /\ lost' = FALSE
  /\ frontier' = 0 /\ foreign' = FALSE
  /\ work' = <<>> /\ done' = 0 /\ failed' = FALSE /\ compacting' = FALSE
  /\ faults' = faults + 1
  /\ UNCHANGED <<disk, first, target, served, nextOwn, logged>>

----------------------------------------------------------------------------
(* Compaction *)

\* Faulty variants: rows whose reducers have not run, or actions that are not written,
\* do not hold a compaction.
CompactableWithPending == ~PhantomRisk /\ SaveSafe(LastSeq)
CompactableWithCaptured == Pending = {} /\ SaveSafe(LastSeq)

\* The live state is exactly the log up to its last row.
Compactable == Pending = {} /\ ~PhantomRisk /\ SaveSafe(LastSeq)

\* _doCompact, after flushing, under the lock.
SaveSnapshot ==
  /\ Running /\ LockFree /\ Compactable
  /\ Snap /\ compacting' = TRUE
  /\ UNCHANGED <<rows, nextSeq, clock, archived, cursor, ui, tab, stage, apply, world, logged>>

\* Rows older than the retention time: unless no sync completed since, the cursor has
\* passed the remote ones.
Old(age) == {s \in DOMAIN rows :
               /\ s <= age
               /\ "stall" \in Events \/ \A i \in (cursor + 1)..Len(Feed) : Feed[i] # rows[s].op}

\* Rejected, or known to the server and complete.
Deletable(s) == \/ rows[s].rejected
                \/ rows[s].synced /\ rows[s].status \in {"local", "applied"}

\* deleteOpsWhere: old rows that the snapshot holds.
DeleteOld ==
  /\ compacting /\ compacting' = FALSE
  /\ \E age \in 0..cache.anchor :
       rows' = [s \in {t \in DOMAIN rows : ~(t \in Old(age) /\ Deletable(t))} |-> rows[s]]
  /\ UNCHANGED <<nextSeq, cache, clock, archived, cursor, ui, tab, stage, apply, world, logged>>

----------------------------------------------------------------------------
(* Specification *)

Init ==
  /\ rows = [s \in {} |-> {}] /\ nextSeq = Anchored + 1
  /\ cache = [state |-> Empty, anchor |-> Anchored, clock |-> {}]
  /\ clock = {} /\ archived = {} /\ cursor = 0
  /\ live = Empty /\ captured = <<>> /\ deferred = <<>> /\ lost = FALSE
  /\ frontier = 0 /\ foreign = FALSE
  /\ stage = "off" /\ mode = "start" /\ first = 1 /\ target = 0
  /\ work = <<>> /\ done = 0 /\ failed = FALSE /\ compacting = FALSE
  /\ served = 0 /\ nextOwn = 0 /\ faults = 0
  /\ logged = [o \in {} |-> 0]

Start == Load \/ Replay \/ Settle \/ EndStart
User == Dispatch \/ WriteCaptured \/ LoseCaptured \/ \E o \in TabOps : WriteElsewhere(o)
Buffer == WriteDeferred \/ FailDeferred
Fetch == Sync \/ Gate \/ FirstPage \/ LastPage \/ Refuse \/ StoreBatch
Stage == MergeClocks \/ RunReducers \/ CommitReducers \/ Throw
Effects == RunEffect \/ FailEffect \/ EndEffects
Finish == MarkApplied \/ ClearOlder \/ MarkFailed \/ EndDrain \/ Advance \/ Upload
Compact == SaveSnapshot \/ DeleteOld

Next == Start \/ User \/ Buffer \/ Publish \/ Fetch \/ Stage \/ Effects \/ Finish \/ Compact \/ Crash

Spec == Init /\ [][Next]_vars

----------------------------------------------------------------------------
(* Properties *)

\* Every variable has its type; nothing points past the last sequence number.
TypeOK ==
  /\ DOMAIN rows \subseteq 1..(nextSeq - 1) /\ nextSeq \in Nat \ {0}
  /\ rows \in [DOMAIN rows -> Row]
  /\ cache \in Snapshot /\ cache.anchor < nextSeq
  /\ clock \subseteq Op /\ archived \subseteq Remote
  /\ served \in 0..Len(Feed) /\ cursor \in 0..served
  /\ first \in 1..(Len(Feed) + 1) /\ target \in 0..served
  /\ live \in [Op -> Nat]
  /\ captured \in Seq(OwnOps) /\ deferred \in Seq(OwnOps) /\ lost \in BOOLEAN
  /\ frontier \in 0..(nextSeq - 1) /\ foreign \in BOOLEAN
  /\ stage \in Stages /\ mode \in {"start", "gate", "download"}
  /\ work \in Seq(1..(nextSeq - 1)) /\ done \in 0..Len(work) /\ failed \in BOOLEAN
  /\ compacting \in BOOLEAN
  /\ nextOwn \in Nat /\ faults \in 0..MaxFaults
  /\ DOMAIN logged \subseteq Op /\ logged \in [DOMAIN logged -> 1..(nextSeq - 1)]

\* A later full-state operation, once written, replaces what came before it.
Buried(i) == \E j \in (i + 1)..Len(Feed) : Feed[j] \in Imports \cap DOMAIN logged

\* Whatever the cursor has passed is in the state the next start rebuilds, unless its
\* reducer refuses it or a later full-state operation replaced it: no crash between the
\* log, the reducers and the cursor's store loses a remote operation.
NothingPassedIsLost ==
  LET r == Rebuilt
  IN \A i \in 1..cursor : Feed[i] \in Broken \/ r[Feed[i]] > 0 \/ Buried(i)

\* Whatever the cursor has passed has its archive side effects too: a failure in the
\* middle of a batch holds the cursor until the retries have finished all of it.
NothingPassedIsUnfinished ==
  \A i \in 1..cursor : Feed[i] \in Broken \/ Feed[i] \in archived \/ Buried(i)

\* No operation takes effect twice, on screen or after a start, however often it is
\* downloaded, replayed or retried.
AppliedOnce == LET r == Rebuilt IN \A o \in Op : r[o] <= 1 /\ live[o] <= 1

\* Archive side effects never run ahead of the reducers' durable outcome (the order that
\* remote-apply.ts documents): a crash between them leaves no effect without its state.
EffectsFollowReducers ==
  [][\A s \in Pending : rows[s].op \notin archived' \ archived]_vars

\* Every operation up to the snapshot's sequence number is in the snapshot, or was
\* replaced there (saveCurrentStateAsSnapshot): the next start does not replay it.
SnapshotCoversLog ==
  \A o \in DOMAIN logged \ Broken :
    logged[o] <= cache.anchor =>
      \/ cache.state[o] > 0
      \/ \E i \in Imports \cap DOMAIN logged : logged[i] \in (logged[o] + 1)..cache.anchor

\* When nothing waits to be written or applied, the screen shows what the next start
\* would rebuild, but for the other tab's operations.
LiveMatchesLog ==
  stage = "idle" /\ ~PhantomRisk /\ Pending = {} =>
    LET r == Rebuilt IN \A o \in OwnOps \cup Remote : live[o] = r[o]

\* A new operation of the user knows every remote operation he could see
\* (mergeRemoteOpClocks): no device will take it for a concurrent edit.
WritesKnowRemote ==
  [][\A o \in (DOMAIN logged' \ DOMAIN logged) \cap OwnOps :
       {r \in Remote : live[r] > 0} \subseteq clock']_vars

\* A new operation's counter is above every counter this device has used, in either tab
\* and before any crash (#8939).
CountersAreFresh ==
  [][\A o \in (DOMAIN logged' \ DOMAIN logged) \cap Local :
       DOMAIN logged \cap Local \subseteq clock']_vars

\* A row whose reducer failed stays known to the device's clock (_dispatchHydrationReplay
\* makes the clock durable before it rejects the row).  It does not hold: README, section 5.
RejectedStaysKnown ==
  stage = "idle" => \A s \in DOMAIN rows : rows[s].rejected => rows[s].op \in clock

\* The log has the user's actions in the order he did them: of two edits of one field
\* the newer one wins everywhere (operation-log.effects.ts).
LoggedInDispatchOrder ==
  \A o, p \in OwnOps \cap DOMAIN logged : o < p => logged[o] < logged[p]

\* The staged apply, seen from the next start, is an atomic one: the state it rebuilds
\* changes only by the operation that is written.
Durable == INSTANCE DurableLog WITH state <- Rebuilt, received <- DOMAIN logged
ImplementsDurableLog == Durable!Spec

\* The tab's own steps go on; it starts again after a crash and syncs from time to time.
\* Whoever waits for the lock gets it: Web Locks are granted in the order of the requests.
\* Archive work that is tried again succeeds in the end, for failures are bounded.
FairSpec ==
  /\ Spec
  /\ WF_vars(Start) /\ SF_vars(WriteCaptured) /\ SF_vars(WriteDeferred)
  /\ WF_vars(Sync \/ Gate \/ FirstPage \/ LastPage) /\ SF_vars(Refuse \/ StoreBatch)
  /\ WF_vars(MergeClocks \/ RunReducers \/ CommitReducers)
  /\ WF_vars(RunEffect) /\ WF_vars(EndEffects) /\ WF_vars(Finish) /\ WF_vars(DeleteOld)

\* A device that syncs no further: reducers of a stored batch threw, and only the
\* next start settles its rows; or a full-state operation meets unsynced work, and
\* the user is asked.
Held == \/ stage = "idle" /\ Pending # {}
        \/ stage = "flushed" /\ Refused

\* Every operation the server has is passed in the end, or the device is held.
EverythingArrives == \A n \in 1..Len(Feed) : served >= n ~> cursor >= n \/ Held
=============================================================================
