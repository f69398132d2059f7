------------------------------ MODULE FileSync ------------------------------
(***************************************************************************)
(* File-based sync (Dropbox, WebDAV, OneDrive, a local folder): devices    *)
(* that share one file and its backup, sync-data.json and .bak, through    *)
(* plain storage whose only guard is a write conditional on a revision.    *)
(* A cycle downloads the file, applies its operations or its snapshot,     *)
(* commits the baseline the adapter remembers, and uploads the pending     *)
(* edits with a snapshot of the whole state.                               *)
(*                                                                         *)
(* One action per step between two awaits that another device, an edit or  *)
(* a crash can separate.  Durable per device: the operation log and what   *)
(* the adapter keeps in localStorage (mem).  Lost in a crash: the baseline *)
(* staged by a download, the cached file, the running cycle.  A user's     *)
(* answer and the step it leads to are one action: pending work is read    *)
(* again under the lock before anything is replaced.                       *)
(***************************************************************************)
EXTENDS SyncFile

CONSTANTS Events,      \* what may go wrong or happen besides the cycles
          Overwriters, \* devices whose user may choose to overwrite the folder
          MaxFaults    \* how often

ASSUME FileSyncAssumption == 0 \notin Client /\ MaxFaults \in Nat

VARIABLES
  primary, bak,        \* the two files
  stamp,               \* the clock each edit was written with
  log,                 \* ids of synced operations in the device's log
  pending,             \* its unsynced edits
  known,               \* the edits its state reflects
  clock,               \* its vector clock
  import,              \* its latest full-state operation; in the tail that a restart
                       \* replays or not, and the edits logged behind it there
  rebuild,             \* a USE_REMOTE rebuild has begun and not finished
  mem,                 \* persisted adapter state: cursor, expected version, rev, file clock
  staged,              \* the same, staged by a download until its commit
  cache,               \* the file kept between a download and the upload
  stage, hand,         \* where the device's cycle stands, and what it carries
  waived,              \* edits a user's decision gave up
  faults

remote  == <<primary, bak>>
oplog   == <<log, pending, known, clock, import, rebuild>>
adapter == <<mem, staged, cache>>
flow    == <<stage, hand>>
history == <<stamp, waived, faults>>
vars    == <<remote, oplog, adapter, flow, history>>

NoHand   == [file |-> Blank, back |-> Blank, rev |-> 0, ops |-> {}, latest |-> 0,
             fresh |-> FALSE, force |-> FALSE]
NoImport == [clock |-> EmptyClock, state |-> {}, pending |-> FALSE, barred |-> FALSE,
             sent |-> FALSE, tail |-> FALSE, later |-> {}]
NoStage  == [held |-> FALSE, expected |-> 0, rev |-> 0, clock |-> EmptyClock]
NoCache  == [rev |-> 0, file |-> Blank]
NoMemory == [cursor |-> 0, expected |-> 0, rev |-> 0, clock |-> EmptyClock]

Init ==
  /\ primary = [rev |-> 0, kind |-> "none", file |-> Blank] /\ bak = Blank
  /\ stamp = [e \in Edit |-> EmptyClock]
  /\ log = [d \in Client |-> {}] /\ pending = [d \in Client |-> {}]
  /\ known = [d \in Client |-> {}] /\ clock = [d \in Client |-> EmptyClock]
  /\ import = [d \in Client |-> NoImport] /\ rebuild = [d \in Client |-> FALSE]
  /\ mem = [d \in Client |-> NoMemory] /\ staged = [d \in Client |-> NoStage]
  /\ cache = [d \in Client |-> NoCache]
  /\ stage = [d \in Client |-> "idle"] /\ hand = [d \in Client |-> NoHand]
  /\ waived = {} /\ faults = 0

At(d, s) == stage[d] = s
Goto(d, s, h) == stage' = [stage EXCEPT ![d] = s] /\ hand' = [hand EXCEPT ![d] = h]
Quit(d) == Goto(d, "idle", NoHand)
Fault(event) == event \in Events /\ faults < MaxFaults /\ faults' = faults + 1

Unsynced(d) == pending[d] # {} \/ import[d].pending

\* What a download can read: the file, or its backup when the file is torn.
Readable == primary.kind = "good" \/ (primary.kind = "torn" /\ bak # Blank)
Contents == IF primary.kind = "good" THEN primary.file ELSE bak

\* The edits of the last complete write.
Stored == primary.file.state

-----------------------------------------------------------------------------
(* The user, and the device's own log *)

\* Rows appended to the log: those behind a replayed import are replayed too.
Logged(d, es) ==
  [import EXCEPT ![d].later = IF import[d].tail THEN @ \cup es ELSE @]

\* A saved state covers the log: nothing before it is replayed.
Snapshotted(i) == [i EXCEPT !.tail = FALSE, !.later = {}]

Written(d) == {e \in Edit : e[1] = d /\ stamp[e] # EmptyClock}

Write(d) ==
  LET e == <<d, Cardinality(Written(d)) + 1>> IN
  /\ e \in Edit /\ ~At(d, "rebuilt")
  /\ clock' = [clock EXCEPT ![d] = Increment(@, d)]
  /\ stamp' = [stamp EXCEPT ![e] = clock'[d]]
  /\ pending' = [pending EXCEPT ![d] = @ \cup {e}]
  /\ known' = [known EXCEPT ![d] = @ \cup {e}]
  /\ import' = Logged(d, {e})
  /\ UNCHANGED <<remote, log, rebuild, adapter, flow, waived, faults>>

\* Compaction saves the state and deletes synced rows past their retention.
Prune(d) ==
  /\ Fault("prune") /\ log[d] # {}
  /\ log' = [log EXCEPT ![d] = {}]
  /\ import' = [import EXCEPT ![d] = Snapshotted(@)]
  /\ UNCHANGED <<remote, pending, known, clock, rebuild, adapter, flow, stamp, waived>>

MergedStamps(v, es) ==
  [c \in Client |-> LET counts == {v[c]} \cup {stamp[e][c] : e \in es}
                   IN  CHOOSE n \in counts : \A m \in counts : m <= n]

\* Hydration merges the clocks of the rows it replays; a full-state operation
\* resets the clock to its author's entry and the own one.
RestartClock(d) ==
  LET reset == [EmptyClock EXCEPT ![d] = Larger(clock[d][d], import[d].clock[d])]
  IN  IF import[d].tail THEN MergedStamps(reset, import[d].later) ELSE clock[d]

Crash(d) ==
  /\ Fault("crash")
  /\ stage[d] # "idle" \/ staged[d] # NoStage \/ cache[d] # NoCache \/ RestartClock(d) # clock[d]
  /\ Quit(d)
  /\ clock' = [clock EXCEPT ![d] = RestartClock(d)]
  /\ staged' = [staged EXCEPT ![d] = NoStage] /\ cache' = [cache EXCEPT ![d] = NoCache]
  /\ UNCHANGED <<remote, log, pending, known, import, rebuild, mem, stamp, waived>>

\* The cache of the sync cycle lives for 30 seconds; a slow cycle outlives it.
Expire(d) ==
  /\ cache[d] # NoCache
  /\ \/ At(d, "idle") /\ UNCHANGED faults
     \/ At(d, "synced") /\ Fault("slow")
  /\ cache' = [cache EXCEPT ![d] = NoCache]
  /\ UNCHANGED <<remote, oplog, mem, staged, flow, stamp, waived>>

-----------------------------------------------------------------------------
(* Download: _downloadOps, and the filter of the download service *)

\* The operations of the file that are news, of other authors.
News(d, file, delivered) ==
  LET taken(b) == {e \in b.ops :
        /\ e[1] # d /\ e \notin log[d] \cup pending[d]
        /\ ~(b.sv <= delivered /\ Covered(e[1], stamp[e], clock[d]))}
  IN  UNION {taken(file.recent[i]) : i \in DOMAIN file.recent}

\* Faulty variant: the revision is committed when the file is read.
StageCommitted(d) ==
  /\ cache' = [cache EXCEPT ![d] = [rev |-> primary.rev, file |-> Contents]]
  /\ staged' = [staged EXCEPT ![d] = [held |-> TRUE, expected |-> Contents.sv,
                                      clock |-> Contents.clock, rev |-> 0]]
  /\ mem' = [mem EXCEPT ![d].rev = IF primary.kind = "torn" THEN 0 ELSE primary.rev]

\* A read stages its baseline and fills the cache.  The revision of a torn
\* file is never remembered, only cached, so that the next upload heals it.
Stage(d) ==
  LET torn == primary.kind = "torn" IN
  /\ cache' = [cache EXCEPT ![d] = [rev |-> primary.rev, file |-> Contents]]
  /\ staged' = [staged EXCEPT ![d] =
       [held |-> TRUE, expected |-> Contents.sv, clock |-> Contents.clock,
        rev |-> IF torn THEN 0 ELSE primary.rev]]
  /\ mem' = IF torn THEN [mem EXCEPT ![d].rev = 0] ELSE mem

Answer(d, since) ==
  [NoHand EXCEPT !.file = Contents, !.latest = Contents.sv, !.fresh = since = 0,
                 !.ops = News(d, Contents, since)]

Gap(d, since) ==
  GapDetected(Contents, d, since, mem[d].expected, mem[d].clock,
              IF import[d].pending \/ since = 0 THEN EmptyClock ELSE clock[d],
              OpCount(Contents.recent) >= MaxRecent)

Fetch(d) ==
  /\ At(d, "idle") /\ ~rebuild[d] /\ Readable
  /\ Stage(d)
  /\ Goto(d, IF Gap(d, mem[d].cursor) THEN "gap" ELSE "got", Answer(d, mem[d].cursor))
  /\ UNCHANGED <<remote, oplog, history>>

\* getFileRev: the revision is the one last committed, so nothing is new.
FetchUnchanged(d) ==
  /\ At(d, "idle") /\ ~rebuild[d]
  /\ mem[d].cursor > 0 /\ mem[d].rev = primary.rev /\ mem[d].rev # 0
  /\ mem[d].clock # EmptyClock /\ cache[d] = NoCache
  /\ Goto(d, "got", [NoHand EXCEPT !.latest = mem[d].expected])
  /\ UNCHANGED <<remote, oplog, adapter, history>>

FetchNothing(d) ==
  /\ At(d, "idle") /\ ~rebuild[d] /\ primary.kind = "none"
  /\ Goto(d, "got", NoHand)
  /\ UNCHANGED <<remote, oplog, adapter, history>>

\* After a gap, once more from 0: now the snapshot comes with the operations.
Refetch(d) ==
  /\ At(d, "gap")
  /\ \/ /\ Readable /\ Stage(d)
        /\ Goto(d, "got", Answer(d, 0))
        /\ UNCHANGED faults
     \/ /\ Fault("lost") /\ Quit(d)
        /\ UNCHANGED adapter
  /\ UNCHANGED <<remote, oplog, stamp, waived>>

-----------------------------------------------------------------------------
(* Applying a download: _processDownloadResult *)

\* The clean-slate filter of the device's own full-state operation.
Survives(d, e) ==
  \/ import[d].clock = EmptyClock \/ import[d].barred
  \/ SurvivesImport(e[1], stamp[e], d, import[d].clock)

ApplyNothing(d) ==
  /\ At(d, "got") /\ ~hand[d].fresh /\ hand[d].ops = {}
  /\ Goto(d, "applied", hand[d])
  /\ UNCHANGED <<remote, oplog, adapter, history>>

ApplyOps(d) ==
  LET admitted == {e \in hand[d].ops : Survives(d, e)} IN
  /\ At(d, "got") /\ ~hand[d].fresh /\ hand[d].ops # {}
  /\ IF admitted = {} /\ import[d].pending
     THEN Goto(d, "dialog", NoHand) /\ UNCHANGED <<log, known, clock, import>>
     ELSE /\ Goto(d, "applied", hand[d])
          /\ log' = [log EXCEPT ![d] = @ \cup admitted]
          /\ known' = [known EXCEPT ![d] = @ \cup admitted]
          /\ clock' = [clock EXCEPT ![d] = MergedStamps(@, admitted)]
          /\ import' = Logged(d, admitted)
  /\ UNCHANGED <<remote, pending, rebuild, adapter, history>>

\* The device's history holds the snapshot: nothing of it is taken.
SkipSnapshot(d) ==
  /\ At(d, "got") /\ hand[d].fresh /\ HoldsSnapshot(clock[d], hand[d].file.clock)
  /\ Goto(d, "applied", hand[d])
  /\ UNCHANGED <<remote, oplog, adapter, history>>

\* canKeepPendingOnSnapshot
KeepsPending(d) ==
  /\ ExtendsLastSeen(hand[d].file, mem[d].expected, mem[d].clock)
  /\ ~import[d].pending /\ mem[d].cursor > 0

\* Replacing local data needs the user's word.
MustAsk(d) ==
  IF Unsynced(d)
  THEN ~SnapshotAhead(clock[d], hand[d].file.clock) /\ ~KeepsPending(d)
  ELSE clock[d] = EmptyClock \/ OwnUploadsMissing(hand[d].file, d, mem[d].clock)

AskBeforeSnapshot(d) ==
  /\ At(d, "got") /\ hand[d].fresh /\ ~HoldsSnapshot(clock[d], hand[d].file.clock)
  /\ MustAsk(d)
  /\ Goto(d, IF clock[d] = EmptyClock THEN "confirm" ELSE "dialog", hand[d])
  /\ UNCHANGED <<remote, oplog, adapter, history>>

\* The snapshot is saved as the device's state, and a full-state operation that
\* was not sent yet is rejected.
Rejected(i) ==
  [Snapshotted(i) EXCEPT !.pending = FALSE, !.barred = i.barred \/ i.pending]

\* hydrateFromRemoteSync and commitFileSnapshotBaseline, one transaction.
Hydrate(d) ==
  LET file == hand[d].file
      keeps == Unsynced(d) /\ ~SnapshotAhead(clock[d], file.clock)
      kept == IF keeps
              THEN {e \in pending[d] : Compare(stamp[e], file.clock) \in {"GREATER_THAN", "CONCURRENT"}}
              ELSE {}
  IN
  /\ known' = [known EXCEPT ![d] = file.state \cup kept]
  /\ pending' = [pending EXCEPT ![d] = kept]
  /\ log' = [log EXCEPT ![d] = @ \cup hand[d].ops]
  /\ clock' = [clock EXCEPT ![d] = Increment(Merge(@, file.clock), d)]
  /\ import' = [import EXCEPT ![d] = Rejected(@)]
  /\ Goto(d, "applied", hand[d])
  /\ UNCHANGED <<remote, rebuild, adapter, history>>

ApplySnapshot(d) ==
  /\ \/ At(d, "got") /\ hand[d].fresh /\ ~MustAsk(d)
        /\ ~HoldsSnapshot(clock[d], hand[d].file.clock)
     \/ At(d, "confirm") /\ ~Unsynced(d)
  /\ Hydrate(d)

\* Faulty variant: the cursor is a count of operations, less one.
PromotedCount(d, latest) ==
  [mem[d] EXCEPT !.cursor = latest - 1, !.rev = staged[d].rev, !.clock = staged[d].clock]

\* setLastServerSeq: what was staged is now what this device has taken in.
Promoted(d, latest) ==
  LET s == staged[d] IN
  [cursor   |-> latest,
   expected |-> IF s.held THEN s.expected ELSE mem[d].expected,
   rev      |-> IF s.rev # 0 THEN s.rev ELSE mem[d].rev,
   clock    |-> IF s.held THEN s.clock ELSE mem[d].clock]

Commit(d) ==
  /\ At(d, "applied")
  /\ mem' = [mem EXCEPT ![d] = Promoted(d, hand[d].latest)]
  /\ staged' = [staged EXCEPT ![d] = NoStage]
  /\ Goto(d, "synced", NoHand)
  /\ UNCHANGED <<remote, oplog, cache, history>>

-----------------------------------------------------------------------------
(* Upload: _uploadOps, _uploadSnapshot, and the acknowledgement *)

\* Nothing to send, or a rejected full-state operation stands in the way.
Finish(d) ==
  /\ At(d, "synced") /\ (~Unsynced(d) \/ import[d].barred)
  /\ Quit(d)
  /\ UNCHANGED <<remote, oplog, adapter, history>>

MayUpload(d) == At(d, "synced") /\ pending[d] # {} /\ ~import[d].barred /\ ~import[d].pending

\* Faulty variant: the state of the old file is kept.
AppendixOfOldState(d, file) ==
  Appended(file, d, pending[d], MergedStamps(file.clock, pending[d]), file.state)

Appendix(d, file) ==
  Appended(file, d, pending[d], MergedStamps(file.clock, pending[d]), known[d])

\* The file in hand: the cache of this cycle, or a fresh read at the last revision.
Current(d) ==
  IF cache[d] # NoCache THEN cache[d] ELSE [rev |-> primary.rev, file |-> primary.file]

MayExtend(d) ==
  /\ \/ cache[d] # NoCache
     \/ primary.kind = "good" /\ mem[d].rev = primary.rev
  /\ ~BaseUnseen(Current(d).file.base, mem[d].clock)
  /\ ~staged[d].held

StartUpload(d) ==
  /\ MayUpload(d) /\ MayExtend(d)
  /\ Goto(d, "back", [NoHand EXCEPT !.rev = Current(d).rev, !.ops = pending[d],
                 !.file = Appendix(d, Current(d).file), !.back = Current(d).file])
  /\ UNCHANGED <<remote, oplog, adapter, history>>

StartFirstUpload(d) ==
  /\ MayUpload(d) /\ cache[d] = NoCache /\ primary.kind = "none"
  /\ Goto(d, "put", [NoHand EXCEPT !.ops = pending[d], !.file = Appendix(d, Blank)])
  /\ UNCHANGED <<remote, oplog, adapter, history>>

\* The file moved, or was never applied.  A device without a cursor has probed
\* the folder first, which stages what it found.
AbortUpload(d) ==
  /\ MayUpload(d) /\ ~MayExtend(d)
  /\ primary.kind # "none" \/ cache[d] # NoCache
  /\ Quit(d)
  /\ IF mem[d].cursor = 0 /\ Readable THEN Stage(d) ELSE UNCHANGED adapter
  /\ UNCHANGED <<remote, oplog, history>>

\* Faulty variant: the file is written with the durable clock, which is behind.
ReplaceAtDurableClock(d) ==
  /\ At(d, "synced") /\ import[d].pending
  /\ LET file == Replacement(d, clock[d], import[d].state) IN
     Goto(d, "back", [NoHand EXCEPT !.force = TRUE, !.file = file, !.back = file,
                                    !.ops = pending[d] \cap file.state])
  /\ UNCHANGED <<remote, oplog, adapter, history>>

\* A pending full-state operation replaces the file, whatever is there.
StartReplacement(d) ==
  /\ At(d, "synced") /\ import[d].pending
  /\ LET file == Replacement(d, import[d].clock, import[d].state) IN
     Goto(d, "back", [NoHand EXCEPT !.force = TRUE, !.file = file, !.back = file,
                                    !.ops = pending[d] \cap file.state])
  /\ UNCHANGED <<remote, oplog, adapter, history>>

\* What the first put of a replacement drops is what the user decided to drop,
\* not what a retry finds in the folder.
Overwritten(d) ==
  IF hand[d].force /\ ~import[d].sent THEN Stored \ hand[d].file.state ELSE {}

\* The put reaches the folder.
Sends(d) == import' = [import EXCEPT ![d].sent = @ \/ hand[d].force]

\* Faulty variant: a mismatch is answered with a forced write.
UnmovedForced(d) == TRUE

Unmoved(d) == hand[d].force \/ primary.rev = hand[d].rev

\* Both writers save the backup first: of the old file, or of the new one.  A
\* failed backup is ignored: without "stale" the backup of a writer that is
\* late already fails.
WriteBackup(d) ==
  /\ At(d, "back")
  /\ bak' = IF Unmoved(d) \/ "stale" \in Events THEN hand[d].back ELSE bak
  /\ waived' = waived \cup Overwritten(d)
  /\ Goto(d, "put", hand[d])
  /\ UNCHANGED <<primary, oplog, adapter, stamp, faults>>

Put(d) ==
  /\ At(d, "put") /\ Unmoved(d)
  /\ primary' = [rev |-> primary.rev + 1, kind |-> "good", file |-> hand[d].file]
  /\ waived' = waived \cup Overwritten(d)
  /\ mem' = [mem EXCEPT ![d] =
       [cursor |-> IF hand[d].force THEN 1 ELSE @.cursor, expected |-> hand[d].file.sv,
        rev |-> primary'.rev, clock |-> hand[d].file.clock]]
  /\ Sends(d)
  /\ staged' = [staged EXCEPT ![d] = NoStage] /\ cache' = [cache EXCEPT ![d] = NoCache]
  /\ Goto(d, "stored", hand[d])
  /\ UNCHANGED <<bak, log, pending, known, clock, rebuild, stamp, faults>>

PutMismatch(d) ==
  /\ At(d, "put") /\ ~Unmoved(d)
  /\ Quit(d)
  /\ UNCHANGED <<remote, oplog, adapter, history>>

\* The file is written and the answer lost, the write is lost, or it is cut short.
PutFails(d) ==
  /\ At(d, "put")
  /\ \/ /\ Fault("lost") /\ Unmoved(d)
        /\ primary' = [rev |-> primary.rev + 1, kind |-> "good", file |-> hand[d].file]
        /\ waived' = waived \cup Overwritten(d) /\ Sends(d)
     \/ Fault("lost") /\ UNCHANGED <<primary, waived, import>>
     \/ /\ Fault("torn") /\ Unmoved(d) /\ primary.kind = "good"
        /\ primary' = [primary EXCEPT !.rev = @ + 1, !.kind = "torn"]
        /\ waived' = waived \cup Overwritten(d) /\ Sends(d)
  /\ Quit(d)
  /\ UNCHANGED <<bak, log, pending, known, clock, rebuild, adapter, stamp>>

\* The cursor moves, and only then are the operations acknowledged.
CommitUpload(d) ==
  /\ At(d, "stored")
  /\ mem' = [mem EXCEPT ![d].cursor = hand[d].file.sv]
  /\ Goto(d, "counted", hand[d])
  /\ UNCHANGED <<remote, oplog, staged, cache, history>>

Acknowledge(d) ==
  /\ At(d, "counted")
  /\ pending' = [pending EXCEPT ![d] = @ \ hand[d].ops]
  /\ log' = [log EXCEPT ![d] = @ \cup hand[d].ops]
  /\ import' = IF hand[d].force THEN [import EXCEPT ![d].pending = FALSE] ELSE import
  /\ Goto(d, IF hand[d].force THEN "synced" ELSE "idle", NoHand)
  /\ UNCHANGED <<remote, known, clock, rebuild, adapter, history>>

-----------------------------------------------------------------------------
(* The user's decision: _handleDataConflict *)

Cancel(d) ==
  /\ stage[d] \in {"dialog", "confirm"} /\ Fault("cancel")
  /\ Quit(d)
  /\ UNCHANGED <<remote, oplog, adapter, stamp, waived>>

\* A late edit while the confirmation was open: ask with the edit in view.
Reconsider(d) ==
  /\ At(d, "confirm") /\ Unsynced(d)
  /\ Goto(d, "dialog", hand[d])
  /\ UNCHANGED <<remote, oplog, adapter, history>>

\* Faulty variant: the full-state operation takes no counter of its own.
UseLocalUncounted(d) ==
  LET local == MergedStamps(Merge(clock[d], import[d].clock), log[d] \cup pending[d]) IN
  /\ At(d, "dialog") /\ d \in Overwriters
  /\ import' = [import EXCEPT ![d] =
       [NoImport EXCEPT !.clock = local, !.state = known[d], !.pending = TRUE, !.tail = TRUE]]
  /\ Goto(d, "synced", NoHand)
  /\ UNCHANGED <<remote, log, pending, known, clock, rebuild, adapter, history>>

\* USE_LOCAL: forceUploadLocalState appends a SYNC_IMPORT and uploads it.  Its
\* clock is one ahead of all the log's; the durable clock is left as it was.
UseLocal(d) ==
  LET local == MergedStamps(Merge(clock[d], import[d].clock), log[d] \cup pending[d]) IN
  /\ At(d, "dialog") /\ d \in Overwriters
  /\ import' = [import EXCEPT ![d] =
       [NoImport EXCEPT !.clock = Increment(local, d), !.state = known[d],
                        !.pending = TRUE, !.tail = TRUE]]
  /\ Goto(d, "synced", NoHand)
  /\ UNCHANGED <<remote, log, pending, known, clock, rebuild, adapter, history>>

\* USE_REMOTE: forceDownloadRemoteState, also the start of a cycle after a
\* crash in the middle of it.
FetchRemote(d) ==
  /\ At(d, "dialog") \/ (At(d, "idle") /\ rebuild[d])
  /\ \/ /\ Readable /\ Stage(d)
        /\ Goto(d, "remote", Answer(d, 0))
        /\ UNCHANGED faults
     \/ /\ Fault("lost") /\ Quit(d)
        /\ UNCHANGED adapter
  /\ UNCHANGED <<remote, oplog, stamp, waived>>

\* The log becomes the remote history; after a crash, edits made since are kept.
Rebuild(d) ==
  LET file == hand[d].file
      kept == IF rebuild[d] THEN pending[d] ELSE {}
  IN
  /\ At(d, "remote")
  /\ rebuild' = [rebuild EXCEPT ![d] = TRUE]
  /\ known' = [known EXCEPT ![d] = file.state \cup kept]
  /\ pending' = [pending EXCEPT ![d] = kept]
  /\ waived' = waived \cup (known[d] \ known'[d])
  /\ log' = [log EXCEPT ![d] = UNION {file.recent[i].ops : i \in DOMAIN file.recent}]
  /\ clock' = [clock EXCEPT ![d] = MergedStamps(Increment(file.clock, d), kept)]
  /\ import' = [import EXCEPT ![d] = NoImport]
  /\ Goto(d, "rebuilt", hand[d])
  /\ UNCHANGED <<remote, adapter, stamp, faults>>

FinishRebuild(d) ==
  /\ At(d, "rebuilt")
  /\ mem' = [mem EXCEPT ![d] = Promoted(d, hand[d].latest)]
  /\ staged' = [staged EXCEPT ![d] = NoStage]
  /\ rebuild' = [rebuild EXCEPT ![d] = FALSE]
  /\ Quit(d)
  /\ UNCHANGED <<remote, log, pending, known, clock, import, cache, history>>

-----------------------------------------------------------------------------
Download(d) == Fetch(d) \/ FetchUnchanged(d) \/ FetchNothing(d) \/ Refetch(d)
Apply(d) == ApplyNothing(d) \/ ApplyOps(d) \/ SkipSnapshot(d) \/ AskBeforeSnapshot(d)
            \/ ApplySnapshot(d) \/ Commit(d)
Upload(d) == Finish(d) \/ StartUpload(d) \/ StartFirstUpload(d) \/ AbortUpload(d)
             \/ StartReplacement(d) \/ WriteBackup(d) \/ Put(d) \/ PutMismatch(d)
             \/ PutFails(d) \/ CommitUpload(d) \/ Acknowledge(d)
Decide(d) == Cancel(d) \/ Reconsider(d) \/ UseLocal(d) \/ FetchRemote(d)
             \/ Rebuild(d) \/ FinishRebuild(d)
Sync(d) == Download(d) \/ Apply(d) \/ Upload(d) \/ Decide(d)

Next == \E d \in Client : Write(d) \/ Prune(d) \/ Crash(d) \/ Expire(d) \/ Sync(d)

Spec == Init /\ [][Next]_vars
FairSpec == Spec /\ \A d \in Client : WF_vars(Sync(d))

-----------------------------------------------------------------------------
(* Properties *)

\* Every variable has its type.
TypeOK ==
  /\ primary \in [rev : Nat, kind : {"none", "good", "torn"}, file : File] /\ bak \in File
  /\ stamp \in [Edit -> Clock] /\ waived \subseteq Edit /\ faults \in 0..MaxFaults
  /\ log \in [Client -> SUBSET Edit] /\ pending \in [Client -> SUBSET Edit]
  /\ known \in [Client -> SUBSET Edit] /\ clock \in [Client -> Clock]
  /\ import \in [Client -> [clock : Clock, state : SUBSET Edit, pending : BOOLEAN, barred : BOOLEAN,
                             sent : BOOLEAN, tail : BOOLEAN, later : SUBSET Edit]]
  /\ rebuild \in [Client -> BOOLEAN]
  /\ mem \in [Client -> [cursor : Nat, expected : Nat, rev : Nat, clock : Clock]]
  /\ staged \in [Client -> [held : BOOLEAN, expected : Nat, rev : Nat, clock : Clock]]
  /\ cache \in [Client -> [rev : Nat, file : File]]
  /\ stage \in [Client -> {"idle", "gap", "got", "applied", "confirm", "dialog", "synced",
                            "back", "put", "stored", "counted", "remote", "rebuilt"}]
  /\ hand \in [Client -> [file : File, back : File, rev : Nat, ops : SUBSET Edit,
                           latest : Nat, fresh : BOOLEAN, force : BOOLEAN]]

\* A device that believes it has read the file as it stands.
UpToDate(d) == At(d, "idle") /\ ~rebuild[d] /\ primary.kind = "good" /\ mem[d].rev = primary.rev

\* Such a device has nothing the file lacks but what it still has to send: an
\* upload that another one overwrote does not pass for stored.
AcknowledgedIsStored ==
  \A d \in Client : UpToDate(d) => known[d] \ waived \subseteq pending[d] \cup Stored

\* And it lacks nothing that the file reflects: no download, gap or snapshot is
\* passed over for good (the revision is what the next poll compares).
NoSilentGap == \A d \in Client : UpToDate(d) => Stored \ waived \subseteq known[d]

-----------------------------------------------------------------------------
\* Again and again the folder holds all that a device holds, unless a rejected
\* full-state operation of its own keeps the device from sending anything.
TheFolderCatchesUp ==
  \A d \in Client : []<>(known[d] \ waived \subseteq Stored \/ import[d].barred)

\* A device whose full-state operation was rejected can send again what its user
\* edits.  It does not hold when the answer of a replacement is lost (README,
\* section 5).
UploadsGoOn == \A d \in Client : []<>(import[d].barred => pending[d] = {})

\* And a device all that the folder holds.
EveryDeviceCatchesUp == \A d \in Client : []<>(Stored \ waived \subseteq known[d])

\* No step, in any order and with any fault, drops an edit nobody gave up: not
\* from the folder, and not from a device.
Folder == INSTANCE SyncFolder WITH replica <- known, folder <- Stored
ImplementsSyncFolder == Folder!Spec

=============================================================================
