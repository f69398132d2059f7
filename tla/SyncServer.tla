------------------------------ MODULE SyncServer ------------------------------
(***************************************************************************)
(* The SuperSync server's write path for one account, at the grain of its  *)
(* database transactions: the upload of a batch (sync.service.ts uploadOps *)
(* and operation-upload.service.ts), the routes around it (deduplication,  *)
(* the in-process storage lock, quota cleanup), DELETE /data, the retention*)
(* sweep and a restart of a server process.                                *)
(*                                                                         *)
(* PostgreSQL at REPEATABLE READ is modelled by what the code relies on: a *)
(* transaction reads the snapshot of its first statement; a statement that *)
(* writes the user_sync_state row (or selects it FOR UPDATE) waits for the *)
(* transaction that holds it, and aborts when a commit changed the row     *)
(* after the snapshot (40001, `stale` below); a commit publishes all its   *)
(* writes at once.                                                         *)
(*                                                                         *)
(* Left out: payloads and their validation, byte counts (the quota is a    *)
(* choice), the encrypted-only gate, rate limits, devices, and the reads   *)
(* that only fill the response (piggybacked operations, latestSeq).        *)
(***************************************************************************)
EXTENDS SyncClock

CONSTANTS Op,             \* operation ids
          Entity,         \* entities the operations touch
          Content,        \* Content[o]: what the id stands for
          Batches,        \* the batches clients send to POST /ops
          Request,        \* concurrent request handlers
          Process,        \* server processes
          Home,           \* Home[r]: the process that runs handler r
          Nobody,         \* no handler
          History,        \* operations retained from before the model starts
          LostImports,    \* imports that were pruned before the model starts
          Events,         \* what an instance admits: a subset of AllEvents
          MaxBatch,       \* bound: operations in a batch
          MaxSeq          \* bound: sequence numbers

\* Quota pressure, the retention sweep, DELETE /data, transaction timeouts, process
\* restarts, clients that send request ids, and the expiry of cached results.
AllEvents == {"quota", "sweep", "wipe", "timeout", "restart", "requestId", "expiry"}

Imports == {"SYNC_IMPORT", "BACKUP_IMPORT"}
FullStateKinds == Imports \cup {"REPAIR"}
Kinds == {"UPDATE", "TIME_DELTA"} \cup FullStateKinds

NoCursor == -1     \* the request has no lastKnownServerSeq / repairBaseServerSeq
Unresolved == -1   \* latest_state_replacement_seq is NULL

Cursors == Nat \cup {NoCursor}

\* A row of `operations`: known is the cursor the upload carried.
Row == [id : Op, known : Cursors, clock : Clock]

\* A log is a finite partial function from sequence numbers to rows.
IsLog(l) == IsFiniteSet(DOMAIN l) /\ DOMAIN l \subseteq Nat \ {0} /\ l \in [DOMAIN l -> Row]

SyncState == [lastSeq : Nat, replacement : Nat \cup {Unresolved},
              fullSeq : Nat, fullClock : Clock]

ASSUME OpAssumption ==
  Content \in [Op -> [client : Client, kind : Kinds, entities : SUBSET Entity, clock : Clock]]
ASSUME BatchAssumption ==
  /\ Batches \subseteq Seq(Op)
  /\ \A b \in Batches : \A i \in 1..Len(b) : Content[b[i]].kind \notin FullStateKinds
  /\ \A b \in Batches : Len(b) \in 1..MaxBatch
ASSUME RequestAssumption == Home \in [Request -> Process] /\ Nobody \notin Request
ASSUME HistoryAssumption == IsLog(History) /\ LostImports \subseteq Nat
ASSUME BoundAssumption == Events \subseteq AllEvents /\ MaxBatch \in Nat /\ MaxSeq \in Nat

VARIABLES log,        \* the `operations` rows of the account
          row,        \* the account's user_sync_state row
          holder,     \* the transaction that holds that row's lock
          storage,    \* storage[p]: who runs under runWithStorageUsageLock in p
          dedup,      \* dedup[p]: cached results of finished requests
          stage,      \* stage[r]: how far handler r is
          batch,      \* batch[r]: the operations of its request
          cursor,     \* cursor[r]: lastKnownServerSeq (of a REPAIR: its base)
          wipe,       \* wipe[r]: the snapshot upload is a clean slate
          occupied,   \* occupied[r]: ids found stored before quota cleanup
          cut,        \* cut[r]: what quota cleanup is about to delete
          stale,      \* stale[r]: a commit changed the row after r's snapshot
          view,       \* view[r]: the operations r's transaction sees
          trow,       \* trow[r]: the user_sync_state row it sees
          results,    \* results[r]: the results so far, one per operation
          wiping,     \* processes that have wiped data but not their caches
          sweepTo     \* the boundary the retention sweep deletes up to, or 0

\* What really happened, for the properties only.
VARIABLES published,  \* every <<seq, id>> ever committed
          imports,    \* sequence numbers of the imports since the last wipe
          wipedAt     \* lastSeq at the last wipe


ghosts == <<published, imports, wipedAt>>
vars == <<log, row, holder, storage, dedup, stage, batch, cursor, wipe,
          occupied, cut, stale, view, trow, results, wiping, sweepTo,
          published, imports, wipedAt>>

Nothing == [s \in {} |-> s]      \* an empty log, an empty cache

-----------------------------------------------------------------------------
(* Logs *)

Newest(S) == CHOOSE s \in S : \A t \in S : t <= s
Oldest(S) == CHOOSE s \in S : \A t \in S : s <= t

KindAt(l, s) == Content[l[s].id].kind

ImportRows(l) == {s \in DOMAIN l : KindAt(l, s) \in Imports}

\* isCausalFullStateOperation: a REPAIR counts when it names its base.
Causal(kind, known) == kind \in Imports \/ (kind = "REPAIR" /\ known # NoCursor)
CausalRows(l) == {s \in DOMAIN l : Causal(KindAt(l, s), l[s].known)}

StoredIds(l) == {l[s].id : s \in DOMAIN l}
SeqOf(l, o) == CHOOSE s \in DOMAIN l : l[s].id = o

\* What a deletion of every row below n leaves.
From(l, n) == [s \in {t \in DOMAIN l : t >= n} |-> l[s]]

\* Faulty variant: an import pruned behind a REPAIR leaves no fence.
ResolveImportsOnly(l) == IF ImportRows(l) = {} THEN 0 ELSE Newest(ImportRows(l))

\* resolveRetainedReplacementSeq: a REPAIR stands in for a pruned import.
Resolve(l) ==
  CASE ImportRows(l) # {}                        -> Newest(ImportRows(l))
    [] ImportRows(l) = {} /\ CausalRows(l) # {}  -> Newest(CausalRows(l))
    [] CausalRows(l) = {}                        -> 0

-----------------------------------------------------------------------------
(***************************************************************************)
(* detectConflict: the latest row on each touched entity decides.  Two     *)
(* timer batches commute.                                                  *)
(***************************************************************************)

OnEntity(l, e) == {s \in DOMAIN l : e \in Content[l[s].id].entities}

ConflictsWith(o, stored) ==
  LET comparison == Compare(Content[o].clock, stored.clock)
      there == Content[stored.id]
  IN  ~ \/ comparison = "GREATER_THAN"
        \/ comparison = "EQUAL" /\ Content[o].client = there.client
        \/ /\ comparison = "CONCURRENT"
           /\ Content[o].kind = "TIME_DELTA"
           /\ there.kind = "TIME_DELTA"

Conflicts(l, o) ==
  /\ Content[o].kind \notin FullStateKinds
  /\ \E e \in Content[o].entities :
       OnEntity(l, e) # {} /\ ConflictsWith(o, l[Newest(OnEntity(l, e))])

\* Pruning before storage keeps the uploader and the full-state author in force.
AuthorInForce(l) ==
  IF CausalRows(l) = {} THEN <<>>
  ELSE <<Content[l[Newest(CausalRows(l))].id].client>>

StoredClock(l, o, known) ==
  LimitClock(Content[o].clock,
             <<Content[o].client>> \o
             IF Causal(Content[o].kind, known) THEN <<>> ELSE AuthorInForce(l))

\* persistMergedFullStateClock: the prior rows' clocks and the operation's own.
\* Faulty variant: the marker holds the operation's own clock only (#8973).
FullStateClockOwn(l, o) == Content[o].clock

FullStateClock(l, o) ==
  [c \in Client |->
     LET counters == {l[s].clock[c] : s \in DOMAIN l} \cup {Content[o].clock[c]}
     IN  CHOOSE m \in counters : \A n \in counters : n <= m]

-----------------------------------------------------------------------------
(* Requests *)

IsFullState(b) == Len(b) = 1 /\ Content[b[1]].kind \in FullStateKinds
IsRepair(b) == Len(b) = 1 /\ Content[b[1]].kind = "REPAIR"

\* shouldCleanSlate || lastKnownServerSeq !== undefined || causal REPAIR
NeedsRowLock(r) == wipe[r] \/ cursor[r] # NoCursor

InTransaction == {"began", "working"}

Codes == {"ACCEPTED", "DUPLICATE", "INVALID_OP_ID", "CONFLICT", "REPAIR_STALE", "FENCED",
          "ROLLED_BACK"}
Answer == [code : Codes, seq : Nat]
Result(code, seq) == [code |-> code, seq |-> seq]
Every(b, code) == [i \in 1..Len(b) |-> Result(code, 0)]

\* INTERNAL_ERROR results, transient: never cached.
Transient == {"ROLLED_BACK", "FENCED"}

AcceptedIn(b, rs) ==
  {<<b[i], rs[i].seq>> : i \in {j \in 1..Len(rs) : rs[j].code = "ACCEPTED"}}

\* The deduplication key: the request fingerprint leaves lastKnownServerSeq out.
Key(b, k, w) == [batch |-> b, base |-> IF IsFullState(b) THEN k ELSE NoCursor, wipe |-> w]

\* getLatestStateReplacementSeq
ReplacementSeq == IF row.replacement = Unresolved THEN Resolve(log) ELSE row.replacement

PredatesReplacement(b, k, rs) ==
  /\ ~IsFullState(b) /\ k # NoCursor
  /\ \/ k < ReplacementSeq
     \/ \E i \in 1..Len(rs) : rs[i].code = "ACCEPTED" /\ rs[i].seq < ReplacementSeq

CacheAnswers(p, b, k, w) ==
  /\ Key(b, k, w) \in DOMAIN dedup[p]
  /\ ~PredatesReplacement(b, k, dedup[p][Key(b, k, w)])

\* The requests a client can send: cursors come from the server's answers.
CursorsSoFar == {NoCursor} \cup 0..row.lastSeq
Uploads == [b : Batches, k : CursorsSoFar, w : {FALSE}]
Snapshots ==
  {[b |-> <<o>>, k |-> k, w |-> w] : o \in {x \in Op : Content[x].kind \in FullStateKinds},
                                     k \in CursorsSoFar, w \in BOOLEAN}
Sendable(q) ==
  IF Content[q.b[1]].kind = "REPAIR" THEN ~q.w ELSE IsFullState(q.b) => q.k = NoCursor

\* Bound: no request is taken once its operations could exceed MaxSeq.
HasRoom ==
  row.lastSeq + MaxBatch * (Cardinality({r \in Request : stage[r] # "idle"}) + 1) <= MaxSeq

-----------------------------------------------------------------------------
NewState == [lastSeq |-> 0, replacement |-> Unresolved, fullSeq |-> 0, fullClock |-> EmptyClock]

\* An account that already has history has not resolved its marker yet.
Init ==
  /\ log = History
  /\ row = [NewState EXCEPT !.lastSeq = IF History = Nothing THEN 0 ELSE Newest(DOMAIN History)]
  /\ holder = Nobody
  /\ storage = [p \in Process |-> Nobody]
  /\ dedup = [p \in Process |-> Nothing]
  /\ stage = [r \in Request |-> "idle"]
  /\ batch = [r \in Request |-> <<>>]
  /\ cursor = [r \in Request |-> NoCursor]
  /\ wipe = [r \in Request |-> FALSE]
  /\ occupied = [r \in Request |-> {}]
  /\ cut = [r \in Request |-> 0]
  /\ stale = [r \in Request |-> FALSE]
  /\ view = [r \in Request |-> Nothing]
  /\ trow = [r \in Request |-> NewState]
  /\ results = [r \in Request |-> <<>>]
  /\ wiping = {}
  /\ sweepTo = 0
  /\ published = {<<s, History[s].id>> : s \in DOMAIN History}
  /\ imports = LostImports \cup ImportRows(History)
  /\ wipedAt = 0

\* Handler r is done, or dies: its local variables are gone.
Forget(r) ==
  /\ stage' = [stage EXCEPT ![r] = "idle"]
  /\ batch' = [batch EXCEPT ![r] = <<>>]
  /\ cursor' = [cursor EXCEPT ![r] = NoCursor]
  /\ wipe' = [wipe EXCEPT ![r] = FALSE]
  /\ occupied' = [occupied EXCEPT ![r] = {}]
  /\ cut' = [cut EXCEPT ![r] = 0]
  /\ stale' = [stale EXCEPT ![r] = FALSE]
  /\ view' = [view EXCEPT ![r] = Nothing]
  /\ trow' = [trow EXCEPT ![r] = NewState]
  /\ results' = [results EXCEPT ![r] = <<>>]

(***************************************************************************)
(* A request arrives.  One that the cache answers changes nothing here and *)
(* is left out; any other waits for the storage lock.                      *)
(***************************************************************************)
Receive(r, q) ==
  /\ stage[r] = "idle"
  /\ HasRoom
  /\ Sendable(q)
  /\ ~CacheAnswers(Home[r], q.b, q.k, q.w)
  /\ stage' = [stage EXCEPT ![r] = "queued"]
  /\ batch' = [batch EXCEPT ![r] = q.b]
  /\ cursor' = [cursor EXCEPT ![r] = q.k]
  /\ wipe' = [wipe EXCEPT ![r] = q.w]
  /\ UNCHANGED <<log, row, holder, storage, dedup, occupied, cut, stale, view, trow,
                 results, wiping, sweepTo, ghosts>>

\* runWithStorageUsageLock; POST /ops then notes which ids are already stored.
EnterStorageLock(r) ==
  /\ stage[r] = "queued"
  /\ storage[Home[r]] = Nobody
  /\ storage' = [storage EXCEPT ![Home[r]] = r]
  /\ stage' = [stage EXCEPT ![r] = IF IsFullState(batch[r]) THEN "admitted" ELSE "checked"]
  /\ occupied' = [occupied EXCEPT ![r] =
       IF IsFullState(batch[r]) THEN {} ELSE Ids(batch[r]) \cap StoredIds(log)]
  /\ UNCHANGED <<log, row, holder, dedup, batch, cursor, wipe, cut, stale, view, trow,
                 results, wiping, sweepTo, ghosts>>

(***************************************************************************)
(* The checks POST /snapshot makes under the storage lock, before the      *)
(* quota may delete anything: the durable retry check of clean slates and  *)
(* repairs, a stale repair base, and a second initial SYNC_IMPORT.         *)
(***************************************************************************)
DurableRetry(r) ==
  (wipe[r] \/ IsRepair(batch[r])) /\ batch[r][1] \in StoredIds(log)

StaleBase(r) ==
  /\ IsRepair(batch[r])
  /\ cursor[r] # NoCursor
  /\ batch[r][1] \notin StoredIds(log)
  /\ cursor[r] # row.lastSeq

AnswerRetry(r) ==
  LET o == batch[r][1]
      s == SeqOf(log, o)
      exact == wipe[r] \/ log[s].known = cursor[r]
  IN  /\ stage[r] = "admitted"
      /\ DurableRetry(r)
      /\ results' = [results EXCEPT ![r] =
           <<IF exact THEN Result("ACCEPTED", s) ELSE Result("INVALID_OP_ID", 0)>>]
      /\ stage' = [stage EXCEPT ![r] = "finishing"]
      /\ UNCHANGED <<log, row, holder, storage, dedup, batch, cursor, wipe, occupied, cut,
                     stale, view, trow, wiping, sweepTo, ghosts>>

SecondImport(r) ==
  /\ Content[batch[r][1]].kind = "SYNC_IMPORT"
  /\ ~wipe[r]
  /\ \E s \in DOMAIN log : KindAt(log, s) \in FullStateKinds

\* Faulty variant: the storage lock is not released on an early return.
ReleaseStorageOnlyAfterUpload(r) ==
  IF stage[r] = "finishing" THEN storage' = [storage EXCEPT ![Home[r]] = Nobody]
  ELSE UNCHANGED storage

ReleaseStorage(r) == storage' = [storage EXCEPT ![Home[r]] = Nobody]

\* The reply is sent inside the lock; an exact retry of the import is accepted.
RefuseSnapshot(r) ==
  /\ stage[r] = "admitted"
  /\ ~DurableRetry(r)
  /\ StaleBase(r) \/ SecondImport(r)
  /\ ReleaseStorage(r)
  /\ Forget(r)
  /\ UNCHANGED <<log, row, holder, dedup, wiping, sweepTo, ghosts>>

\* Only reason = 'initial' refuses a second import; recovery and migration pass.
AdmitSnapshot(r) ==
  /\ stage[r] = "admitted"
  /\ ~DurableRetry(r)
  /\ ~StaleBase(r)
  /\ stage' = [stage EXCEPT ![r] = "checked"]
  /\ UNCHANGED <<log, row, holder, storage, dedup, batch, cursor, wipe, occupied, cut,
                 stale, view, trow, results, wiping, sweepTo, ghosts>>

(***************************************************************************)
(* Quota.  An upload that does not fit frees storage first, one restore    *)
(* point at a time and each step a statement of its own: are two restore   *)
(* points left; up to where may be deleted; the deletion.                  *)
(***************************************************************************)
TwoRestorePoints(l) == Cardinality(CausalRows(l)) >= 2

\* Faulty variant: the last restore point is deleted too.
DeletableSparingNone(l) == IF CausalRows(l) = {} THEN 0 ELSE Oldest(CausalRows(l))

\* deleteOldestRestorePointAndOps: the oldest restore point and all before it
\* -- only what is before it when it is the last one.
Deletable(l) ==
  CASE CausalRows(l) = {}   -> 0
    [] TwoRestorePoints(l)  -> Oldest(CausalRows(l))
    [] CausalRows(l) # {} /\ ~TwoRestorePoints(l) -> Oldest(CausalRows(l)) - 1

\* An upload from behind a replacement must download, not clean up.
BehindMarker(r) == ~IsFullState(batch[r]) /\ cursor[r] # NoCursor /\ cursor[r] < ReplacementSeq

QuotaShort(r) ==
  /\ "quota" \in Events
  /\ stage[r] = "checked"
  /\ ~wipe[r]
  /\ ~BehindMarker(r)
  /\ stage' = [stage EXCEPT ![r] = "freeing"]
  /\ UNCHANGED <<log, row, holder, storage, dedup, batch, cursor, wipe, occupied, cut, stale,
                 view, trow, results, wiping, sweepTo, ghosts>>

SeeTwoRestorePoints(r) ==
  /\ stage[r] = "freeing"
  /\ TwoRestorePoints(log)
  /\ stage' = [stage EXCEPT ![r] = "deleting"]
  /\ UNCHANGED <<log, row, holder, storage, dedup, batch, cursor, wipe, occupied, cut, stale,
                 view, trow, results, wiping, sweepTo, ghosts>>

ReadOldestRestorePoint(r) ==
  /\ stage[r] = "deleting"
  /\ cut[r] = 0
  /\ Deletable(log) # 0
  /\ cut' = [cut EXCEPT ![r] = Deletable(log)]
  /\ UNCHANGED <<log, row, holder, storage, dedup, stage, batch, cursor, wipe, occupied,
                 stale, view, trow, results, wiping, sweepTo, ghosts>>

DeleteRestorePoint(r) ==
  /\ stage[r] = "deleting"
  /\ cut[r] # 0
  /\ log' = From(log, cut[r] + 1)
  /\ log' # log
  /\ cut' = [cut EXCEPT ![r] = 0]
  /\ stage' = [stage EXCEPT ![r] = "freeing"]
  /\ UNCHANGED <<row, holder, storage, dedup, batch, cursor, wipe, occupied, stale, view,
                 trow, results, wiping, sweepTo, ghosts>>

\* Nothing can be freed: the last restore point is left, or somebody else has
\* deleted what this handler was about to.
NothingToFree(r) ==
  \/ stage[r] = "freeing" /\ ~TwoRestorePoints(log)
  \/ stage[r] = "deleting" /\ cut[r] = 0 /\ Deletable(log) = 0
  \/ stage[r] = "deleting" /\ cut[r] # 0 /\ \A s \in DOMAIN log : s > cut[r]

\* 413, or STATE_REPLACEMENT_REQUIRED when the cursor is behind: nothing is uploaded.
QuotaExceeded(r) ==
  /\ "quota" \in Events
  /\ \/ stage[r] = "checked" /\ (wipe[r] \/ BehindMarker(r))
     \/ NothingToFree(r)
  /\ ReleaseStorage(r)
  /\ Forget(r)
  /\ UNCHANGED <<log, row, holder, dedup, wiping, sweepTo, ghosts>>

-----------------------------------------------------------------------------
(***************************************************************************)
(* The upload transaction.                                                 *)
(***************************************************************************)

\* The first statement fixes the snapshot.
Begin(r) ==
  /\ stage[r] \in {"checked", "freeing"}
  /\ stage' = [stage EXCEPT ![r] = IF NeedsRowLock(r) THEN "began" ELSE "working"]
  /\ view' = [view EXCEPT ![r] = log]
  /\ trow' = [trow EXCEPT ![r] = row]
  /\ UNCHANGED <<log, row, holder, storage, dedup, batch, cursor, wipe, occupied, cut,
                 stale, results, wiping, sweepTo, ghosts>>

\* A statement on the user_sync_state row succeeds: the row is ours, or it is
\* free and unchanged since the snapshot.  Faulty variant: READ COMMITTED.
RowIsFree(r) == holder \in {Nobody, r}

RowIsOurs(r) == holder = r \/ (holder = Nobody /\ ~stale[r])

\* The row as the transaction sees it once the replacement marker is resolved.
Resolved(r) ==
  [trow[r] EXCEPT !.replacement = IF @ = Unresolved THEN Resolve(view[r]) ELSE @]

\* Faulty variant: the transaction does not check the row it has locked.
RepairBaseMovedNever(r) == FALSE

BehindReplacement(r) ==
  ~IsFullState(batch[r]) /\ cursor[r] # NoCursor /\ cursor[r] < Resolved(r).replacement

RepairBaseMoved(r) == IsRepair(batch[r]) /\ cursor[r] # trow[r].lastSeq

\* Faulty variant: the wipe forgets the sequence counter.
WipedForgettingSeq(w) == NewState

Wiped(w) == [NewState EXCEPT !.lastSeq = w.lastSeq]

\* SELECT ... FOR UPDATE, with the checks and the clean slate that follow it.
LockRow(r) ==
  /\ stage[r] = "began"
  /\ RowIsOurs(r)
  /\ holder' = r
  /\ stage' = [stage EXCEPT ![r] = "working"]
  /\ \/ /\ BehindReplacement(r)
        /\ results' = [results EXCEPT ![r] = Every(batch[r], "FENCED")]
        /\ trow' = [trow EXCEPT ![r] = Resolved(r)]
        /\ UNCHANGED view
     \/ /\ RepairBaseMoved(r)
        /\ results' = [results EXCEPT ![r] = Every(batch[r], "REPAIR_STALE")]
        /\ trow' = [trow EXCEPT ![r] = Resolved(r)]
        /\ UNCHANGED view
     \/ /\ wipe[r]
        /\ DOMAIN view[r] \subseteq DOMAIN log
        /\ trow' = [trow EXCEPT ![r] = Wiped(@)]
        /\ view' = [view EXCEPT ![r] = Nothing]
        /\ UNCHANGED results
     \/ /\ ~BehindReplacement(r)
        /\ ~RepairBaseMoved(r)
        /\ ~wipe[r]
        /\ trow' = [trow EXCEPT ![r] = Resolved(r)]
        /\ UNCHANGED <<view, results>>
  /\ UNCHANGED <<log, row, storage, dedup, batch, cursor, wipe, occupied, cut, stale,
                 wiping, sweepTo, ghosts>>

(***************************************************************************)
(* processOperation, for the next operation of the batch.                  *)
(***************************************************************************)
Index(r) == Len(results[r]) + 1
Working(r) == stage[r] = "working" /\ Index(r) <= Len(batch[r])
Repeated(r) == \E i \in 1..(Index(r) - 1) : batch[r][i] = batch[r][Index(r)]

\* Faulty variant: the operation table is not asked for the id.
RejectionWithoutIdCheck(r) ==
  CASE Repeated(r) -> "DUPLICATE"
    [] ~Repeated(r) /\ Conflicts(view[r], batch[r][Index(r)]) -> "CONFLICT"
    [] OTHER -> "NONE"

Rejection(r) ==
  LET o == batch[r][Index(r)]
      exact == view[r][SeqOf(view[r], o)].known = cursor[r]
  IN  CASE Repeated(r) -> "DUPLICATE"
        [] ~Repeated(r) /\ o \in StoredIds(view[r]) ->
             IF IsRepair(batch[r]) /\ ~exact THEN "INVALID_OP_ID" ELSE "DUPLICATE"
        [] ~Repeated(r) /\ o \notin StoredIds(view[r]) /\ o \in occupied[r] -> "INVALID_OP_ID"
        [] ~Repeated(r) /\ o \notin StoredIds(view[r]) /\ o \notin occupied[r]
             /\ Conflicts(view[r], o) -> "CONFLICT"
        [] OTHER -> "NONE"

Reject(r) ==
  /\ Working(r)
  /\ Rejection(r) # "NONE"
  /\ results' = [results EXCEPT ![r] = Append(@, Result(Rejection(r), 0))]
  /\ UNCHANGED <<log, row, holder, storage, dedup, stage, batch, cursor, wipe, occupied,
                 cut, stale, view, trow, wiping, sweepTo, ghosts>>

\* The row after operation o is stored at seq, in a transaction that sees l.
RowAfter(w, l, o, known, seq) ==
  [lastSeq     |-> seq,
   replacement |-> IF Content[o].kind \in Imports THEN seq ELSE w.replacement,
   fullSeq     |-> IF Causal(Content[o].kind, known) THEN seq ELSE w.fullSeq,
   fullClock   |-> IF Causal(Content[o].kind, known) THEN FullStateClock(l, o)
                   ELSE w.fullClock]

\* lastSeq + 1, the pruned insert, the full-state marker, the replacement marker.
Accept(r) ==
  LET o   == batch[r][Index(r)]
      seq == trow[r].lastSeq + 1
      new == [id |-> o, known |-> cursor[r], clock |-> StoredClock(view[r], o, cursor[r])]
  IN  /\ Working(r)
      /\ Rejection(r) = "NONE"
      /\ RowIsOurs(r)
      /\ holder' = r
      /\ view' = [view EXCEPT ![r] = [s \in DOMAIN @ \cup {seq} |-> IF s = seq THEN new ELSE @[s]]]
      /\ trow' = [trow EXCEPT ![r] = RowAfter(@, view[r], o, cursor[r], seq)]
      /\ results' = [results EXCEPT ![r] = Append(@, Result("ACCEPTED", seq))]
      /\ UNCHANGED <<log, row, storage, dedup, stage, batch, cursor, wipe, occupied, cut,
                     stale, wiping, sweepTo, ghosts>>

Inserted(r) == {s \in DOMAIN view[r] : s > row.lastSeq}

Commit(r) ==
  /\ stage[r] = "working"
  /\ Len(results[r]) = Len(batch[r])
  /\ LET kept == IF wipe[r] THEN {} ELSE DOMAIN log
     IN  log' = [s \in kept \cup Inserted(r) |-> IF s \in Inserted(r) THEN view[r][s] ELSE log[s]]
  /\ row' = IF holder = r THEN trow[r] ELSE row
  /\ stale' = [q \in Request |->
       stale[q] \/ (q # r /\ stage[q] \in InTransaction /\ row' # row)]
  /\ holder' = IF holder = r THEN Nobody ELSE holder
  /\ stage' = [stage EXCEPT ![r] = IF wipe[r] THEN "committed" ELSE "finishing"]
  /\ published' = published \cup {<<s, view[r][s].id>> : s \in Inserted(r)}
  /\ imports' = imports \cup (ImportRows(view[r]) \cap Inserted(r))
  /\ wipedAt' = IF wipe[r] THEN row.lastSeq ELSE wipedAt
  /\ UNCHANGED <<storage, dedup, batch, cursor, wipe, occupied, cut, view, trow, results,
                 wiping, sweepTo>>

(***************************************************************************)
(* The transaction fails: 40001 at the row (or at a clean slate whose rows *)
(* a cleanup deleted meanwhile), or a timeout.  Every result becomes a     *)
(* transient failure.                                                      *)
(***************************************************************************)

\* Faulty variant: the results collected before the failure are returned.
ResultsOfFailureKept(r) ==
  results[r] \o [i \in 1..(Len(batch[r]) - Len(results[r])) |-> Result("ROLLED_BACK", 0)]

ResultsOfFailure(r) == Every(batch[r], "ROLLED_BACK")

AtTheRow(r) ==
  stage[r] = "began" \/ (Working(r) /\ Rejection(r) = "NONE" /\ holder # r)

LostTheRace(r) ==
  \/ AtTheRow(r) /\ stale[r] /\ holder = Nobody
  \/ stage[r] = "began" /\ wipe[r] /\ ~(DOMAIN view[r] \subseteq DOMAIN log)

Abort(r) ==
  /\ stage[r] \in InTransaction
  /\ LostTheRace(r) \/ "timeout" \in Events
  /\ holder' = IF holder = r THEN Nobody ELSE holder
  /\ results' = [results EXCEPT ![r] = ResultsOfFailure(r)]
  /\ stage' = [stage EXCEPT ![r] = "finishing"]
  /\ UNCHANGED <<log, row, storage, dedup, batch, cursor, wipe, occupied, cut, stale, view,
                 trow, wiping, sweepTo, ghosts>>

-----------------------------------------------------------------------------
\* After a clean slate has committed, the process drops its cached results.
ClearCaches(r) ==
  /\ stage[r] = "committed"
  /\ dedup' = [dedup EXCEPT ![Home[r]] = Nothing]
  /\ stage' = [stage EXCEPT ![r] = "finishing"]
  /\ UNCHANGED <<log, row, holder, storage, batch, cursor, wipe, occupied, cut, stale, view,
                 trow, results, wiping, sweepTo, ghosts>>

\* POST /snapshot turns a duplicate of a stored id into the success it repeats.
FinalResults(r) ==
  IF IsFullState(batch[r]) /\ results[r][1].code = "DUPLICATE" /\ batch[r][1] \in StoredIds(log)
  THEN <<Result("ACCEPTED", SeqOf(log, batch[r][1]))>>
  ELSE results[r]

Cacheable(b, rs) ==
  "requestId" \in Events /\ \A i \in 1..Len(rs) :
     rs[i].code \notin Transient /\ (IsFullState(b) => rs[i].code # "DUPLICATE")

(***************************************************************************)
(* The device row has been touched (an await after the commit): the        *)
(* storage lock is released, the results are cached and sent.              *)
(***************************************************************************)
Finish(r) ==
  LET final == FinalResults(r)
      key   == Key(batch[r], cursor[r], wipe[r])
      cache == dedup[Home[r]]
  IN  /\ stage[r] = "finishing"
      /\ ReleaseStorage(r)
      /\ dedup' = IF Cacheable(batch[r], final)
                  THEN [dedup EXCEPT ![Home[r]] =
                          [k \in DOMAIN cache \cup {key} |-> IF k = key THEN final ELSE cache[k]]]
                  ELSE dedup
      /\ Forget(r)
      /\ UNCHANGED <<log, row, holder, wiping, sweepTo, ghosts>>

-----------------------------------------------------------------------------
(***************************************************************************)
(* DELETE /data: one transaction that first takes the row lock, then the   *)
(* process's caches.  It does not take the storage lock.                   *)
(***************************************************************************)
DeleteAllUserData(p) ==
  /\ "wipe" \in Events
  /\ holder = Nobody
  /\ p \notin wiping
  /\ log' = Nothing
  /\ row' = Wiped(row)
  /\ stale' = [q \in Request |-> stage[q] \in InTransaction]
  /\ wiping' = wiping \cup {p}
  /\ imports' = {}
  /\ wipedAt' = row.lastSeq
  /\ UNCHANGED <<holder, storage, dedup, stage, batch, cursor, wipe, occupied, cut, view,
                 trow, results, sweepTo, published>>

ClearWipedCaches(p) ==
  /\ p \in wiping
  /\ dedup' = [dedup EXCEPT ![p] = Nothing]
  /\ wiping' = wiping \ {p}
  /\ UNCHANGED <<log, row, holder, storage, stage, batch, cursor, wipe, occupied, cut,
                 stale, view, trow, results, sweepTo, ghosts>>

\* A cached result expires, or is evicted.
Expire(p, key) ==
  /\ "expiry" \in Events
  /\ dedup' = [dedup EXCEPT ![p] = [k \in DOMAIN @ \ {key} |-> @[k]]]
  /\ UNCHANGED <<log, row, holder, storage, stage, batch, cursor, wipe, occupied, cut,
                 stale, view, trow, results, wiping, sweepTo, ghosts>>

(***************************************************************************)
(* The retention sweep deletes everything below a causal full-state row,   *)
(* whole, in ascending windows that commit one by one; it may fail between *)
(* two of them, and takes neither lock.  (A boundary is only used when all *)
(* rows below it are old enough; later rows only appear above it.)         *)
(***************************************************************************)

Boundaries(l) == {s \in CausalRows(l) : s > 1}

StartSweep(s) ==
  /\ "sweep" \in Events
  /\ sweepTo = 0
  /\ s \in Boundaries(log)
  /\ \E t \in DOMAIN log : t < s
  /\ sweepTo' = s
  /\ UNCHANGED <<log, row, holder, storage, dedup, stage, batch, cursor, wipe, occupied,
                 cut, stale, view, trow, results, wiping, ghosts>>

SweepWindow(end) ==
  /\ sweepTo # 0
  /\ end \in 2..sweepTo
  /\ log' = From(log, end)
  /\ log' # log
  /\ UNCHANGED <<row, holder, storage, dedup, stage, batch, cursor, wipe, occupied, cut,
                 stale, view, trow, results, wiping, sweepTo, ghosts>>

StopSweep ==
  /\ sweepTo # 0
  /\ sweepTo' = 0
  /\ UNCHANGED <<log, row, holder, storage, dedup, stage, batch, cursor, wipe, occupied,
                 cut, stale, view, trow, results, wiping, ghosts>>

(***************************************************************************)
(* A process restarts: its handlers and caches are gone, its transactions  *)
(* roll back.                                                              *)
(***************************************************************************)
Restart(p) ==
  LET alive(r) == Home[r] # p
      Keep(f, default) == [r \in Request |-> IF alive(r) THEN f[r] ELSE default]
  IN  /\ "restart" \in Events
      /\ \E r \in Request : ~alive(r) /\ stage[r] # "idle"
      /\ stage' = Keep(stage, "idle")
      /\ batch' = Keep(batch, <<>>)
      /\ cursor' = Keep(cursor, NoCursor)
      /\ wipe' = Keep(wipe, FALSE)
      /\ occupied' = Keep(occupied, {})
      /\ cut' = Keep(cut, 0)
      /\ stale' = Keep(stale, FALSE)
      /\ view' = Keep(view, Nothing)
      /\ trow' = Keep(trow, NewState)
      /\ results' = Keep(results, <<>>)
      /\ holder' = IF holder # Nobody /\ ~alive(holder) THEN Nobody ELSE holder
      /\ storage' = [storage EXCEPT ![p] = Nobody]
      /\ dedup' = [dedup EXCEPT ![p] = Nothing]
      /\ wiping' = wiping \ {p}
      /\ UNCHANGED <<log, row, sweepTo, ghosts>>

-----------------------------------------------------------------------------
Handle(r) ==
  \/ EnterStorageLock(r)
  \/ AnswerRetry(r) \/ RefuseSnapshot(r) \/ AdmitSnapshot(r)
  \/ QuotaShort(r) \/ SeeTwoRestorePoints(r) \/ ReadOldestRestorePoint(r)
  \/ DeleteRestorePoint(r) \/ QuotaExceeded(r)
  \/ Begin(r) \/ LockRow(r) \/ Reject(r) \/ Accept(r) \/ Commit(r) \/ Abort(r)
  \/ ClearCaches(r) \/ Finish(r)

Next ==
  \/ \E r \in Request, q \in Uploads \cup Snapshots : Receive(r, q)
  \/ \E r \in Request : Handle(r)
  \/ \E p \in Process : DeleteAllUserData(p) \/ ClearWipedCaches(p) \/ Restart(p)
  \/ \E p \in Process : \E key \in DOMAIN dedup[p] : Expire(p, key)
  \/ \E s \in DOMAIN log : StartSweep(s)
  \/ \E end \in 1..sweepTo : SweepWindow(end)
  \/ StopSweep

Spec == Init /\ [][Next]_vars

\* Both locks are granted in order of arrival (the promise chain of
\* runWithStorageUsageLock, PostgreSQL's lock queue), and handlers keep running.
FairSpec == Spec /\ \A r \in Request : SF_vars(Handle(r))

-----------------------------------------------------------------------------
(* Properties *)

\* Every variable has its type; sequence numbers in the log were allocated.
TypeOK ==
  /\ IsLog(log) /\ \A s \in DOMAIN log : s <= row.lastSeq
  /\ row \in SyncState
  /\ holder \in Request \cup {Nobody}
  /\ storage \in [Process -> Request \cup {Nobody}]
  /\ DOMAIN dedup = Process
  /\ stage \in [Request -> {"idle", "queued", "admitted", "checked", "freeing", "deleting",
                            "began", "working", "committed", "finishing"}]
  /\ batch \in [Request -> Seq(Op)]
  /\ cursor \in [Request -> Cursors]
  /\ wipe \in [Request -> BOOLEAN]
  /\ occupied \in [Request -> SUBSET Op]
  /\ cut \in [Request -> Nat]
  /\ stale \in [Request -> BOOLEAN]
  /\ DOMAIN view = Request /\ \A r \in Request : IsLog(view[r])
  /\ trow \in [Request -> SyncState]
  /\ results \in [Request -> Seq(Answer)]
  /\ \A r \in Request : Len(results[r]) <= Len(batch[r])
  /\ wiping \subseteq Process
  /\ sweepTo \in Nat
  /\ published \subseteq Nat \X Op
  /\ imports \subseteq Nat /\ wipedAt \in Nat

(***************************************************************************)
(* A committed operation is above everything committed before it, whatever *)
(* wipes, clean slates and restarts came between: a device that downloads  *)
(* what is above its cursor misses nothing, and no sequence number is used *)
(* twice (sync.service.ts: "PRESERVE lastSeq").                            *)
(***************************************************************************)
CommitsAboveEverything ==
  [][\A new \in published' \ published : \A old \in published : new[1] > old[1]]_vars

(***************************************************************************)
(* No lost update (ADR 4): of two neighbours among the retained operations *)
(* on an entity, the later was made knowing the earlier -- its clock       *)
(* covers the counter the earlier one was made at -- unless both are timer *)
(* batches.  It holds across racing transactions, clock pruning, wipes and *)
(* history deletion.                                                       *)
(***************************************************************************)
Neighbours(l, e) ==
  {n \in OnEntity(l, e) \X OnEntity(l, e) :
     n[1] < n[2] /\ \A u \in OnEntity(l, e) : ~(n[1] < u /\ u < n[2])}

Knows(o, p) == Content[o].clock[Content[p].client] >= Content[p].clock[Content[p].client]
BothTimers(o, p) == Content[o].kind = "TIME_DELTA" /\ Content[p].kind = "TIME_DELTA"

Informed(l) ==
  \A e \in Entity : \A n \in Neighbours(l, e) :
     \/ Content[l[n[2]].id].kind \in FullStateKinds
     \/ Content[l[n[1]].id].kind \in FullStateKinds
     \/ BothTimers(l[n[2]].id, l[n[1]].id)
     \/ Knows(l[n[2]].id, l[n[1]].id)

NoLostUpdate == Informed(log)

\* A stored clock keeps its author's own counter.
Authored(l) ==
  \A s \in DOMAIN l :
     LET o == Content[l[s].id] IN l[s].clock[o.client] = o.clock[o.client]

\* The history was written by this server.
ASSUME HistoryIsInformed == Informed(History) /\ Authored(History)

(***************************************************************************)
(* The state-replacement fence: an operation uploaded with a cursor was    *)
(* accepted only if its device had downloaded every import accepted before *)
(* it since the last wipe -- also when the import's row is gone, or the    *)
(* marker was still unresolved.                                            *)
(***************************************************************************)
Fenced(l, S) ==
  \A s \in DOMAIN l : \A i \in S :
     KindAt(l, s) \notin FullStateKinds /\ l[s].known # NoCursor /\ i < s
       => l[s].known >= i

FencedByImports == Fenced(log, imports)

\* The history was written by this server, and an import is pruned from it only with
\* everything before it, behind a newer checkpoint.
ASSUME HistoryIsFenced ==
  /\ Fenced(History, LostImports \cup ImportRows(History))
  /\ \A i \in LostImports :
       CausalRows(History) # {} /\ \A s \in DOMAIN History : i < s

(***************************************************************************)
(* History is only deleted behind a causal full-state operation: every     *)
(* sequence number committed since the last wipe is retained or superseded *)
(* by a retained checkpoint (sweep, quota cleanup and wipes interleaved).  *)
(***************************************************************************)
GapsAreSuperseded ==
  \A p \in published :
     p[1] > wipedAt => p[1] \in DOMAIN log \/ \E s \in CausalRows(log) : s > p[1]

(***************************************************************************)
(* What a client is told is accepted has been committed under the sequence *)
(* number it is told -- by the first reply, by the idempotent success of a *)
(* retry, and by every result kept for one -- whatever was rolled back.    *)
(***************************************************************************)
Committed(b, rs) == \A a \in AcceptedIn(b, rs) : <<a[2], a[1]>> \in published

AnswersAreTrue ==
  /\ \A r \in Request : stage[r] = "finishing" => Committed(batch[r], FinalResults(r))
  /\ \A p \in Process : \A key \in DOMAIN dedup[p] : Committed(key.batch, dedup[p][key])

(***************************************************************************)
(* The full-state marker a download starts from is the newest checkpoint   *)
(* retained, or none, and its clock covers every row at or below it        *)
(* (#8973): a device that resets to it does not conflict with those rows.  *)
(***************************************************************************)
MarkerCoversHistory ==
  row.fullSeq # 0 =>
    /\ row.fullSeq = Newest(CausalRows(log))
    /\ \A s \in DOMAIN log : \A c \in Client :
         s <= row.fullSeq => log[s].clock[c] <= row.fullClock[c]

\* A causal REPAIR includes everything committed before it: no operation got
\* between the base it was computed from and its own sequence number.
RepairsIncludeEverything ==
  \A s \in DOMAIN log \ DOMAIN History :
     KindAt(log, s) = "REPAIR" /\ log[s].known # NoCursor => log[s].known = s - 1

\* An operation id is stored at most once, however often it is sent again.
Once(l) == \A s, t \in DOMAIN l : l[s].id = l[t].id => s = t

StoredOnce == Once(log)

ASSUME HistoryIsOnce == Once(History)

(***************************************************************************)
(* sync.service.ts, deleteAllUserData: the caches are cleared "so a retry  *)
(* of an ops-upload from the pre-wipe state cannot resurrect its cached    *)
(* results post-wipe".  Once they are cleared, no request is answered with *)
(* results of before the wipe.  It does not hold: README, section 5.       *)
(***************************************************************************)
CachesCleared == wiping = {} /\ \A r \in Request : stage[r] # "committed"

RetriesForgetWipedResults ==
  CachesCleared =>
    \A p \in Process, q \in Uploads :
      CacheAnswers(p, q.b, q.k, q.w) =>
        \A a \in AcceptedIn(q.b, dedup[p][Key(q.b, q.k, q.w)]) : a[2] > wipedAt

(***************************************************************************)
(* Every request is answered: no handler waits for ever on the storage     *)
(* lock or the row lock, whichever early return, refusal or abort the one  *)
(* before it took.                                                         *)
(***************************************************************************)
EveryRequestIsAnswered ==
  \A r \in Request : stage[r] # "idle" ~> stage[r] = "idle"
=============================================================================
