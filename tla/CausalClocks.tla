----------------------------- MODULE CausalClocks -----------------------------
(***************************************************************************)
(* Devices of one account exchange operations through the server's log.    *)
(* Every decision is taken on bounded vector clocks (SyncClock): the       *)
(* server accepts an operation when its clock dominates the latest one on  *)
(* the same entity, and a device keeps a remote operation when it survives *)
(* the latest full-state import.  The model carries, beside each clock,    *)
(* the true causal past of the operation, so that the properties can       *)
(* compare what the clocks say with what really happened.                  *)
(*                                                                         *)
(* Left out: payloads, conflict resolution by timestamp (a rejected        *)
(* operation is re-created with merged clocks, as                          *)
(* superseded-operation-resolver does), REPAIR operations, the aggregated  *)
(* snapshot clock of a download, and compaction and restarts of a device   *)
(* (the hydrator merges the clock of a stored import when it replays it).  *)
(***************************************************************************)
EXTENDS SyncClock

CONSTANTS Device,      \* the devices of the account
          Entity,      \* entities an ordinary operation may touch
          FirstId,     \* the client id each device starts with
          Migrates,    \* devices create SYNC_IMPORTs (server migration, force upload)
          Fenced,      \* uploads carry lastKnownServerSeq (SuperSync clients do;
                       \* the field is optional, and file-based sync has none)
          MaxOps,      \* bound: operations ever created
          MaxCounter,  \* bound: counter a client id reaches
          MaxImports   \* bound: full-state imports

ASSUME FirstIdAssumption ==
  /\ FirstId \in [Device -> Client]
  /\ \A d, e \in Device : FirstId[d] = FirstId[e] => d = e

ASSUME FlagsAssumption == Fenced \in BOOLEAN /\ Migrates \in BOOLEAN

ASSUME EntityAssumption == Entity # {}

ASSUME BoundsAssumption == {MaxOps, MaxCounter, MaxImports} \subseteq Nat

VARIABLES issued,   \* operation ids handed out so far
          ident,    \* ident[d]: the current client id of device d
          minted,   \* client ids ever in use
          clock,    \* clock[d]: the durable vector clock of device d
          author,   \* author[d]: author of the latest full-state op d has stored
          known,    \* known[d]: operations whose effect is in d's state
          stored,   \* stored[d]: keys and clocks of the operations in d's local log
          cursor,   \* cursor[d]: how far d has read the server's log
          pending,  \* pending[d]: operations of d not yet uploaded
          log       \* the server's operations, in server order

vars == <<issued, ident, minted, clock, author, known, stored, cursor, pending, log>>

ImportKinds == {"SYNC_IMPORT", "BACKUP_IMPORT"}

\* The id of a new operation (uuidv7): no other operation, ever, has it.
NewKey == issued + 1

NewOp(own, kind, entity, opClock, past) ==
  [key |-> NewKey, client |-> own, kind |-> kind, entity |-> entity,
   clock |-> opClock, past |-> past \cup {NewKey}]

IsImport(op) == op.kind \in ImportKinds

\* What the model keeps of an operation in a local operation log.
Entry(op) == [key |-> op.key, import |-> IsImport(op), clock |-> op.clock]

\* Positions of imports in the log; an import is uploaded as a clean slate,
\* so the server retains the log from the latest import on.
ImportPositions == {i \in 1..Len(log) : IsImport(log[i])}
LastImport ==
  IF ImportPositions = {} THEN 0
  ELSE CHOOSE i \in ImportPositions : \A j \in ImportPositions : j <= i
Retained == {i \in 1..Len(log) : i >= LastImport}

ServerAuthor == IF LastImport = 0 THEN <<>> ELSE <<log[LastImport].client>>

\* detectConflictForEntity looks at the latest retained operation on the entity.
OnEntity(e) == {i \in Retained : ~IsImport(log[i]) /\ log[i].entity = e}
LatestOn(e) == CHOOSE i \in OnEntity(e) : \A j \in OnEntity(e) : j <= i

\* Bounds: room for one more operation, and for one more import.
HasRoom == issued < MaxOps
WaitingImports ==
  {w \in Device \X (1..MaxOps) :
      w[2] <= Len(pending[w[1]]) /\ IsImport(pending[w[1]][w[2]])}
HasImportRoom ==
  HasRoom /\ Cardinality(ImportPositions) + Cardinality(WaitingImports) < MaxImports

-----------------------------------------------------------------------------
Init ==
  /\ issued = 0
  /\ ident = FirstId
  /\ minted = {FirstId[d] : d \in Device}
  /\ clock = [d \in Device |-> EmptyClock]
  /\ author = [d \in Device |-> <<>>]
  /\ known = [d \in Device |-> {}]
  /\ stored = [d \in Device |-> {}]
  /\ cursor = [d \in Device |-> 0]
  /\ pending = [d \in Device |-> <<>>]
  /\ log = <<>>

(***************************************************************************)
(* A local edit: its clock is the durable clock with the own counter       *)
(* incremented, and becomes the durable clock as it is, unpruned.          *)
(***************************************************************************)
Capture(d, e) ==
  LET own == ident[d]
      op  == NewOp(own, "UPDATE", e, Increment(clock[d], own), known[d])
  IN  /\ pending[d] = <<>>
      /\ HasRoom
      /\ clock[d][own] < MaxCounter
      /\ issued' = NewKey
      /\ pending' = [pending EXCEPT ![d] = <<op>>]
      /\ clock' = [clock EXCEPT ![d] = op.clock]
      /\ known' = [known EXCEPT ![d] = @ \cup {op.key}]
      /\ stored' = [stored EXCEPT ![d] = @ \cup {Entry(op)}]
      /\ UNCHANGED <<ident, minted, author, cursor, log>>

\* The least clock that covers a non-empty set of clocks.
MergeAll(clocks) ==
  [c \in Client |-> CHOOSE m \in {v[c] : v \in clocks} : \A v \in clocks : v[c] <= m]

\* The durable clock merged with every operation of the local log.
LocalClock(d) == MergeAll({clock[d]} \cup {e.clock : e \in stored[d]})

\* Edits a full-state operation includes are acknowledged with its upload;
\* full-state operations are uploaded one by one, in the order of the log.
\* The queue holds at most one edit, its last element, which the import replaces.
\* Faulty variant: the edits stay in the upload queue.
QueueKeepingEdits(d, op) == Append(pending[d], op)
QueueAfterImport(d, op) ==
  LET queue == pending[d]
  IN  IF queue # <<>> /\ ~IsImport(queue[Len(queue)])
      THEN [queue EXCEPT ![Len(queue)] = op]
      ELSE Append(queue, op)

(***************************************************************************)
(* A SYNC_IMPORT of the device's state (server migration, force upload):   *)
(* its clock merges every local operation's, increments the own counter    *)
(* and is pruned keeping the own id and the author of the import it        *)
(* supersedes.  It is appended to the local log alone: the durable clock   *)
(* stays behind it.  Local operations it includes are no longer uploaded.  *)
(***************************************************************************)
SyncImport(d) ==
  LET own == ident[d]
      importClock == BoundOwnClock(Increment(LocalClock(d), own), own, author[d])
      op == NewOp(own, "SYNC_IMPORT", CHOOSE e \in Entity : TRUE, importClock, known[d])
  IN  /\ Migrates
      /\ HasImportRoom
      /\ importClock[own] <= MaxCounter
      /\ issued' = NewKey
      /\ pending' = [pending EXCEPT ![d] = QueueAfterImport(d, op)]
      /\ known' = [known EXCEPT ![d] = @ \cup {op.key}]
      /\ stored' = [stored EXCEPT ![d] = @ \cup {Entry(op)}]
      /\ author' = [author EXCEPT ![d] = <<own>>]
      /\ UNCHANGED <<ident, minted, clock, cursor, log>>

(***************************************************************************)
(* A BACKUP_IMPORT replaces the whole local store and rotates the client   *)
(* id: the new baseline has the clock {newId: 1}.  (The SYNC_IMPORT of a   *)
(* clean slate is written the same way.)                                   *)
(***************************************************************************)
BackupImport(d, id) ==
  LET op == NewOp(id, "BACKUP_IMPORT", CHOOSE e \in Entity : TRUE,
                  Increment(EmptyClock, id), {})
  IN  /\ id \notin minted
      /\ HasImportRoom
      /\ issued' = NewKey
      /\ ident' = [ident EXCEPT ![d] = id]
      /\ minted' = minted \cup {id}
      /\ pending' = [pending EXCEPT ![d] = <<op>>]
      /\ clock' = [clock EXCEPT ![d] = op.clock]
      /\ known' = [known EXCEPT ![d] = {op.key}]
      /\ stored' = [stored EXCEPT ![d] = {Entry(op)}]
      /\ author' = [author EXCEPT ![d] = <<id>>]
      /\ UNCHANGED <<cursor, log>>

-----------------------------------------------------------------------------
(* The server: conflict detection on the full clock, pruning before storage. *)

\* Faulty variant: the import author is not protected.
StoredClockUploaderOnly(op) == LimitClock(op.clock, <<op.client>>)

StoredClock(op) ==
  LimitClock(op.clock,
             <<op.client>> \o IF IsImport(op) THEN <<>> ELSE ServerAuthor)

\* Faulty variant: the clock is pruned before it is compared.
ConflictsAfterPruning(op) ==
  /\ ~IsImport(op)
  /\ OnEntity(op.entity) # {}
  /\ LET latest == log[LatestOn(op.entity)]
     IN  Compare(StoredClock(op), latest.clock) # "GREATER_THAN"

Conflicts(op) ==
  /\ ~IsImport(op)
  /\ OnEntity(op.entity) # {}
  /\ LET latest == log[LatestOn(op.entity)]
         comparison == Compare(op.clock, latest.clock)
     IN  ~ \/ comparison = "GREATER_THAN"
           \/ comparison = "EQUAL" /\ op.client = latest.client

\* Faulty variant: no state-replacement fence.
PassesNoFence(d, op) == TRUE

\* uploadOps refuses a batch whose cursor is below the latest import.
PassesFence(d, op) == Fenced /\ ~IsImport(op) => cursor[d] >= LastImport

\* The upload of an import also moves the device's cursor to it.
Upload(d) ==
  /\ pending[d] # <<>>
  /\ LET op == Head(pending[d])
     IN  /\ PassesFence(d, op)
         /\ ~Conflicts(op)
         /\ log' = Append(log, [op EXCEPT !.clock = StoredClock(op)])
         /\ pending' = [pending EXCEPT ![d] = Tail(@)]
         /\ cursor' = [cursor EXCEPT ![d] = IF IsImport(op) THEN Len(log') ELSE @]
  /\ UNCHANGED <<issued, ident, minted, clock, author, known, stored>>

(***************************************************************************)
(* A rejected upload.  When the device has already applied the operation   *)
(* it lost against, the local operation is re-created with the merge of    *)
(* the durable clock, its own clock and the existing clock the server      *)
(* returned; otherwise the device must download first and the operation    *)
(* is dropped by the conflict resolution of that download.                 *)
(***************************************************************************)
RejectedUpload(d) ==
  LET own == ident[d]
      op  == Head(pending[d])
      latest == log[LatestOn(op.entity)]
      merged == Increment(Merge(Merge(clock[d], op.clock), latest.clock), own)
      again  == NewOp(own, "UPDATE", op.entity, merged, known[d] \cup op.past)
  IN  /\ pending[d] # <<>>
      /\ PassesFence(d, op)
      /\ Conflicts(op)
      /\ \/ /\ latest.key \in known[d]
            /\ HasRoom
            /\ clock[d][own] < MaxCounter
            /\ issued' = NewKey
            /\ pending' = [pending EXCEPT ![d] = <<again>>]
            /\ clock' = [clock EXCEPT ![d] = again.clock]
            /\ known' = [known EXCEPT ![d] = @ \cup {again.key}]
            /\ stored' = [stored EXCEPT ![d] = @ \cup {Entry(again)}]
         \/ /\ latest.key \notin known[d]
            /\ pending' = [pending EXCEPT ![d] = <<>>]
            /\ UNCHANGED <<issued, clock, known, stored>>
      /\ UNCHANGED <<ident, minted, author, cursor, log>>

-----------------------------------------------------------------------------
(* Download of the next operation; a cursor below the latest import skips to it. *)

NextPosition(d) == IF cursor[d] < LastImport THEN LastImport ELSE cursor[d] + 1

\* The import the device filters against: the latest full-state op it has stored.
StoredImport(d) ==
  LET local == {i \in ImportPositions : \E e \in stored[d] : e.key = log[i].key}
  IN  {i \in local : \A j \in local : j <= i}

Survives(d, op) ==
  \A i \in StoredImport(d) :
     SurvivesImport(op.client, op.clock, log[i].client, log[i].clock)

(***************************************************************************)
(* A full-state import replaces the device's state, silently when nothing  *)
(* waits for upload (else the user is asked: SyncImport or UseRemote).     *)
(* Earlier full-state operations leave the local log.                      *)
(***************************************************************************)
ReceiveImport(d, i) ==
  LET op == log[i]
  IN  /\ IsImport(op)
      /\ pending[d] = <<>>
      /\ clock' = [clock EXCEPT ![d] =
           BoundOwnClock(ResetByImport(clock[d], ident[d], op.client, op.clock),
                         ident[d], <<op.client>>)]
      /\ author' = [author EXCEPT ![d] = <<op.client>>]
      /\ known' = [known EXCEPT ![d] = op.past]
      /\ stored' = [stored EXCEPT ![d] = {e \in @ : ~e.import} \cup {Entry(op)}]

ReceiveUpdate(d, i) ==
  LET op == log[i]
  IN  /\ ~IsImport(op)
      /\ Survives(d, op)
      /\ clock' = [clock EXCEPT ![d] =
           BoundOwnClock(Merge(@, op.clock), ident[d], author[d])]
      /\ known' = [known EXCEPT ![d] = @ \cup op.past]
      /\ stored' = [stored EXCEPT ![d] = @ \cup {Entry(op)}]
      /\ UNCHANGED author

DropFiltered(d, i) ==
  /\ ~IsImport(log[i])
  /\ ~Survives(d, log[i])
  /\ UNCHANGED <<clock, author, known, stored>>

\* The device's own operations are not sent back to it.
SkipOwn(d, i) ==
  /\ log[i].client = ident[d]
  /\ UNCHANGED <<clock, author, known, stored>>

\* With a full-state import still to upload, the conflict dialog comes first.
HoldsImport(d) == \E k \in 1..Len(pending[d]) : IsImport(pending[d][k])

Download(d) ==
  LET i == NextPosition(d)
  IN  /\ i <= Len(log)
      /\ ~HoldsImport(d)
      /\ cursor' = [cursor EXCEPT ![d] = i]
      /\ IF log[i].client = ident[d]
         THEN SkipOwn(d, i)
         ELSE ReceiveImport(d, i) \/ ReceiveUpdate(d, i) \/ DropFiltered(d, i)
      /\ UNCHANGED <<issued, ident, minted, pending, log>>

(***************************************************************************)
(* The conflict dialog's USE_REMOTE (forceDownloadRemoteState): edits      *)
(* waiting for upload are given up, and the local log and clock are        *)
(* rebuilt from the whole history the server retains, own operations       *)
(* included.                                                               *)
(***************************************************************************)
UseRemote(d) ==
  LET own      == ident[d]
      rebuilt  == MergeAll({log[i].clock : i \in Retained})
      survives(i) == \A j \in {LastImport} \ {0} :
         SurvivesImport(log[i].client, log[i].clock, log[j].client, log[j].clock)
      replayed == {i \in Retained : survives(i)}
      baseline == IF LastImport = 0 THEN rebuilt
                  ELSE ResetByImport(rebuilt, own, log[LastImport].client,
                                     log[LastImport].clock)
  IN  /\ pending[d] # <<>>
      /\ Retained # {}
      /\ HoldsImport(d) \/ cursor[d] < LastImport
      /\ clock' = [clock EXCEPT ![d] =
           BoundOwnClock(MergeAll({baseline} \cup
                                    {log[i].clock : i \in replayed \ {LastImport}}),
                         own, ServerAuthor)]
      /\ author' = [author EXCEPT ![d] = ServerAuthor]
      /\ known' = [known EXCEPT ![d] = UNION {log[i].past : i \in replayed}]
      /\ stored' = [stored EXCEPT ![d] = {Entry(log[i]) : i \in replayed}]
      /\ pending' = [pending EXCEPT ![d] = <<>>]
      /\ cursor' = [cursor EXCEPT ![d] = Len(log)]
      /\ UNCHANGED <<issued, ident, minted, log>>

Next ==
  \E d \in Device :
     \/ \E e \in Entity : Capture(d, e)
     \/ SyncImport(d)
     \/ \E id \in Client : BackupImport(d, id)
     \/ Upload(d)
     \/ RejectedUpload(d)
     \/ Download(d)
     \/ UseRemote(d)

Spec == Init /\ [][Next]_vars

-----------------------------------------------------------------------------
(* Properties *)

\* Every variable has its type (clocks, cursors and logs within the bounds), and
\* only imports wait for upload in front of another operation.
TypeOK ==
  /\ ident \in [Device -> Client]
  /\ minted \subseteq Client
  /\ clock \in [Device -> Clock]
  /\ issued \in 0..MaxOps
  /\ \A d \in Device : known[d] \subseteq 1..issued /\ cursor[d] \in 0..Len(log)
  /\ \A d \in Device : \A e \in stored[d] : e.key \in 1..issued /\ e.clock \in Clock
  /\ \A d \in Device : Len(author[d]) <= 1
  /\ \A d \in Device : \A k \in 1..Len(pending[d]) :
       k < Len(pending[d]) => IsImport(pending[d][k])
  /\ \A i, j \in 1..Len(log) : log[i].key = log[j].key => i = j

(***************************************************************************)
(* No silent lost update: of two retained edits of one entity, the later   *)
(* was made by a device whose state included the earlier one.  The server  *)
(* decides this (detectConflict) on pruned clocks only.                    *)
(***************************************************************************)
AcceptedEditsKnowEarlierOnes ==
  \A i, j \in Retained :
     (/\ i < j
      /\ ~IsImport(log[i])
      /\ ~IsImport(log[j])
      /\ log[i].entity = log[j].entity) => log[i].key \in log[j].past

(***************************************************************************)
(* The import filter is exact: an operation stored after an import         *)
(* survives it on every device if and only if its author had the import.   *)
(* Dropping one that knows the import loses an edit; keeping one that does *)
(* not resurrects state the import replaced (classifyOpAgainstSyncImport). *)
(***************************************************************************)
FilterKeepsExactlyInformedOps ==
  LastImport # 0 =>
    LET import == log[LastImport]
    IN  \A j \in (LastImport + 1)..Len(log) :
          SurvivesImport(log[j].client, log[j].clock, import.client, import.clock)
            <=> import.key \in log[j].past

(***************************************************************************)
(* No rejection loop: an operation re-created with the merged clocks is    *)
(* not rejected again by the operation it was rejected for, although the   *)
(* merge may hold more entries than the bound (the server must compare     *)
(* before it prunes, operation-upload.service.ts).                         *)
(***************************************************************************)
NoRejectionLoop ==
  [][\A d \in Device :
       RejectedUpload(d) /\ pending'[d] # <<>> => ~Conflicts(pending'[d][1])]_vars
=============================================================================
