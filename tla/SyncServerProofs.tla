--------------------------- MODULE SyncServerProofs ---------------------------
(***************************************************************************)
(* Theorems about SyncServer, for every set of operations, handlers and    *)
(* processes, every history and every choice of events.                    *)
(*                                                                         *)
(* The argument has four layers.  RowInv relates what each transaction saw *)
(* of the user_sync_state row to the row as it is; it is inductive with    *)
(* TypeOK and gives the sequence-number guarantees.  ViewInv relates what  *)
(* each transaction saw of the operations to the log, and gives the        *)
(* guarantee against lost updates.  The third layer is the history: an id  *)
(* is stored once, only superseded history disappears, a repair includes   *)
(* all that was committed before it, and the results of an upload, its     *)
(* retries included, are true.  The fourth is the row's two markers.       *)
(***************************************************************************)
EXTENDS SyncServer, SyncClockProofs

-----------------------------------------------------------------------------
(* Finite sets of numbers *)

\* Newest(S) is that greatest element.
LEMMA NewestOf ==
  ASSUME NEW S \in SUBSET Nat, IsFiniteSet(S), S # {}
  PROVE  Newest(S) \in S /\ \A t \in S : t <= Newest(S)
<1>1. \E s \in S : \A t \in S : t <= s
  BY FiniteMax
<1> QED
  BY <1>1 DEF Newest

\* Oldest(S) is a member of a finite set that is not empty.
LEMMA OldestOf ==
  ASSUME NEW S \in SUBSET Nat, IsFiniteSet(S), S # {}
  PROVE  Oldest(S) \in S /\ \A t \in S : Oldest(S) <= t
<1> DEFINE N == {n \in Int : 0 - n \in S}
           f == [x \in S |-> 0 - x]
<1>1. IsFiniteSet(N)
  <2>1. f \in [S -> N]
    OBVIOUS
  <2>2. ASSUME NEW n \in N PROVE 0 - n \in S /\ f[0 - n] = n
    OBVIOUS
  <2>3. f \in Surjection(S, N)
    BY <2>1, <2>2 DEF Surjection
  <2> QED
    BY <2>3, FS_Surjection
<1>2. PICK m \in N : \A n \in N : n <= m
  <2>1. PICK x \in S : TRUE
    OBVIOUS
  <2>2. 0 - x \in N
    OBVIOUS
  <2> QED
    BY <1>1, <2>2, FiniteMax
<1>3. 0 - m \in S
  OBVIOUS
<1>4. ASSUME NEW t \in S PROVE 0 - m <= t
  <2>1. 0 - t \in N
    OBVIOUS
  <2>2. 0 - t <= m
    BY <1>2, <2>1
  <2> QED
    BY <2>2
<1> QED
  BY <1>3, <1>4 DEF Oldest

-----------------------------------------------------------------------------
(* Types of the helpers *)

\* What deletion of a prefix leaves is a log, contained in the one before.
LEMMA FromIsLog ==
  ASSUME NEW l, IsLog(l), NEW n
  PROVE  /\ IsLog(From(l, n))
         /\ DOMAIN From(l, n) \subseteq DOMAIN l
         /\ \A s \in DOMAIN From(l, n) : From(l, n)[s] = l[s] /\ s >= n
BY FS_Subset DEF IsLog, From

\* The replacement marker resolves to a retained sequence number, or to 0.
LEMMA ResolveType ==
  ASSUME NEW l, IsLog(l)
  PROVE  Resolve(l) \in Nat
<1>1. /\ ImportRows(l) \in SUBSET Nat /\ IsFiniteSet(ImportRows(l))
      /\ CausalRows(l) \in SUBSET Nat /\ IsFiniteSet(CausalRows(l))
  BY FS_Subset DEF IsLog, ImportRows, CausalRows
<1>2. ImportRows(l) # {} => Newest(ImportRows(l)) \in Nat
  BY <1>1, NewestOf
<1>3. CausalRows(l) # {} => Newest(CausalRows(l)) \in Nat
  BY <1>1, NewestOf
<1> QED
  BY <1>2, <1>3 DEF Resolve

\* An operation's content is typed.
LEMMA ContentType ==
  ASSUME NEW o \in Op
  PROVE  /\ Content[o].clock \in Clock
         /\ Content[o].client \in Client
         /\ Content[o].entities \in SUBSET Entity
BY OpAssumption

\* The clock stored with an operation is a clock.
LEMMA StoredClockType ==
  ASSUME NEW l, NEW o \in Op, NEW known
  PROVE  StoredClock(l, o, known) \in Clock
BY ContentType, LimitClockType DEF StoredClock

\* The full-state marker's clock is a clock that covers the rows and the operation.
LEMMA FullStateClockCovers ==
  ASSUME NEW l, IsLog(l), NEW o \in Op
  PROVE  /\ FullStateClock(l, o) \in Clock
         /\ \A c \in Client : /\ Content[o].clock[c] <= FullStateClock(l, o)[c]
                              /\ \A s \in DOMAIN l : l[s].clock[c] <= FullStateClock(l, o)[c]
<1> DEFINE counters(c) == {l[s].clock[c] : s \in DOMAIN l} \cup {Content[o].clock[c]}
           largest(c) == CHOOSE m \in counters(c) : \A n \in counters(c) : n <= m
<1>1. ASSUME NEW c \in Client
      PROVE  largest(c) \in Nat /\ \A n \in counters(c) : n <= largest(c)
  <2> DEFINE old == {l[s].clock[c] : s \in DOMAIN l}
             f == [s \in DOMAIN l |-> l[s].clock[c]]
  <2>1. \A s \in DOMAIN l : l[s].clock[c] \in Nat
    BY DEF IsLog, Row, Clock
  <2>2. f \in Surjection(DOMAIN l, old)
    BY DEF Surjection
  <2>3. IsFiniteSet(old)
    BY <2>2, FS_Surjection DEF IsLog
  <2>4. counters(c) \in SUBSET Int /\ Content[o].clock[c] \in counters(c)
    BY <2>1, ContentType DEF Clock
  <2>5. IsFiniteSet(counters(c))
    BY <2>3, FS_AddElement
  <2> HIDE DEF old
  <2>6. \E m \in counters(c) : \A n \in counters(c) : n <= m
    <3> HIDE DEF counters
    <3> QED BY <2>4, <2>5, FiniteMax
  <2>7. counters(c) \subseteq Nat
    BY <2>1, ContentType DEF Clock
  <2> HIDE DEF counters
  <2> QED
    BY <2>6, <2>7
<1>2. \A c \in Client : FullStateClock(l, o)[c] = largest(c)
  BY DEF FullStateClock
<1>3. FullStateClock(l, o) \in Clock
  <2>1. FullStateClock(l, o) = [c \in Client |-> largest(c)]
    BY DEF FullStateClock
  <2> HIDE DEF largest
  <2> QED
    BY <1>1, <2>1 DEF Clock
<1>4. ASSUME NEW c \in Client
      PROVE  /\ Content[o].clock[c] <= FullStateClock(l, o)[c]
             /\ \A s \in DOMAIN l : l[s].clock[c] <= FullStateClock(l, o)[c]
  <2>1. /\ Content[o].clock[c] \in counters(c)
        /\ \A s \in DOMAIN l : l[s].clock[c] \in counters(c)
    OBVIOUS
  <2> HIDE DEF largest, counters
  <2> QED
    BY <1>1, <1>2, <2>1
<1> QED
  BY <1>3, <1>4

\* A log with one more row is a log.
LEMMA LogWithRow ==
  ASSUME NEW l, IsLog(l), NEW seq \in Nat \ {0}, NEW new \in Row
  PROVE  IsLog([s \in DOMAIN l \cup {seq} |-> IF s = seq THEN new ELSE l[s]])
<1>1. IsFiniteSet(DOMAIN l \cup {seq})
  BY FS_AddElement DEF IsLog
<1> QED
  BY <1>1 DEF IsLog

-----------------------------------------------------------------------------
(***************************************************************************)
(* What each transaction saw of the row, against the row as it is: it is   *)
(* current as long as the transaction holds the lock, or no commit has     *)
(* changed the row since its snapshot; and whatever it inserts is above    *)
(* what is committed.                                                      *)
(***************************************************************************)
Transacting(r) == stage[r] \in InTransaction

SeesTheRow(r) ==
  /\ \A s \in DOMAIN view[r] : s <= trow[r].lastSeq
  /\ holder = r => row.lastSeq <= trow[r].lastSeq
  /\ holder # r => trow[r].lastSeq <= row.lastSeq /\ (stale[r] \/ trow[r] = row)

\* What a handler has done by the stage it is in.
BeforeProcessing ==
  {"idle", "queued", "admitted", "checked", "freeing", "deleting", "began"}

HandlerInv ==
  /\ \A r \in Request : stage[r] \in BeforeProcessing => results[r] = <<>>
  /\ \A r \in Request : stage[r] = "admitted" => IsFullState(batch[r])
  /\ \A r \in Request : stage[r] = "working" /\ NeedsRowLock(r) => holder = r
  /\ holder # Nobody => stage[holder] = "working"

RowInv ==
  /\ \A p \in published : p[1] <= row.lastSeq
  /\ \A r \in Request : Transacting(r) => SeesTheRow(r)

Inv == TypeOK /\ HandlerInv /\ RowInv

LEMMA InitInv == Init => Inv
<1> SUFFICES ASSUME Init PROVE Inv
  OBVIOUS
<1>1. EmptyClock \in Clock /\ NewState \in SyncState
  BY DEF EmptyClock, Clock, NewState, SyncState, Unresolved
<1>2. /\ row.lastSeq \in Nat
      /\ \A s \in DOMAIN History : s <= row.lastSeq
      /\ row \in SyncState
  <2>1. CASE History = Nothing
    <3>1. row.lastSeq = 0 /\ row = [NewState EXCEPT !.lastSeq = 0]
      BY <2>1 DEF Init, NewState
    <3>2. DOMAIN History = {}
      BY <2>1 DEF Nothing
    <3> QED
      BY <1>1, <3>1, <3>2 DEF SyncState
  <2>2. CASE History # Nothing
    <3>1. DOMAIN History \in SUBSET Nat /\ IsFiniteSet(DOMAIN History)
      BY HistoryAssumption DEF IsLog
    <3>2. DOMAIN History # {}
      BY <2>2, HistoryAssumption DEF IsLog, Nothing
    <3>3. row = [NewState EXCEPT !.lastSeq = Newest(DOMAIN History)]
      BY <2>2 DEF Init
    <3>4. row.lastSeq = Newest(DOMAIN History)
      BY <3>3 DEF NewState
    <3> QED
      BY <1>1, <3>1, <3>2, <3>3, <3>4, NewestOf DEF SyncState
  <2> QED
    BY <2>1, <2>2
<1>3. IsLog(Nothing)
  BY FS_EmptySet DEF IsLog, Nothing
<1>4. TypeOK
  <2>1. published \subseteq Nat \X Op /\ imports \subseteq Nat
    BY HistoryAssumption DEF Init, IsLog, Row, ImportRows
  <2>2. \A r \in Request : batch[r] = <<>> /\ results[r] = <<>>
    BY DEF Init
  <2>3. IsLog(log)
    BY HistoryAssumption DEF Init
  <2> QED
    BY <1>1, <1>2, <1>3, <2>1, <2>2, <2>3 DEF Init, TypeOK, Cursors, NoCursor
<1>5. RowInv
  BY <1>2 DEF Init, RowInv, Transacting, InTransaction
<1>6. HandlerInv
  BY DEF Init, HandlerInv
<1> QED
  BY <1>4, <1>5, <1>6 DEF Inv

-----------------------------------------------------------------------------
(* Each action preserves the invariant. *)

LEMMA StutterInv == ASSUME Inv, UNCHANGED vars PROVE Inv'
<1>1. TypeOK'
  BY DEF Inv, TypeOK, IsLog, vars
<1>2. HandlerInv'
  BY DEF Inv, HandlerInv, NeedsRowLock, vars
<1>3. RowInv'
  BY DEF Inv, RowInv, Transacting, SeesTheRow, vars
<1> QED
  BY <1>1, <1>2, <1>3 DEF Inv

LEMMA ReceiveInv ==
  ASSUME Inv, NEW r \in Request, NEW q \in Uploads \cup Snapshots, Receive(r, q)
  PROVE  Inv'
<1>1. q.b \in Seq(Op) /\ q.k \in Cursors /\ q.w \in BOOLEAN
  <2>1. CursorsSoFar \subseteq Cursors
    BY DEF Inv, TypeOK, SyncState, CursorsSoFar, Cursors
  <2>2. CASE q \in Uploads
    BY <2>1, <2>2, BatchAssumption DEF Uploads
  <2>3. CASE q \in Snapshots
    <3>1. PICK o \in Op, k \in CursorsSoFar, w \in BOOLEAN : q = [b |-> <<o>>, k |-> k, w |-> w]
      BY <2>3 DEF Snapshots
    <3>2. <<o>> \in Seq(Op)
      OBVIOUS
    <3> QED
      BY <2>1, <3>1, <3>2
  <2> QED
    BY <2>2, <2>3
<1>2. TypeOK'
  <2>1. results[r] = <<>>
    BY DEF Inv, HandlerInv, BeforeProcessing, Receive
  <2>2. batch' \in [Request -> Seq(Op)] /\ cursor' \in [Request -> Cursors]
        /\ wipe' \in [Request -> BOOLEAN]
    BY <1>1 DEF Inv, TypeOK, Receive
  <2>3. \A t \in Request : Len(results'[t]) <= Len(batch'[t])
    BY <1>1, <2>1 DEF Inv, TypeOK, Receive
  <2> QED
    BY <2>2, <2>3 DEF Inv, TypeOK, IsLog, Receive, ghosts
<1>3. HandlerInv'
  BY RequestAssumption DEF Inv, TypeOK, HandlerInv, BeforeProcessing, NeedsRowLock, Receive
<1>4. RowInv'
  BY DEF Inv, TypeOK, RowInv, Transacting, InTransaction, SeesTheRow, Receive, ghosts
<1> QED
  BY <1>2, <1>3, <1>4 DEF Inv

LEMMA EnterStorageLockInv ==
  ASSUME Inv, NEW r \in Request, EnterStorageLock(r) PROVE Inv'
<1>1. Ids(batch[r]) \subseteq Op
  BY DEF Inv, TypeOK, Ids
<1>2. TypeOK'
  BY <1>1 DEF Inv, TypeOK, IsLog, EnterStorageLock, ghosts
<1>3. HandlerInv'
  BY DEF Inv, TypeOK, HandlerInv, BeforeProcessing, NeedsRowLock, EnterStorageLock
<1>4. RowInv'
  BY DEF Inv, TypeOK, RowInv, Transacting, InTransaction, SeesTheRow, EnterStorageLock, ghosts
<1> QED
  BY <1>2, <1>3, <1>4 DEF Inv

LEMMA AnswerRetryInv ==
  ASSUME Inv, NEW r \in Request, AnswerRetry(r) PROVE Inv'
<1> DEFINE o == batch[r][1]
           s == SeqOf(log, o)
<1>1. Len(batch[r]) = 1
  BY DEF Inv, HandlerInv, AnswerRetry, IsFullState
<1>2. s \in Nat
  <2>1. o \in StoredIds(log)
    BY DEF AnswerRetry, DurableRetry
  <2>2. \E t \in DOMAIN log : log[t].id = o
    BY <2>1 DEF StoredIds
  <2>3. s \in DOMAIN log
    BY <2>2 DEF SeqOf
  <2> QED
    BY <2>3 DEF Inv, TypeOK, IsLog
<1>3. results'[r] \in Seq(Answer) /\ Len(results'[r]) = 1
  <2>1. Result("ACCEPTED", s) \in Answer /\ Result("INVALID_OP_ID", 0) \in Answer
    BY <1>2 DEF Result, Answer, Codes
  <2>2. PICK a \in Answer : results' = [results EXCEPT ![r] = <<a>>]
    BY <2>1 DEF AnswerRetry
  <2> QED
    BY <2>2 DEF Inv, TypeOK
<1>4. TypeOK'
  <2>1. results' \in [Request -> Seq(Answer)]
    BY <1>3 DEF Inv, TypeOK, AnswerRetry
  <2>2. ASSUME NEW q \in Request PROVE Len(results'[q]) <= Len(batch'[q])
    <3>1. batch' = batch /\ (q # r => results'[q] = results[q])
      BY DEF Inv, TypeOK, AnswerRetry
    <3>2. CASE q = r
      BY <1>1, <1>3, <3>1, <3>2
    <3>3. CASE q # r
      BY <3>1, <3>3 DEF Inv, TypeOK
    <3> QED
      BY <3>2, <3>3
  <2> QED
    BY <2>1, <2>2 DEF Inv, TypeOK, IsLog, AnswerRetry, ghosts
<1>5. HandlerInv'
  BY DEF Inv, TypeOK, HandlerInv, BeforeProcessing, NeedsRowLock, AnswerRetry
<1>6. RowInv'
  BY DEF Inv, TypeOK, RowInv, Transacting, InTransaction, SeesTheRow, AnswerRetry, ghosts
<1> QED
  BY <1>4, <1>5, <1>6 DEF Inv

\* A handler that is not in a transaction may forget its request.
LEMMA ForgetInv ==
  ASSUME Inv, NEW r \in Request, Forget(r), stage[r] # "working",
         storage' \in [Process -> Request \cup {Nobody}], DOMAIN dedup' = Process,
         UNCHANGED <<log, row, holder, wiping, sweepTo, ghosts>>
  PROVE  Inv'
<1>1. NewState \in SyncState /\ IsLog(Nothing)
  BY FS_EmptySet DEF NewState, SyncState, EmptyClock, Clock, Unresolved, IsLog, Nothing
<1>2. TypeOK'
  <2>1. \A q \in Request : IsLog(view'[q])
    BY <1>1 DEF Inv, TypeOK, Forget
  <2>2. \A q \in Request : Len(results'[q]) <= Len(batch'[q])
    BY DEF Inv, TypeOK, Forget
  <2>3. IsLog(log') /\ \A s \in DOMAIN log' : s <= row'.lastSeq
    BY DEF Inv, TypeOK
  <2>4. batch' \in [Request -> Seq(Op)] /\ results' \in [Request -> Seq(Answer)]
    BY DEF Inv, TypeOK, Forget
  <2>5. trow' \in [Request -> SyncState] /\ cursor' \in [Request -> Cursors]
        /\ cut' \in [Request -> Nat] /\ DOMAIN view' = Request
    BY <1>1 DEF Inv, TypeOK, Forget, Cursors, NoCursor
  <2> QED
    BY <2>1, <2>2, <2>3, <2>4, <2>5 DEF Inv, TypeOK, Forget, ghosts
<1>3. HandlerInv'
  BY RequestAssumption DEF Inv, TypeOK, HandlerInv, BeforeProcessing, NeedsRowLock, Forget
<1>4. RowInv'
  BY DEF Inv, TypeOK, RowInv, Transacting, InTransaction, SeesTheRow, Forget, ghosts
<1> QED
  BY <1>2, <1>3, <1>4 DEF Inv

\* A handler that frees storage goes from one statement to the next.
Frees(r) ==
  \/ stage[r] = "checked" /\ stage' = [stage EXCEPT ![r] = "freeing"]
  \/ stage[r] = "freeing" /\ stage' = [stage EXCEPT ![r] = "deleting"]
  \/ stage[r] = "deleting" /\ stage' = [stage EXCEPT ![r] = "freeing"]

\* Deleting a prefix of the log, as quota cleanup and the sweep do.
LEMMA PrefixDeletedInv ==
  ASSUME Inv, NEW n, log' = From(log, n) \/ UNCHANGED log,
         UNCHANGED stage \/ \E r \in Request : Frees(r),
         cut' \in [Request -> Nat], sweepTo' \in Nat,
         UNCHANGED <<row, holder, storage, dedup, batch, cursor, wipe, occupied,
                     stale, view, trow, results, wiping, ghosts>>
  PROVE  Inv'
<1>1. IsLog(log') /\ \A s \in DOMAIN log' : s <= row.lastSeq
  BY FromIsLog DEF Inv, TypeOK
<1>2. TypeOK'
  BY <1>1 DEF Inv, TypeOK, IsLog, Frees, ghosts
<1>3. ASSUME NEW q \in Request
      PROVE  /\ Transacting(q)' <=> Transacting(q)
             /\ (stage'[q] \in BeforeProcessing) => (stage[q] \in BeforeProcessing)
             /\ (stage'[q] = "admitted") => (stage[q] = "admitted")
             /\ (stage'[q] = "working") <=> (stage[q] = "working")
  <2>1. CASE UNCHANGED stage
    BY <2>1 DEF Transacting
  <2>2. ASSUME NEW r \in Request, Frees(r)
        PROVE  /\ Transacting(q)' <=> Transacting(q)
               /\ (stage'[q] \in BeforeProcessing) => (stage[q] \in BeforeProcessing)
               /\ (stage'[q] = "admitted") => (stage[q] = "admitted")
               /\ (stage'[q] = "working") <=> (stage[q] = "working")
    <3>1. CASE q = r
      BY <2>2, <3>1 DEF Inv, TypeOK, Transacting, InTransaction, BeforeProcessing, Frees
    <3>2. CASE q # r
      BY <2>2, <3>2 DEF Inv, TypeOK, Transacting, Frees
    <3> QED
      BY <3>1, <3>2
  <2> QED
    BY <2>1, <2>2
<1>4. HandlerInv'
  BY <1>3 DEF Inv, TypeOK, HandlerInv, NeedsRowLock
<1>5. RowInv'
  BY <1>3 DEF Inv, RowInv, SeesTheRow, ghosts
<1> QED
  BY <1>2, <1>4, <1>5 DEF Inv

LEMMA RefuseSnapshotInv ==
  ASSUME Inv, NEW r \in Request, RefuseSnapshot(r) PROVE Inv'
<1>1. storage' \in [Process -> Request \cup {Nobody}]
  BY DEF Inv, TypeOK, RefuseSnapshot, ReleaseStorage
<1> QED
  BY <1>1, ForgetInv DEF Inv, TypeOK, RefuseSnapshot

LEMMA AdmitSnapshotInv ==
  ASSUME Inv, NEW r \in Request, AdmitSnapshot(r) PROVE Inv'
<1>1. TypeOK'
  BY DEF Inv, TypeOK, IsLog, AdmitSnapshot, ghosts
<1>2. HandlerInv'
  BY DEF Inv, TypeOK, HandlerInv, BeforeProcessing, NeedsRowLock, AdmitSnapshot
<1>3. RowInv'
  BY DEF Inv, TypeOK, RowInv, Transacting, InTransaction, SeesTheRow, AdmitSnapshot, ghosts
<1> QED
  BY <1>1, <1>2, <1>3 DEF Inv

LEMMA QuotaShortInv ==
  ASSUME Inv, NEW r \in Request, QuotaShort(r) \/ SeeTwoRestorePoints(r) PROVE Inv'
<1>1. cut' \in [Request -> Nat] /\ sweepTo' \in Nat
  BY DEF Inv, TypeOK, QuotaShort, SeeTwoRestorePoints
<1>2. Frees(r)
  BY DEF Frees, QuotaShort, SeeTwoRestorePoints
<1> QED
  BY <1>1, <1>2, PrefixDeletedInv DEF QuotaShort, SeeTwoRestorePoints

\* What may be deleted ends at, or just below, a row of the log.
LEMMA DeletableType ==
  ASSUME NEW l, IsLog(l) PROVE Deletable(l) \in Nat
<1>1. CASE CausalRows(l) = {}
  <2>1. ~TwoRestorePoints(l)
    BY <1>1, FS_EmptySet DEF TwoRestorePoints
  <2> QED
    BY <1>1, <2>1 DEF Deletable
<1>2. CASE CausalRows(l) # {}
  <2>1. CausalRows(l) \in SUBSET Nat /\ IsFiniteSet(CausalRows(l))
        /\ CausalRows(l) \subseteq Nat \ {0}
    BY FS_Subset DEF IsLog, CausalRows
  <2>2. Oldest(CausalRows(l)) \in CausalRows(l)
    BY <1>2, <2>1, OldestOf
  <2>3. Oldest(CausalRows(l)) \in Nat /\ Oldest(CausalRows(l)) - 1 \in Nat
    BY <2>1, <2>2
  <2> QED
    BY <1>2, <2>3 DEF Deletable
<1> QED
  BY <1>1, <1>2

LEMMA ReadOldestRestorePointInv ==
  ASSUME Inv, NEW r \in Request, ReadOldestRestorePoint(r) PROVE Inv'
<1>1. cut' \in [Request -> Nat] /\ sweepTo' \in Nat
  BY DeletableType DEF Inv, TypeOK, ReadOldestRestorePoint
<1> QED
  BY <1>1, PrefixDeletedInv DEF ReadOldestRestorePoint

LEMMA DeleteRestorePointInv ==
  ASSUME Inv, NEW r \in Request, DeleteRestorePoint(r) PROVE Inv'
<1>1. cut' \in [Request -> Nat] /\ sweepTo' \in Nat
  BY DEF Inv, TypeOK, DeleteRestorePoint
<1>2. Frees(r)
  BY DEF Frees, DeleteRestorePoint
<1> QED
  BY <1>1, <1>2, PrefixDeletedInv DEF DeleteRestorePoint

LEMMA QuotaExceededInv ==
  ASSUME Inv, NEW r \in Request, QuotaExceeded(r) PROVE Inv'
<1>1. storage' \in [Process -> Request \cup {Nobody}]
  BY DEF Inv, TypeOK, QuotaExceeded, ReleaseStorage
<1>2. stage[r] # "working"
  BY DEF QuotaExceeded, NothingToFree
<1> QED
  BY <1>1, <1>2, ForgetInv DEF Inv, TypeOK, QuotaExceeded

LEMMA BeginInv ==
  ASSUME Inv, NEW r \in Request, Begin(r) PROVE Inv'
<1>1. TypeOK'
  <2>1. \A q \in Request : IsLog(view'[q])
    BY DEF Inv, TypeOK, Begin
  <2> QED
    BY <2>1 DEF Inv, TypeOK, IsLog, Begin, ghosts
<1>2. HandlerInv'
  BY DEF Inv, TypeOK, HandlerInv, BeforeProcessing, NeedsRowLock, Begin
<1>3. RowInv'
  <2>1. holder # r
    BY RequestAssumption DEF Inv, HandlerInv, Begin
  <2>2. SeesTheRow(r)'
    BY <2>1 DEF Inv, TypeOK, SyncState, SeesTheRow, Begin
  <2>3. ASSUME NEW q \in Request, q # r, Transacting(q)' PROVE SeesTheRow(q)'
    BY <2>3 DEF Inv, TypeOK, RowInv, Transacting, SeesTheRow, Begin
  <2> QED
    BY <2>2, <2>3 DEF Inv, RowInv, Begin, ghosts
<1> QED
  BY <1>1, <1>2, <1>3 DEF Inv

\* The row a transaction sees keeps its sequence number when its marker is resolved.
LEMMA ResolvedType ==
  ASSUME Inv, NEW r \in Request
  PROVE  Resolved(r) \in SyncState /\ Resolved(r).lastSeq = trow[r].lastSeq
<1>1. trow[r] \in SyncState /\ Resolve(view[r]) \in Nat
  BY ResolveType DEF Inv, TypeOK
<1> QED
  BY <1>1 DEF Resolved, SyncState

LEMMA WipedType ==
  ASSUME NEW w \in SyncState
  PROVE  Wiped(w) \in SyncState /\ Wiped(w).lastSeq = w.lastSeq
BY DEF Wiped, NewState, SyncState, EmptyClock, Clock, Unresolved

\* As many results as operations, all of the same code.
LEMMA EveryType ==
  ASSUME NEW b \in Seq(Op), NEW code \in Codes
  PROVE  Every(b, code) \in Seq(Answer) /\ Len(Every(b, code)) = Len(b)
<1>1. Result(code, 0) \in Answer /\ Len(b) \in Nat
  BY DEF Result, Answer
<1> QED
  BY <1>1 DEF Every

LEMMA LockRowInv ==
  ASSUME Inv, NEW r \in Request, LockRow(r) PROVE Inv'
<1>1. /\ trow' \in [Request -> SyncState]
      /\ trow'[r].lastSeq = trow[r].lastSeq
      /\ \A q \in Request \ {r} : trow'[q] = trow[q]
  <2>1. PICK w \in SyncState : w.lastSeq = trow[r].lastSeq /\ trow' = [trow EXCEPT ![r] = w]
    <3>1. trow[r] \in SyncState
      BY DEF Inv, TypeOK
    <3>2. /\ Resolved(r) \in SyncState /\ Resolved(r).lastSeq = trow[r].lastSeq
          /\ Wiped(trow[r]) \in SyncState /\ Wiped(trow[r]).lastSeq = trow[r].lastSeq
      BY <3>1, ResolvedType, WipedType
    <3>3. \/ trow' = [trow EXCEPT ![r] = Resolved(r)]
          \/ trow' = [trow EXCEPT ![r] = Wiped(trow[r])]
      BY DEF LockRow
    <3> QED
      BY <3>2, <3>3
  <2> QED
    BY <2>1 DEF Inv, TypeOK
<1>2. /\ DOMAIN view' = Request
      /\ \A q \in Request : IsLog(view'[q])
      /\ DOMAIN view'[r] \subseteq DOMAIN view[r]
      /\ \A q \in Request \ {r} : view'[q] = view[q]
  <2>1. view' = view \/ view' = [view EXCEPT ![r] = Nothing]
    BY DEF LockRow
  <2>2. IsLog(Nothing) /\ DOMAIN Nothing = {}
    BY FS_EmptySet DEF IsLog, Nothing
  <2> QED
    BY <2>1, <2>2 DEF Inv, TypeOK
<1>3. /\ results' \in [Request -> Seq(Answer)]
      /\ \A q \in Request : Len(results'[q]) <= Len(batch[q])
      /\ \A q \in Request \ {r} : results'[q] = results[q]
  <2>1. \A code \in Codes : Every(batch[r], code) \in Seq(Answer)
                            /\ Len(Every(batch[r], code)) = Len(batch[r])
    BY EveryType DEF Inv, TypeOK
  <2>2. \/ results' = results
        \/ \E code \in Codes : results' = [results EXCEPT ![r] = Every(batch[r], code)]
    BY DEF LockRow, Codes
  <2>3. PICK rs \in Seq(Answer) :
          Len(rs) <= Len(batch[r]) /\ results' = [results EXCEPT ![r] = rs]
    <3>1. CASE results' = results
      <4>1. results[r] \in Seq(Answer) /\ Len(results[r]) <= Len(batch[r])
            /\ results' = [results EXCEPT ![r] = results[r]]
        BY <3>1 DEF Inv, TypeOK
      <4> QED
        BY <4>1
    <3>2. ASSUME NEW code \in Codes, results' = [results EXCEPT ![r] = Every(batch[r], code)]
          PROVE  \E rs \in Seq(Answer) :
                   Len(rs) <= Len(batch[r]) /\ results' = [results EXCEPT ![r] = rs]
      <4> DEFINE rs == Every(batch[r], code)
      <4>1. rs \in Seq(Answer) /\ Len(rs) = Len(batch[r]) /\ Len(batch[r]) \in Nat
        BY <2>1 DEF Inv, TypeOK
      <4>2. results' = [results EXCEPT ![r] = rs]
        BY <3>2
      <4> HIDE DEF rs
      <4>3. Len(rs) <= Len(batch[r])
        BY <4>1
      <4> QED
        BY <4>1, <4>2, <4>3
    <3> QED
      BY <2>2, <3>1, <3>2
  <2> QED
    BY <2>3 DEF Inv, TypeOK
<1>4. TypeOK'
  BY <1>1, <1>2, <1>3 DEF Inv, TypeOK, LockRow, ghosts
<1>5. holder = Nobody
  BY RequestAssumption DEF Inv, HandlerInv, LockRow, RowIsOurs
<1>6. HandlerInv'
  BY <1>3, <1>5, RequestAssumption DEF Inv, TypeOK, HandlerInv, BeforeProcessing, NeedsRowLock, LockRow
<1>7. RowInv'
  <2>1. trow[r] = row
    BY <1>5, RequestAssumption
    DEF Inv, RowInv, Transacting, InTransaction, SeesTheRow, LockRow, RowIsOurs
  <2>2. SeesTheRow(r)
    BY DEF Inv, RowInv, Transacting, InTransaction, LockRow
  <2>3. SeesTheRow(r)'
    BY <1>1, <1>2, <2>1, <2>2 DEF Inv, TypeOK, SyncState, SeesTheRow, LockRow
  <2>4. ASSUME NEW q \in Request, q # r, Transacting(q)' PROVE SeesTheRow(q)'
    BY <1>1, <1>2, <1>5, <2>4, RequestAssumption
    DEF Inv, TypeOK, RowInv, Transacting, SeesTheRow, LockRow
  <2> QED
    BY <2>3, <2>4 DEF Inv, RowInv, LockRow, ghosts
<1> QED
  BY <1>4, <1>6, <1>7 DEF Inv

\* One more result is still at most one for each operation.
LEMMA AppendResult ==
  ASSUME Inv, NEW r \in Request, Working(r), NEW a \in Answer,
         results' = [results EXCEPT ![r] = Append(@, a)], UNCHANGED batch
  PROVE  /\ results' \in [Request -> Seq(Answer)]
         /\ \A q \in Request : Len(results'[q]) <= Len(batch'[q])
<1>1. results[r] \in Seq(Answer) /\ Len(results[r]) + 1 <= Len(batch[r])
  BY DEF Inv, TypeOK, Working, Index
<1>2. Append(results[r], a) \in Seq(Answer) /\ Len(Append(results[r], a)) <= Len(batch[r])
  BY <1>1
<1> QED
  BY <1>2 DEF Inv, TypeOK

LEMMA RejectInv ==
  ASSUME Inv, NEW r \in Request, Reject(r) PROVE Inv'
<1>1. Rejection(r) \in Codes
  BY DEF Reject, Rejection, Codes
<1>2. Result(Rejection(r), 0) \in Answer
  BY <1>1 DEF Result, Answer
<1>3. TypeOK'
  <2>1. /\ results' \in [Request -> Seq(Answer)]
        /\ \A q \in Request : Len(results'[q]) <= Len(batch'[q])
    BY <1>2, AppendResult DEF Reject
  <2> QED
    BY <2>1 DEF Inv, TypeOK, IsLog, Reject, ghosts
<1>4. HandlerInv'
  BY DEF Inv, TypeOK, HandlerInv, BeforeProcessing, NeedsRowLock, Reject, Working
<1>5. RowInv'
  BY DEF Inv, TypeOK, RowInv, Transacting, SeesTheRow, Reject, ghosts
<1> QED
  BY <1>3, <1>4, <1>5 DEF Inv

\* The row and the operation an accepted upload writes.
LEMMA RowAfterType ==
  ASSUME NEW w \in SyncState, NEW l, IsLog(l), NEW o \in Op, NEW known, NEW seq \in Nat
  PROVE  RowAfter(w, l, o, known, seq) \in SyncState
         /\ RowAfter(w, l, o, known, seq).lastSeq = seq
BY FullStateClockCovers DEF RowAfter, SyncState

LEMMA AcceptInv ==
  ASSUME Inv, NEW r \in Request, Accept(r) PROVE Inv'
<1> DEFINE o   == batch[r][Index(r)]
           seq == trow[r].lastSeq + 1
           new == [id |-> o, known |-> cursor[r], clock |-> StoredClock(view[r], o, cursor[r])]
<1>1. o \in Op /\ IsLog(view[r]) /\ trow[r] \in SyncState /\ seq \in Nat \ {0}
  <2>1. Index(r) \in 1..Len(batch[r]) /\ batch[r] \in Seq(Op)
    <3>1. Len(results[r]) \in Nat /\ batch[r] \in Seq(Op)
      BY DEF Inv, TypeOK
    <3> QED
      BY <3>1 DEF Accept, Working, Index
  <2>2. IsLog(view[r]) /\ trow[r] \in SyncState
    BY DEF Inv, TypeOK
  <2> QED
    BY <2>1, <2>2 DEF SyncState
<1>2. new \in Row
  BY <1>1, StoredClockType DEF Inv, TypeOK, Row
<1>3. /\ view' = [view EXCEPT ![r] =
           [s \in DOMAIN @ \cup {seq} |-> IF s = seq THEN new ELSE @[s]]]
      /\ trow' = [trow EXCEPT ![r] = RowAfter(@, view[r], o, cursor[r], seq)]
      /\ results' = [results EXCEPT ![r] = Append(@, Result("ACCEPTED", seq))]
      /\ Working(r) /\ RowIsOurs(r) /\ holder' = r
  BY DEF Accept
<1> HIDE DEF o, seq, new
<1>4. /\ trow'[r] \in SyncState /\ trow'[r].lastSeq = seq
      /\ DOMAIN trow' = Request
      /\ \A q \in Request \ {r} : trow'[q] = trow[q]
  BY <1>1, <1>3, RowAfterType DEF Inv, TypeOK
<1>5. /\ IsLog(view'[r]) /\ DOMAIN view'[r] = DOMAIN view[r] \cup {seq}
      /\ DOMAIN view' = Request
      /\ \A q \in Request \ {r} : view'[q] = view[q]
  <2> DEFINE grown == [s \in DOMAIN view[r] \cup {seq} |-> IF s = seq THEN new ELSE view[r][s]]
  <2>1. view' = [view EXCEPT ![r] = grown]
    BY <1>3
  <2>2. IsLog(grown)
    BY <1>1, <1>2, LogWithRow
  <2>3. DOMAIN grown = DOMAIN view[r] \cup {seq}
    OBVIOUS
  <2> HIDE DEF grown
  <2> QED
    BY <2>1, <2>2, <2>3 DEF Inv, TypeOK
<1>6. TypeOK'
  <2>1. Result("ACCEPTED", seq) \in Answer
    BY <1>1 DEF Result, Answer, Codes
  <2>2. /\ results' \in [Request -> Seq(Answer)]
        /\ \A q \in Request : Len(results'[q]) <= Len(batch'[q])
    BY <1>3, <2>1, AppendResult DEF Accept
  <2>3. trow' \in [Request -> SyncState]
    <3>1. trow' = [q \in Request |-> trow'[q]]
      BY <1>3 DEF Inv, TypeOK
    <3>2. \A q \in Request : trow'[q] \in SyncState
      BY <1>4 DEF Inv, TypeOK
    <3> QED
      BY <3>1, <3>2
  <2>4. \A q \in Request : IsLog(view'[q])
    BY <1>5 DEF Inv, TypeOK
  <2> QED
    BY <1>5, <2>2, <2>3, <2>4 DEF Inv, TypeOK, Accept, ghosts
<1>7. holder \in {Nobody, r}
  BY <1>3 DEF RowIsOurs
<1>8. HandlerInv'
  BY <1>3, <1>7, RequestAssumption
  DEF Inv, TypeOK, HandlerInv, BeforeProcessing, NeedsRowLock, Accept, Working
<1>9. RowInv'
  <2>1. SeesTheRow(r)
    BY DEF Inv, RowInv, Transacting, InTransaction, Accept, Working
  <2>2. row.lastSeq <= trow[r].lastSeq
    BY <1>3, <1>7, <2>1, RequestAssumption DEF Inv, TypeOK, SyncState, SeesTheRow, RowIsOurs
  <2>3. SeesTheRow(r)'
    <3>1. \A s \in DOMAIN view'[r] : s <= trow'[r].lastSeq
      BY <1>1, <1>4, <1>5, <2>1 DEF SeesTheRow, SyncState, IsLog, seq
    <3>2. row'.lastSeq <= trow'[r].lastSeq
      BY <1>1, <1>4, <2>2 DEF Inv, TypeOK, SyncState, seq, Accept
    <3> QED
      BY <1>3, <3>1, <3>2 DEF SeesTheRow
  <2>4. ASSUME NEW q \in Request, q # r, Transacting(q)' PROVE SeesTheRow(q)'
    <3>1. SeesTheRow(q) /\ holder # q /\ holder' # q
      BY <1>3, <1>7, <2>4, RequestAssumption DEF Inv, RowInv, Transacting, Accept
    <3> QED
      BY <1>4, <1>5, <2>4, <3>1 DEF SeesTheRow, Accept
  <2> QED
    BY <2>3, <2>4 DEF Inv, RowInv, Accept, ghosts
<1> QED
  BY <1>6, <1>8, <1>9 DEF Inv

\* Only the transaction that holds the row has anything to insert, above all
\* that is committed.
LEMMA InsertsNeedTheRow ==
  ASSUME Inv, NEW r \in Request, stage[r] = "working", holder # r
  PROVE  Inserted(r) = {}
<1>1. /\ \A s \in DOMAIN view[r] : s <= trow[r].lastSeq
      /\ trow[r].lastSeq <= row.lastSeq
  BY DEF Inv, RowInv, Transacting, InTransaction, SeesTheRow
<1>2. DOMAIN view[r] \subseteq Nat /\ trow[r].lastSeq \in Nat /\ row.lastSeq \in Nat
  BY DEF Inv, TypeOK, IsLog, SyncState
<1> QED
  BY <1>1, <1>2 DEF Inserted

\* The row never goes back.
LEMMA CommittedRow ==
  ASSUME Inv, NEW r \in Request, Commit(r)
  PROVE  /\ row' \in SyncState /\ row.lastSeq <= row'.lastSeq
         /\ \A s \in Inserted(r) : row.lastSeq < s /\ s <= row'.lastSeq
<1>1. row \in SyncState /\ trow[r] \in SyncState /\ DOMAIN view[r] \subseteq Nat
  BY DEF Inv, TypeOK, IsLog
<1>2. SeesTheRow(r)
  BY DEF Inv, RowInv, Transacting, InTransaction, Commit
<1>3. CASE holder = r
  BY <1>1, <1>2, <1>3 DEF SeesTheRow, SyncState, Inserted, Commit
<1>4. CASE holder # r
  <2>1. Inserted(r) = {} /\ row' = row
    BY <1>4, InsertsNeedTheRow DEF Commit
  <2> QED
    BY <1>1, <2>1 DEF SyncState
<1> QED
  BY <1>3, <1>4

LEMMA CommitInv ==
  ASSUME Inv, NEW r \in Request, Commit(r) PROVE Inv'
<1>1. /\ row \in SyncState /\ row' \in SyncState /\ row.lastSeq <= row'.lastSeq
      /\ \A s \in Inserted(r) : row.lastSeq < s /\ s <= row'.lastSeq
      /\ row.lastSeq \in Nat /\ row'.lastSeq \in Nat
  BY CommittedRow DEF Inv, TypeOK, SyncState
<1>2. /\ IsLog(view[r]) /\ IsLog(log) /\ Inserted(r) \subseteq DOMAIN view[r]
      /\ Inserted(r) \subseteq Nat \ {0}
      /\ \A s \in DOMAIN log : s <= row.lastSeq
  BY DEF Inv, TypeOK, IsLog, Inserted
<1>3. IsLog(log') /\ \A s \in DOMAIN log' : s <= row'.lastSeq
  <2> DEFINE kept == IF wipe[r] THEN {} ELSE DOMAIN log
  <2>1. log' = [s \in kept \cup Inserted(r) |-> IF s \in Inserted(r) THEN view[r][s] ELSE log[s]]
    BY DEF Commit
  <2>2. kept \subseteq DOMAIN log
    OBVIOUS
  <2> HIDE DEF kept
  <2>3. IsFiniteSet(kept \cup Inserted(r))
    BY <1>2, <2>2, FS_Subset, FS_Union DEF IsLog
  <2>4. DOMAIN log' = kept \cup Inserted(r)
    BY <2>1
  <2>5. \A s \in DOMAIN log' : log'[s] \in Row
    BY <1>2, <2>1, <2>2, <2>4 DEF IsLog
  <2>6. log' \in [DOMAIN log' -> Row]
    BY <2>1, <2>4, <2>5
  <2>7. DOMAIN log' \subseteq Nat \ {0} /\ \A s \in DOMAIN log' : s <= row'.lastSeq
    BY <1>1, <1>2, <2>2, <2>4 DEF IsLog
  <2> QED
    BY <2>3, <2>4, <2>6, <2>7 DEF IsLog
<1>4. TypeOK'
  <2>1. published' \subseteq Nat \X Op
    <3>1. \A s \in Inserted(r) : <<s, view[r][s].id>> \in Nat \X Op
      BY <1>2 DEF IsLog, Row
    <3> QED
      BY <3>1 DEF Inv, TypeOK, Commit
  <2>2. imports' \subseteq Nat /\ wipedAt' \in Nat
    BY <1>1, <1>2 DEF Inv, TypeOK, Commit
  <2>3. stale' \in [Request -> BOOLEAN] /\ holder' \in Request \cup {Nobody}
    BY DEF Inv, TypeOK, Commit
  <2> QED
    BY <1>1, <1>3, <2>1, <2>2, <2>3 DEF Inv, TypeOK, Commit
<1>5. HandlerInv'
  BY RequestAssumption DEF Inv, TypeOK, HandlerInv, BeforeProcessing, NeedsRowLock, Commit
<1>6. RowInv'
  <2>1. ASSUME NEW p \in published' PROVE p[1] <= row'.lastSeq
    <3>1. CASE p \in published
      <4>1. p[1] <= row.lastSeq /\ p[1] \in Nat
        BY <3>1 DEF Inv, TypeOK, RowInv
      <4> QED
        BY <1>1, <4>1
    <3>2. CASE p \notin published
      BY <1>1, <3>2 DEF Commit
    <3> QED
      BY <3>1, <3>2
  <2>2. ASSUME NEW q \in Request, Transacting(q)' PROVE SeesTheRow(q)'
    <3>1. q # r /\ Transacting(q)
      BY <2>2 DEF Inv, TypeOK, Transacting, InTransaction, Commit
    <3>2. SeesTheRow(q)
      BY <3>1 DEF Inv, RowInv
    <3>3. trow[q] \in SyncState /\ view' = view /\ trow' = trow
      BY DEF Inv, TypeOK, Commit
    <3>4. CASE holder = r
      <4>1. holder' = Nobody /\ holder # q /\ holder' # q
        BY <3>1, <3>4, RequestAssumption DEF Commit
      <4>2. trow[q].lastSeq <= row'.lastSeq
        BY <1>1, <3>2, <3>3, <4>1 DEF SeesTheRow, SyncState
      <4>3. stale'[q] \/ trow[q] = row'
        BY <3>1, <3>2, <4>1 DEF Transacting, SeesTheRow, Commit
      <4> QED
        BY <3>2, <3>3, <4>1, <4>2, <4>3 DEF SeesTheRow
    <3>5. CASE holder # r
      <4>1. row' = row /\ holder' = holder
        BY <3>5 DEF Commit
      <4>2. stale[q] => stale'[q]
        BY DEF Commit
      <4> QED
        BY <3>2, <3>3, <4>1, <4>2 DEF SeesTheRow
    <3> QED
      BY <3>4, <3>5
  <2> QED
    BY <2>1, <2>2 DEF RowInv
<1> QED
  BY <1>4, <1>5, <1>6 DEF Inv

LEMMA AbortInv ==
  ASSUME Inv, NEW r \in Request, Abort(r) PROVE Inv'
<1>1. /\ results' \in [Request -> Seq(Answer)]
      /\ \A q \in Request : Len(results'[q]) <= Len(batch'[q])
  <2> DEFINE rs == Every(batch[r], "ROLLED_BACK")
  <2>1. results' = [results EXCEPT ![r] = rs] /\ batch' = batch
    BY DEF Abort, ResultsOfFailure
  <2>2. rs \in Seq(Answer) /\ Len(rs) = Len(batch[r]) /\ Len(batch[r]) \in Nat
    BY EveryType DEF Inv, TypeOK, Codes
  <2> HIDE DEF rs
  <2>3. Len(rs) <= Len(batch[r])
    BY <2>2
  <2> QED
    BY <2>1, <2>2, <2>3 DEF Inv, TypeOK
<1>2. TypeOK'
  BY <1>1 DEF Inv, TypeOK, IsLog, Abort, ghosts
<1>3. HandlerInv'
  BY RequestAssumption
  DEF Inv, TypeOK, HandlerInv, BeforeProcessing, InTransaction, NeedsRowLock, Abort
<1>4. RowInv'
  <2>1. ASSUME NEW q \in Request, Transacting(q)' PROVE SeesTheRow(q)'
    <3>1. q # r /\ Transacting(q)
      BY <2>1 DEF Inv, TypeOK, Transacting, InTransaction, Abort
    <3>2. SeesTheRow(q) /\ (holder' = q <=> holder = q)
      BY <3>1, RequestAssumption DEF Inv, RowInv, Abort
    <3> QED
      BY <3>2 DEF SeesTheRow, Abort
  <2> QED
    BY <2>1 DEF Inv, RowInv, Abort, ghosts
<1> QED
  BY <1>2, <1>3, <1>4 DEF Inv

LEMMA ClearCachesInv ==
  ASSUME Inv, NEW r \in Request, ClearCaches(r) PROVE Inv'
<1>1. TypeOK'
  BY DEF Inv, TypeOK, IsLog, ClearCaches, ghosts
<1>2. HandlerInv'
  BY DEF Inv, TypeOK, HandlerInv, BeforeProcessing, NeedsRowLock, ClearCaches
<1>3. RowInv'
  BY DEF Inv, TypeOK, RowInv, Transacting, InTransaction, SeesTheRow, ClearCaches, ghosts
<1> QED
  BY <1>1, <1>2, <1>3 DEF Inv

LEMMA FinishInv ==
  ASSUME Inv, NEW r \in Request, Finish(r) PROVE Inv'
<1>1. storage' \in [Process -> Request \cup {Nobody}] /\ DOMAIN dedup' = Process
  BY DEF Inv, TypeOK, Finish, ReleaseStorage
<1> QED
  BY <1>1, ForgetInv DEF Finish

LEMMA DeleteAllUserDataInv ==
  ASSUME Inv, NEW p \in Process, DeleteAllUserData(p) PROVE Inv'
<1>1. row' \in SyncState /\ row'.lastSeq = row.lastSeq
  BY WipedType DEF Inv, TypeOK, DeleteAllUserData
<1>2. IsLog(log') /\ DOMAIN log' = {}
  BY FS_EmptySet DEF DeleteAllUserData, IsLog, Nothing
<1>3. TypeOK'
  <2>1. wipedAt' \in Nat
    BY DEF Inv, TypeOK, SyncState, DeleteAllUserData
  <2>2. stale' \in [Request -> BOOLEAN]
    BY DEF DeleteAllUserData
  <2> QED
    BY <1>1, <1>2, <2>1, <2>2 DEF Inv, TypeOK, DeleteAllUserData
<1>4. HandlerInv'
  BY DEF Inv, HandlerInv, NeedsRowLock, DeleteAllUserData
<1>5. RowInv'
  <2>1. ASSUME NEW q \in Request, Transacting(q)' PROVE SeesTheRow(q)'
    <3>1. SeesTheRow(q) /\ holder # q /\ holder' = holder /\ stale'[q]
      BY <2>1, RequestAssumption DEF Inv, RowInv, Transacting, DeleteAllUserData
    <3> QED
      BY <1>1, <3>1 DEF SeesTheRow, DeleteAllUserData
  <2> QED
    BY <1>1, <2>1 DEF Inv, RowInv, DeleteAllUserData
<1> QED
  BY <1>3, <1>4, <1>5 DEF Inv

\* Actions that touch only caches and the sweep.
LEMMA BesidesInv ==
  ASSUME Inv, DOMAIN dedup' = Process, wiping' \subseteq Process, sweepTo' \in Nat,
         UNCHANGED <<log, row, holder, storage, stage, batch, cursor, wipe, occupied, cut,
                     stale, view, trow, results, ghosts>>
  PROVE  Inv'
<1>1. TypeOK'
  BY DEF Inv, TypeOK, IsLog, ghosts
<1>2. HandlerInv'
  BY DEF Inv, HandlerInv, NeedsRowLock
<1>3. RowInv'
  BY DEF Inv, RowInv, Transacting, SeesTheRow, ghosts
<1> QED
  BY <1>1, <1>2, <1>3 DEF Inv

LEMMA RestartInv ==
  ASSUME Inv, NEW p \in Process, Restart(p) PROVE Inv'
<1> DEFINE alive(q) == Home[q] # p
<1>1. \A q \in Request :
        /\ stage'[q] = IF alive(q) THEN stage[q] ELSE "idle"
        /\ batch'[q] = IF alive(q) THEN batch[q] ELSE <<>>
        /\ wipe'[q] = IF alive(q) THEN wipe[q] ELSE FALSE
        /\ cursor'[q] = IF alive(q) THEN cursor[q] ELSE NoCursor
        /\ stale'[q] = IF alive(q) THEN stale[q] ELSE FALSE
        /\ view'[q] = IF alive(q) THEN view[q] ELSE Nothing
        /\ trow'[q] = IF alive(q) THEN trow[q] ELSE NewState
        /\ results'[q] = IF alive(q) THEN results[q] ELSE <<>>
  BY DEF Restart
<1>2. holder' = IF holder # Nobody /\ ~alive(holder) THEN Nobody ELSE holder
  BY DEF Restart
<1>3. TypeOK'
  <2>1. NewState \in SyncState /\ IsLog(Nothing)
    BY FS_EmptySet DEF NewState, SyncState, EmptyClock, Clock, Unresolved, IsLog, Nothing
  <2>2. /\ stage' \in [Request -> {"idle", "queued", "admitted", "checked", "freeing",
                                   "deleting", "began", "working", "committed", "finishing"}]
        /\ wipe' \in [Request -> BOOLEAN] /\ stale' \in [Request -> BOOLEAN]
        /\ occupied' \in [Request -> SUBSET Op] /\ cut' \in [Request -> Nat]
        /\ cursor' \in [Request -> Cursors]
    BY DEF Inv, TypeOK, Restart, Cursors, NoCursor
  <2>3. trow' \in [Request -> SyncState]
    BY <2>1 DEF Inv, TypeOK, Restart
  <2>4. batch' \in [Request -> Seq(Op)] /\ results' \in [Request -> Seq(Answer)]
    BY DEF Inv, TypeOK, Restart
  <2>5. DOMAIN view' = Request /\ \A q \in Request : IsLog(view'[q])
    BY <1>1, <2>1 DEF Inv, TypeOK, Restart
  <2>6. ASSUME NEW q \in Request PROVE Len(results'[q]) <= Len(batch'[q])
    <3>1. CASE alive(q)
      <4>1. results'[q] = results[q] /\ batch'[q] = batch[q]
        BY <1>1, <3>1
      <4> QED
        BY <4>1 DEF Inv, TypeOK
    <3>2. CASE ~alive(q)
      <4>1. results'[q] = <<>> /\ batch'[q] = <<>>
        BY <1>1, <3>2
      <4> QED
        BY <4>1
    <3> QED
      BY <3>1, <3>2
  <2>7. /\ holder' \in Request \cup {Nobody}
        /\ storage' \in [Process -> Request \cup {Nobody}]
        /\ DOMAIN dedup' = Process /\ wiping' \subseteq Process
    BY <1>2 DEF Inv, TypeOK, Restart
  <2> QED
    BY <2>2, <2>3, <2>4, <2>5, <2>6, <2>7 DEF Inv, TypeOK, IsLog, Restart, ghosts
<1>4. HandlerInv'
  <2>1. \A q \in Request : alive(q) => (NeedsRowLock(q)' <=> NeedsRowLock(q))
    BY <1>1 DEF NeedsRowLock
  <2> QED
    BY <1>1, <1>2, <2>1, RequestAssumption DEF Inv, TypeOK, HandlerInv, BeforeProcessing
<1>5. RowInv'
  <2>1. ASSUME NEW q \in Request, Transacting(q)' PROVE SeesTheRow(q)'
    <3>1. alive(q) /\ Transacting(q)
      BY <1>1, <2>1 DEF Transacting, InTransaction
    <3>2. SeesTheRow(q) /\ (holder' = q <=> holder = q)
      BY <1>2, <3>1, RequestAssumption DEF Inv, RowInv
    <3> QED
      BY <1>1, <3>1, <3>2 DEF SeesTheRow, Restart
  <2> QED
    BY <2>1 DEF Inv, RowInv, Restart, ghosts
<1> QED
  BY <1>3, <1>4, <1>5 DEF Inv

-----------------------------------------------------------------------------
\* Every step preserves the invariant.
LEMMA StepInv == Inv /\ [Next]_vars => Inv'
<1> SUFFICES ASSUME Inv, [Next]_vars PROVE Inv'
  OBVIOUS
<1>1. CASE UNCHANGED vars
  BY <1>1, StutterInv
<1>2. ASSUME NEW r \in Request, NEW q \in Uploads \cup Snapshots, Receive(r, q) PROVE Inv'
  BY <1>2, ReceiveInv
<1>3. ASSUME NEW r \in Request, Handle(r) PROVE Inv'
  BY <1>3, EnterStorageLockInv, AnswerRetryInv, RefuseSnapshotInv, AdmitSnapshotInv,
     QuotaShortInv, ReadOldestRestorePointInv, DeleteRestorePointInv, QuotaExceededInv, BeginInv, LockRowInv,
     RejectInv, AcceptInv, CommitInv, AbortInv, ClearCachesInv, FinishInv DEF Handle
<1>4. ASSUME NEW p \in Process, DeleteAllUserData(p) \/ ClearWipedCaches(p) \/ Restart(p)
      PROVE  Inv'
  <2>1. CASE ClearWipedCaches(p)
    <3>1. DOMAIN dedup' = Process /\ wiping' \subseteq Process /\ sweepTo' \in Nat
      BY <2>1 DEF Inv, TypeOK, ClearWipedCaches
    <3> QED
      BY <2>1, <3>1, BesidesInv DEF ClearWipedCaches
  <2> QED
    BY <1>4, <2>1, DeleteAllUserDataInv, RestartInv
<1>5. ASSUME NEW p \in Process, NEW key \in DOMAIN dedup[p], Expire(p, key) PROVE Inv'
  <2>1. DOMAIN dedup' = Process /\ wiping' \subseteq Process /\ sweepTo' \in Nat
    BY <1>5 DEF Inv, TypeOK, Expire
  <2> QED
    BY <1>5, <2>1, BesidesInv DEF Expire
<1>6. ASSUME NEW s \in DOMAIN log, StartSweep(s) PROVE Inv'
  <2>1. DOMAIN dedup' = Process /\ wiping' \subseteq Process /\ sweepTo' \in Nat
    BY <1>6 DEF Inv, TypeOK, IsLog, StartSweep
  <2> QED
    BY <1>6, <2>1, BesidesInv DEF StartSweep
<1>7. ASSUME NEW end \in 1..sweepTo, SweepWindow(end) PROVE Inv'
  <2>1. cut' \in [Request -> Nat] /\ sweepTo' \in Nat
    BY <1>7 DEF Inv, TypeOK, SweepWindow
  <2> QED
    BY <1>7, <2>1, PrefixDeletedInv DEF SweepWindow
<1>8. CASE StopSweep
  <2>1. DOMAIN dedup' = Process /\ wiping' \subseteq Process /\ sweepTo' \in Nat
    BY <1>8 DEF Inv, TypeOK, StopSweep
  <2> QED
    BY <1>8, <2>1, BesidesInv DEF StopSweep
<1> QED
  BY <1>1, <1>2, <1>3, <1>4, <1>5, <1>6, <1>7, <1>8 DEF Next

\* The invariant holds in every reachable state.
LEMMA Invariance == Spec => []Inv
BY InitInv, StepInv, PTL DEF Spec

(***************************************************************************)
(* Every variable keeps its type, and the log never holds a sequence       *)
(* number that was not allocated.                                          *)
(***************************************************************************)
THEOREM TypeCorrect == Spec => []TypeOK
<1>1. Inv => TypeOK
  BY DEF Inv
<1> QED
  BY <1>1, Invariance, PTL

\* Only a commit publishes, and only above what is published.
LEMMA PublishesAbove ==
  ASSUME Inv, [Next]_vars, NEW new \in published' \ published, NEW old \in published
  PROVE  new[1] > old[1]
<1>1. PICK r \in Request : Commit(r)
  BY ZenonT(60) DEF Next, vars, ghosts, Receive, Handle, EnterStorageLock, AnswerRetry, RefuseSnapshot,
     AdmitSnapshot, QuotaShort, SeeTwoRestorePoints, ReadOldestRestorePoint,
     DeleteRestorePoint, QuotaExceeded, Begin, LockRow, Reject, Accept, Abort, ClearCaches, Finish, DeleteAllUserData, ClearWipedCaches, Expire,
     StartSweep, SweepWindow, StopSweep, Restart
<1>2. PICK s \in Inserted(r) : new = <<s, view[r][s].id>>
  BY <1>1 DEF Commit
<1>3. row.lastSeq < s /\ old[1] <= row.lastSeq
  BY <1>1, CommittedRow DEF Inv, RowInv
<1>4. s \in Nat /\ row.lastSeq \in Nat /\ old[1] \in Nat
  BY <1>2 DEF Inv, TypeOK, SyncState, IsLog, Inserted
<1> QED
  BY <1>2, <1>3, <1>4

(***************************************************************************)
(* Every operation commits above all that were ever committed, for any     *)
(* number of handlers and processes, whatever aborts, restarts, wipes and  *)
(* deletions come between: lastSeq is never reused (sync.service.ts,       *)
(* "PRESERVE lastSeq").                                                    *)
(***************************************************************************)
THEOREM SequenceNumbersGrow == Spec => CommitsAboveEverything
<1>1. Inv /\ [Next]_vars
        => [\A new \in published' \ published : \A old \in published : new[1] > old[1]]_vars
  BY PublishesAbove
<1> QED
  BY <1>1, Invariance, PTL DEF Spec, CommitsAboveEverything

-----------------------------------------------------------------------------
(***************************************************************************)
(* No lost update (NoLostUpdate of SyncServer, ADR 4).                     *)
(*                                                                         *)
(* A transaction decides on the operations of its snapshot.  The argument  *)
(* is that the log it commits to is what it decided on, except for history *)
(* deleted from the front: either it holds the row lock, and nothing else  *)
(* can commit an operation, or no commit has changed the row since its     *)
(* snapshot, and every commit of an operation changes the row.             *)
(***************************************************************************)

Sound(l) == Informed(l) /\ Authored(l)

\* Log l is what is left of log v when a prefix is deleted.
SuffixOf(l, v) ==
  /\ \A s \in DOMAIN l : s \in DOMAIN v /\ l[s] = v[s]
  /\ \A s \in DOMAIN v : \A t \in DOMAIN l : t < s => s \in DOMAIN l

\* The log is a suffix of what r saw of it, leaving r's own inserts aside.
SeesTheLog(r) ==
  /\ \A s \in DOMAIN log : s \in DOMAIN view[r] /\ log[s] = view[r][s]
  /\ \A s \in DOMAIN view[r] : \A t \in DOMAIN log :
        t < s /\ s <= row.lastSeq => s \in DOMAIN log

Current(r) == ~wipe[r] /\ (holder = r \/ ~stale[r])

ViewInv ==
  /\ Sound(log)
  /\ \A r \in Request : Transacting(r) => Sound(view[r]) /\ (Current(r) => SeesTheLog(r))

-----------------------------------------------------------------------------
(* Logs *)

\* Deleting a prefix makes no neighbours of operations that were not.
LEMMA SuffixSound ==
  ASSUME NEW v, IsLog(v), Sound(v), NEW l, SuffixOf(l, v)
  PROVE  Sound(l)
<1>1. Authored(l)
  BY DEF Sound, Authored, SuffixOf
<1>2. ASSUME NEW e \in Entity, NEW n \in Neighbours(l, e) PROVE n \in Neighbours(v, e)
  <2>1. OnEntity(l, e) \subseteq OnEntity(v, e)
    BY DEF OnEntity, SuffixOf
  <2>2. /\ n \in OnEntity(l, e) \X OnEntity(l, e)
        /\ n[1] < n[2] /\ \A u \in OnEntity(l, e) : ~(n[1] < u /\ u < n[2])
    BY DEF Neighbours
  <2>3. ASSUME NEW u \in OnEntity(v, e), n[1] < u PROVE u \in OnEntity(l, e)
    BY <2>2, <2>3 DEF OnEntity, SuffixOf
  <2> QED
    BY <2>1, <2>2, <2>3 DEF Neighbours
<1>3. ASSUME NEW e \in Entity, NEW n \in Neighbours(l, e)
      PROVE  l[n[1]] = v[n[1]] /\ l[n[2]] = v[n[2]]
  BY DEF Neighbours, OnEntity, SuffixOf
<1>4. Informed(l)
  BY <1>2, <1>3 DEF Sound, Informed
<1> QED
  BY <1>1, <1>4 DEF Sound

\* The author in force is a sequence of at most one client.
LEMMA AuthorInForceType ==
  ASSUME NEW l, IsLog(l)
  PROVE  AuthorInForce(l) \in Seq(Client)
<1>1. CASE CausalRows(l) = {}
  BY <1>1 DEF AuthorInForce
<1>2. CASE CausalRows(l) # {}
  <2>1. CausalRows(l) \in SUBSET Nat /\ IsFiniteSet(CausalRows(l))
    BY FS_Subset DEF IsLog, CausalRows
  <2>2. Newest(CausalRows(l)) \in DOMAIN l
    BY <1>2, <2>1, NewestOf DEF CausalRows
  <2>3. Content[l[Newest(CausalRows(l))].id].client \in Client
    BY <2>2, ContentType DEF IsLog, Row
  <2> QED
    BY <1>2, <2>3 DEF AuthorInForce
<1> QED
  BY <1>1, <1>2

\* Pruning before storage keeps the author's counter.
LEMMA StoredClockAuthored ==
  ASSUME NEW l, IsLog(l), NEW o \in Op, NEW known
  PROVE  StoredClock(l, o, known)[Content[o].client] = Content[o].clock[Content[o].client]
<1> DEFINE rest == IF Causal(Content[o].kind, known) THEN <<>> ELSE AuthorInForce(l)
<1>1. rest \in Seq(Client)
  BY AuthorInForceType
<1> HIDE DEF rest
<1>2. LimitClock(Content[o].clock, <<Content[o].client>> \o rest)[Content[o].client]
        = Content[o].clock[Content[o].client]
  BY <1>1, ContentType, LimitClockKeepsFirst
<1> QED
  BY <1>2 DEF StoredClock, rest

\* An operation that does not conflict knows the operation it follows.
LEMMA NoConflictKnows ==
  ASSUME NEW o \in Op, NEW stored \in Row, ~ConflictsWith(o, stored),
         stored.clock[Content[stored.id].client]
           = Content[stored.id].clock[Content[stored.id].client]
  PROVE  Knows(o, stored.id) \/ BothTimers(o, stored.id)
<1>1. Content[o].clock \in Clock /\ stored.clock \in Clock /\ Content[stored.id].client \in Client
  BY ContentType DEF Row
<1>2. CASE Compare(Content[o].clock, stored.clock) \in {"GREATER_THAN", "EQUAL"}
  <2>1. Content[o].clock[Content[stored.id].client] >= stored.clock[Content[stored.id].client]
    BY <1>1, <1>2, ComparedCovers
  <2> QED
    BY <2>1 DEF Knows
<1>3. CASE Compare(Content[o].clock, stored.clock) \notin {"GREATER_THAN", "EQUAL"}
  BY <1>3 DEF ConflictsWith, BothTimers
<1> QED
  BY <1>2, <1>3

\* Storing an operation that does not conflict keeps the log sound.
LEMMA AppendSound ==
  ASSUME NEW l, IsLog(l), Sound(l), NEW o \in Op, NEW known, ~Conflicts(l, o),
         NEW seq \in Nat, \A s \in DOMAIN l : s < seq,
         NEW new, new.id = o, new.clock = StoredClock(l, o, known),
         NEW m, m = [s \in DOMAIN l \cup {seq} |-> IF s = seq THEN new ELSE l[s]]
  PROVE  Sound(m)
<1>1. /\ DOMAIN m = DOMAIN l \cup {seq} /\ m[seq] = new
      /\ \A s \in DOMAIN l : m[s] = l[s] /\ s # seq
      /\ DOMAIN l \subseteq Nat
  BY DEF IsLog
<1>2. Authored(m)
  <2>1. new.clock[Content[new.id].client] = Content[new.id].clock[Content[new.id].client]
    BY StoredClockAuthored
  <2> QED
    BY <1>1, <2>1 DEF Sound, Authored
<1>3. ASSUME NEW e \in Entity, NEW n \in Neighbours(m, e)
      PROVE  \/ Content[m[n[2]].id].kind \in FullStateKinds
             \/ Content[m[n[1]].id].kind \in FullStateKinds
             \/ BothTimers(m[n[2]].id, m[n[1]].id)
             \/ Knows(m[n[2]].id, m[n[1]].id)
  <2>1. /\ n[1] \in OnEntity(m, e) /\ n[2] \in OnEntity(m, e) /\ n[1] < n[2]
        /\ \A u \in OnEntity(m, e) : ~(n[1] < u /\ u < n[2])
    BY DEF Neighbours
  <2>2. \A s \in DOMAIN l : s \in OnEntity(l, e) <=> s \in OnEntity(m, e)
    BY <1>1 DEF OnEntity
  <2>3. n[1] \in DOMAIN l /\ n[1] \in OnEntity(l, e)
    <3>1. n[1] \in DOMAIN m /\ n[2] \in DOMAIN m
      BY <2>1 DEF OnEntity
    <3>2. n[1] # seq
      BY <1>1, <2>1, <3>1
    <3> QED
      BY <1>1, <2>1, <2>2, <3>1, <3>2
  <2>4. CASE n[2] # seq
    <3>1. n[2] \in OnEntity(l, e) /\ n[2] \in DOMAIN l
      BY <1>1, <2>1, <2>2, <2>4 DEF OnEntity
    <3>2. n \in Neighbours(l, e)
      <4>1. n \in OnEntity(l, e) \X OnEntity(l, e)
        BY <2>3, <3>1 DEF Neighbours
      <4>2. \A u \in OnEntity(l, e) : u \in OnEntity(m, e)
        BY <2>2 DEF OnEntity
      <4> QED
        BY <2>1, <4>1, <4>2 DEF Neighbours
    <3> QED
      BY <1>1, <2>3, <3>1, <3>2 DEF Sound, Informed
  <2>5. CASE n[2] = seq
    <3>1. \A u \in OnEntity(l, e) : u <= n[1]
      <4>1. ASSUME NEW u \in OnEntity(l, e) PROVE u <= n[1]
        <5>1. u \in DOMAIN l /\ u \in OnEntity(m, e) /\ u < seq /\ u \in Nat /\ n[1] \in Nat
          BY <1>1, <2>2, <2>3 DEF OnEntity
        <5> QED
          BY <2>1, <2>5, <5>1
      <4> QED
        BY <4>1
    <3>2. n[1] = Newest(OnEntity(l, e))
      <4>1. \A s \in OnEntity(l, e) : s \in Nat
        BY <1>1 DEF OnEntity
      <4>2. \A s \in OnEntity(l, e) : (\A t \in OnEntity(l, e) : t <= s) => s = n[1]
        BY <2>3, <3>1, <4>1
      <4> QED
        BY <2>3, <3>1, <4>2 DEF Newest
    <3>3. e \in Content[o].entities /\ OnEntity(l, e) # {}
      BY <1>1, <2>1, <2>3, <2>5 DEF OnEntity
    <3>4. CASE Content[o].kind \in FullStateKinds
      BY <1>1, <2>5, <3>4
    <3>5. CASE Content[o].kind \notin FullStateKinds
      <4>1. ~ConflictsWith(o, l[n[1]])
        BY <3>2, <3>3, <3>5 DEF Conflicts
      <4>2. l[n[1]] \in Row
        BY <2>3 DEF IsLog
      <4>3. l[n[1]].clock[Content[l[n[1]].id].client]
              = Content[l[n[1]].id].clock[Content[l[n[1]].id].client]
        BY <2>3 DEF Sound, Authored
      <4>4. Knows(o, l[n[1]].id) \/ BothTimers(o, l[n[1]].id)
        BY <4>1, <4>2, <4>3, NoConflictKnows
      <4> QED
        BY <1>1, <2>3, <2>5, <4>4
    <3> QED
      BY <3>4, <3>5
  <2> QED
    BY <2>4, <2>5
<1> QED
  BY <1>2, <1>3 DEF Sound, Informed

-----------------------------------------------------------------------------
(* Each action preserves the invariant. *)

LEMMA InitViewInv == Init => ViewInv
BY HistoryIsInformed DEF Init, ViewInv, Sound, Transacting, InTransaction

\* A step that leaves the log, and what other transactions saw, alone.
LEMMA QuietViewInv ==
  ASSUME ViewInv, UNCHANGED <<log, row>>,
         \A q \in Request : Transacting(q)' =>
            /\ Transacting(q) /\ view'[q] = view[q] /\ wipe'[q] = wipe[q]
            /\ stale'[q] = stale[q] /\ (holder' = q <=> holder = q)
  PROVE  ViewInv'
<1>1. ASSUME NEW q \in Request, Transacting(q)'
      PROVE  Sound(view'[q]) /\ (Current(q)' => SeesTheLog(q)')
  <2>1. Sound(view[q]) /\ (Current(q) => SeesTheLog(q))
    BY <1>1 DEF ViewInv
  <2> QED
    BY <1>1, <2>1 DEF Current, SeesTheLog
<1> QED
  BY <1>1 DEF ViewInv

\* Quota cleanup and the sweep delete a prefix of the log.
LEMMA PrefixDeletedViewInv ==
  ASSUME Inv, ViewInv, NEW n, n \in Int, log' = From(log, n),
         \A q \in Request : Transacting(q)' => Transacting(q),
         UNCHANGED <<row, holder, wipe, stale, view>>
  PROVE  ViewInv'
<1>1. /\ DOMAIN log' = {s \in DOMAIN log : s >= n}
      /\ \A s \in DOMAIN log' : log'[s] = log[s]
      /\ DOMAIN log \subseteq Nat
  BY DEF Inv, TypeOK, IsLog, From
<1>2. Sound(log')
  <2>1. SuffixOf(log', log)
    BY <1>1 DEF SuffixOf
  <2> QED
    BY <2>1, SuffixSound DEF Inv, TypeOK, ViewInv
<1>3. ASSUME NEW q \in Request, SeesTheLog(q) PROVE SeesTheLog(q)'
  <2>1. ASSUME NEW s \in DOMAIN view[q], NEW t \in DOMAIN log', t < s, s <= row.lastSeq
        PROVE  s \in DOMAIN log'
    <3>1. s \in DOMAIN log
      BY <1>1, <1>3, <2>1 DEF SeesTheLog
    <3> QED
      BY <1>1, <2>1, <3>1
  <2> QED
    BY <1>1, <1>3, <2>1 DEF SeesTheLog
<1> QED
  BY <1>2, <1>3 DEF ViewInv, Transacting, Current

LEMMA BeginViewInv ==
  ASSUME Inv, ViewInv, NEW r \in Request, Begin(r) PROVE ViewInv'
<1>1. /\ view'[r] = log /\ UNCHANGED <<log, row, holder, wipe, stale>>
      /\ \A q \in Request \ {r} : view'[q] = view[q] /\ stage'[q] = stage[q]
  BY DEF Inv, TypeOK, Begin
<1>2. Sound(view'[r]) /\ SeesTheLog(r)'
  BY <1>1 DEF ViewInv, SeesTheLog
<1>3. ASSUME NEW q \in Request \ {r}, Transacting(q)'
      PROVE  Sound(view'[q]) /\ (Current(q)' => SeesTheLog(q)')
  <2>1. Sound(view[q]) /\ (Current(q) => SeesTheLog(q))
    BY <1>1, <1>3 DEF ViewInv, Transacting
  <2> QED
    BY <1>1, <2>1 DEF Current, SeesTheLog
<1> QED
  BY <1>1, <1>2, <1>3 DEF ViewInv

\* Taking the row lock: the transaction is current, or what it saw is deleted.
LEMMA LockRowViewInv ==
  ASSUME Inv, ViewInv, NEW r \in Request, LockRow(r) PROVE ViewInv'
<1>1. /\ holder = Nobody /\ holder' = r /\ ~stale[r] /\ Transacting(r)
      /\ UNCHANGED <<log, row, wipe, stale>>
  BY RequestAssumption
  DEF Inv, HandlerInv, LockRow, RowIsOurs, Transacting, InTransaction
<1>2. /\ \A q \in Request \ {r} : view'[q] = view[q] /\ stage'[q] = stage[q]
      /\ view'[r] = view[r] \/ (wipe[r] /\ view'[r] = Nothing)
  BY DEF Inv, TypeOK, LockRow
<1>3. Sound(Nothing)
  BY DEF Sound, Informed, Neighbours, OnEntity, Authored, Nothing
<1>4. Sound(view'[r]) /\ (Current(r)' => SeesTheLog(r)')
  <2>1. Sound(view[r]) /\ (Current(r) => SeesTheLog(r))
    BY <1>1 DEF ViewInv
  <2> QED
    BY <1>1, <1>2, <1>3, <2>1 DEF Current, SeesTheLog
<1>5. ASSUME NEW q \in Request \ {r}, Transacting(q)'
      PROVE  Sound(view'[q]) /\ (Current(q)' => SeesTheLog(q)')
  <2>1. Sound(view[q]) /\ (Current(q) => SeesTheLog(q))
    BY <1>2, <1>5 DEF ViewInv, Transacting
  <2> QED
    BY <1>1, <1>2, <2>1 DEF Current, SeesTheLog
<1> QED
  BY <1>1, <1>4, <1>5 DEF ViewInv

LEMMA AcceptViewInv ==
  ASSUME Inv, ViewInv, NEW r \in Request, Accept(r) PROVE ViewInv'
<1> DEFINE o   == batch[r][Index(r)]
           seq == trow[r].lastSeq + 1
           new == [id |-> o, known |-> cursor[r], clock |-> StoredClock(view[r], o, cursor[r])]
           grown == [s \in DOMAIN view[r] \cup {seq} |-> IF s = seq THEN new ELSE view[r][s]]
<1>1. /\ view'[r] = grown
      /\ \A q \in Request \ {r} : view'[q] = view[q]
      /\ UNCHANGED <<log, row, wipe, stale, stage>>
      /\ RowIsOurs(r) /\ holder' = r
      /\ Rejection(r) = "NONE"
  BY DEF Inv, TypeOK, Accept
<1>2. Transacting(r) /\ o \in Op
  <2>1. Index(r) \in 1..Len(batch[r]) /\ batch[r] \in Seq(Op)
    <3>1. Len(results[r]) \in Nat /\ batch[r] \in Seq(Op)
      BY DEF Inv, TypeOK
    <3> QED
      BY <3>1 DEF Accept, Working, Index
  <2> QED
    BY <2>1 DEF Accept, Working, Transacting, InTransaction
<1>3. /\ Sound(view[r]) /\ (Current(r) => SeesTheLog(r)) /\ SeesTheRow(r)
      /\ IsLog(view[r]) /\ DOMAIN view[r] \subseteq Nat /\ trow[r].lastSeq \in Nat
      /\ row.lastSeq \in Nat
  BY <1>2 DEF ViewInv, Inv, RowInv, TypeOK, SyncState, IsLog
<1>4. ~Conflicts(view[r], o)
  BY <1>1 DEF Rejection
<1>5. seq \in Nat /\ (\A s \in DOMAIN view[r] : s < seq) /\ row.lastSeq < seq
  <2>1. row.lastSeq <= trow[r].lastSeq
    BY <1>1, <1>3, RequestAssumption DEF RowIsOurs, SeesTheRow
  <2> QED
    BY <1>3, <2>1 DEF SeesTheRow
<1>6. new.id = o /\ new.clock = StoredClock(view[r], o, cursor[r])
  OBVIOUS
<1> HIDE DEF o, seq, new
<1>7. Sound(grown)
  BY <1>2, <1>3, <1>4, <1>5, <1>6, AppendSound
<1>8. DOMAIN grown = DOMAIN view[r] \cup {seq} /\ \A s \in DOMAIN view[r] : grown[s] = view[r][s]
  BY <1>5
<1> HIDE DEF grown
<1>9. Current(r)' => SeesTheLog(r)'
  <2>1. Current(r)' => Current(r)
    BY <1>1, RequestAssumption DEF Current, RowIsOurs
  <2>2. ASSUME SeesTheLog(r) PROVE SeesTheLog(r)'
    <3>1. ASSUME NEW s \in DOMAIN view'[r], NEW t \in DOMAIN log', t < s, s <= row.lastSeq
          PROVE  s \in DOMAIN log'
      <4>1. s \in DOMAIN view[r]
        BY <1>1, <1>5, <1>3, <1>8, <3>1
      <4> QED
        BY <1>1, <2>2, <3>1, <4>1 DEF SeesTheLog
    <3> QED
      BY <1>1, <1>8, <2>2, <3>1 DEF SeesTheLog
  <2> QED
    BY <1>3, <2>1, <2>2
<1>10. ASSUME NEW q \in Request \ {r}, Transacting(q)'
       PROVE  Sound(view'[q]) /\ (Current(q)' => SeesTheLog(q)')
  <2>1. Sound(view[q]) /\ (Current(q) => SeesTheLog(q))
    BY <1>1, <1>10 DEF ViewInv, Transacting
  <2>2. Current(q)' => Current(q)
    BY <1>1 DEF Current
  <2> QED
    BY <1>1, <2>1, <2>2 DEF SeesTheLog
<1> QED
  BY <1>1, <1>7, <1>9, <1>10 DEF ViewInv

LEMMA CommitViewInv ==
  ASSUME Inv, ViewInv, NEW r \in Request, Commit(r) PROVE ViewInv'
<1> DEFINE kept == IF wipe[r] THEN {} ELSE DOMAIN log
<1>1. /\ log' = [s \in kept \cup Inserted(r) |-> IF s \in Inserted(r) THEN view[r][s] ELSE log[s]]
      /\ UNCHANGED <<view, wipe>>
      /\ stage[r] = "working"
  BY DEF Commit
<1>2. /\ DOMAIN log' = kept \cup Inserted(r)
      /\ \A s \in Inserted(r) : log'[s] = view[r][s]
      /\ \A s \in kept \ Inserted(r) : log'[s] = log[s]
  BY <1>1
<1>3. /\ IsLog(view[r]) /\ IsLog(log) /\ DOMAIN log \subseteq Nat
      /\ DOMAIN view[r] \subseteq Nat /\ row.lastSeq \in Nat
      /\ \A s \in DOMAIN log : s <= row.lastSeq
      /\ Inserted(r) = {s \in DOMAIN view[r] : s > row.lastSeq}
  BY DEF Inv, TypeOK, IsLog, SyncState, Inserted
<1>4. Sound(view[r]) /\ (Current(r) => SeesTheLog(r)) /\ Sound(log)
  BY <1>1 DEF ViewInv, Transacting, InTransaction
<1>5. wipe[r] => holder = r
  BY <1>1 DEF Inv, HandlerInv, NeedsRowLock
<1>6. Sound(log')
  <2>1. CASE wipe[r]
    <3>1. SuffixOf(log', view[r])
      BY <1>2, <1>3, <2>1 DEF SuffixOf
    <3> QED
      BY <1>3, <1>4, <3>1, SuffixSound
  <2>2. CASE ~wipe[r] /\ holder = r
    <3>1. SeesTheLog(r)
      BY <1>4, <2>2 DEF Current
    <3>2. ASSUME NEW s \in DOMAIN log' PROVE s \in DOMAIN view[r] /\ log'[s] = view[r][s]
      BY <1>2, <1>3, <2>2, <3>1 DEF SeesTheLog
    <3>3. ASSUME NEW s \in DOMAIN view[r], NEW t \in DOMAIN log', t < s PROVE s \in DOMAIN log'
      <4>1. CASE s > row.lastSeq
        BY <1>2, <1>3, <4>1
      <4>2. CASE s <= row.lastSeq
        <5>1. t \in DOMAIN log
          BY <1>2, <1>3, <2>2, <3>3, <4>2
        <5> QED
          BY <1>2, <2>2, <3>1, <3>3, <4>2, <5>1 DEF SeesTheLog
      <4> QED
        BY <1>3, <4>1, <4>2
    <3>4. SuffixOf(log', view[r])
      BY <3>2, <3>3 DEF SuffixOf
    <3> QED
      BY <1>3, <1>4, <3>4, SuffixSound
  <2>3. CASE ~wipe[r] /\ holder # r
    <3>1. Inserted(r) = {}
      BY <1>1, <2>3, InsertsNeedTheRow
    <3>2. SuffixOf(log', log)
      BY <1>2, <2>3, <3>1 DEF SuffixOf
    <3> QED
      BY <1>3, <1>4, <3>2, SuffixSound
  <2> QED
    BY <1>5, <2>1, <2>2, <2>3
<1>7. ASSUME NEW q \in Request, Transacting(q)'
      PROVE  Sound(view'[q]) /\ (Current(q)' => SeesTheLog(q)')
  <2>1. q # r /\ Transacting(q)
    BY <1>7 DEF Inv, TypeOK, Transacting, InTransaction, Commit
  <2>2. Sound(view[q]) /\ (Current(q) => SeesTheLog(q))
    BY <2>1 DEF ViewInv
  <2>3. ASSUME Current(q)' PROVE Current(q) /\ row' = row
    <3>1. CASE holder = r
      <4>1. ~stale'[q]
        BY <2>1, <2>3, <3>1, RequestAssumption DEF Current, Commit
      <4> QED
        BY <2>1, <2>3, <4>1 DEF Current, Transacting, Commit
    <3>2. CASE holder # r
      BY <2>3, <3>2 DEF Inv, TypeOK, Current, Commit
    <3> QED
      BY <3>1, <3>2
  <2>4. ASSUME Current(q)' PROVE SeesTheLog(q)'
    <3>1. SeesTheLog(q) /\ row' = row
      BY <2>2, <2>3, <2>4
    <3>2. Inserted(r) = {}
      <4>1. \A s \in Inserted(r) : row.lastSeq < s /\ s <= row'.lastSeq
        BY CommittedRow
      <4>2. \A s \in Inserted(r) : s \in Nat
        BY <1>3
      <4> QED
        BY <1>3, <3>1, <4>1, <4>2
    <3>3. DOMAIN log' = {} \/ (DOMAIN log' = DOMAIN log /\ \A s \in DOMAIN log : log'[s] = log[s])
      BY <1>2, <3>2
    <3> QED
      BY <1>1, <3>1, <3>3 DEF SeesTheLog
  <2> QED
    BY <1>1, <2>2, <2>4
<1> QED
  BY <1>6, <1>7 DEF ViewInv

LEMMA DeleteAllUserDataViewInv ==
  ASSUME Inv, ViewInv, NEW p \in Process, DeleteAllUserData(p) PROVE ViewInv'
<1>1. Sound(Nothing)
  BY DEF Sound, Informed, Neighbours, OnEntity, Authored, Nothing
<1>2. ASSUME NEW q \in Request, Transacting(q)'
      PROVE  Sound(view'[q]) /\ ~Current(q)'
  BY <1>2, RequestAssumption DEF ViewInv, Transacting, Current, DeleteAllUserData
<1> QED
  BY <1>1, <1>2 DEF ViewInv, DeleteAllUserData

\* A handler that ends, aborts or is killed is no longer in a transaction.
LEMMA LeavesViewInv ==
  ASSUME Inv, ViewInv, NEW r \in Request,
         \/ \E q \in Uploads \cup Snapshots : Receive(r, q)
         \/ RefuseSnapshot(r) \/ QuotaExceeded(r) \/ Abort(r) \/ Finish(r)
  PROVE  ViewInv'
<1>1. UNCHANGED <<log, row>>
  BY DEF Receive, RefuseSnapshot, QuotaExceeded, Abort, Finish
<1>2. ASSUME NEW q \in Request, Transacting(q)'
      PROVE  /\ Transacting(q) /\ view'[q] = view[q] /\ wipe'[q] = wipe[q]
             /\ stale'[q] = stale[q] /\ (holder' = q <=> holder = q)
  <2>1. ~Transacting(r)'
    BY DEF Inv, TypeOK, Transacting, InTransaction, Receive, RefuseSnapshot, QuotaExceeded,
       Abort, Finish, Forget
  <2> QED
    BY <1>2, <2>1, RequestAssumption
    DEF Inv, TypeOK, Transacting, Receive, RefuseSnapshot, QuotaExceeded, Abort, Finish, Forget
<1> QED
  BY <1>1, <1>2, QuietViewInv

LEMMA RestartViewInv ==
  ASSUME Inv, ViewInv, NEW p \in Process, Restart(p) PROVE ViewInv'
<1>1. ASSUME NEW q \in Request, Transacting(q)'
      PROVE  /\ Transacting(q) /\ view'[q] = view[q] /\ wipe'[q] = wipe[q]
             /\ stale'[q] = stale[q] /\ (holder' = q <=> holder = q)
  <2>1. Home[q] # p
    BY <1>1 DEF Transacting, InTransaction, Restart
  <2> QED
    BY <1>1, <2>1, RequestAssumption DEF Transacting, Restart
<1> QED
  BY <1>1, QuietViewInv DEF Restart

\* Actions that leave every transaction as it was.
LEMMA OutsideViewInv ==
  ASSUME Inv, ViewInv, NEW r \in Request,
         \/ EnterStorageLock(r) \/ AnswerRetry(r) \/ AdmitSnapshot(r)
         \/ QuotaShort(r) \/ SeeTwoRestorePoints(r) \/ ReadOldestRestorePoint(r)
         \/ Reject(r) \/ ClearCaches(r)
  PROVE  ViewInv'
<1>1. UNCHANGED <<log, row>>
  BY DEF EnterStorageLock, AnswerRetry, AdmitSnapshot, QuotaShort, SeeTwoRestorePoints,
     ReadOldestRestorePoint, Reject, ClearCaches
<1>2. ASSUME NEW q \in Request, Transacting(q)'
      PROVE  /\ Transacting(q) /\ view'[q] = view[q] /\ wipe'[q] = wipe[q]
             /\ stale'[q] = stale[q] /\ (holder' = q <=> holder = q)
  BY <1>2 DEF Inv, TypeOK, Transacting, InTransaction, EnterStorageLock, AnswerRetry,
     AdmitSnapshot, QuotaShort, SeeTwoRestorePoints, ReadOldestRestorePoint, Reject, ClearCaches
<1> QED
  BY <1>1, <1>2, QuietViewInv

LEMMA StepViewInv == Inv /\ ViewInv /\ [Next]_vars => ViewInv'
<1> SUFFICES ASSUME Inv, ViewInv, [Next]_vars PROVE ViewInv'
  OBVIOUS
<1>1. CASE UNCHANGED vars
  BY <1>1, QuietViewInv DEF vars, Transacting
<1>2. ASSUME NEW r \in Request, NEW q \in Uploads \cup Snapshots, Receive(r, q) PROVE ViewInv'
  BY <1>2, LeavesViewInv
<1>3. ASSUME NEW r \in Request, DeleteRestorePoint(r) PROVE ViewInv'
  <2>1. cut[r] + 1 \in Int
    BY DEF Inv, TypeOK
  <2>2. \A q \in Request : Transacting(q)' => Transacting(q)
    BY <1>3 DEF Inv, TypeOK, DeleteRestorePoint, Transacting, InTransaction
  <2> QED
    BY <1>3, <2>1, <2>2, PrefixDeletedViewInv DEF DeleteRestorePoint
<1>4. ASSUME NEW r \in Request, Handle(r) PROVE ViewInv'
  BY <1>3, <1>4, OutsideViewInv, LeavesViewInv, BeginViewInv, LockRowViewInv, AcceptViewInv,
     CommitViewInv DEF Handle
<1>5. ASSUME NEW p \in Process, DeleteAllUserData(p) \/ ClearWipedCaches(p) \/ Restart(p)
      PROVE  ViewInv'
  <2>1. CASE ClearWipedCaches(p)
    BY <2>1, QuietViewInv DEF ClearWipedCaches, Transacting
  <2> QED
    BY <1>5, <2>1, DeleteAllUserDataViewInv, RestartViewInv
<1>6. ASSUME NEW p \in Process, NEW key \in DOMAIN dedup[p], Expire(p, key) PROVE ViewInv'
  BY <1>6, QuietViewInv DEF Expire, Transacting
<1>7. ASSUME NEW s \in DOMAIN log, StartSweep(s) PROVE ViewInv'
  BY <1>7, QuietViewInv DEF StartSweep, Transacting
<1>8. ASSUME NEW end \in 1..sweepTo, SweepWindow(end) PROVE ViewInv'
  BY <1>8, PrefixDeletedViewInv DEF SweepWindow, Transacting
<1>9. CASE StopSweep
  BY <1>9, QuietViewInv DEF StopSweep, Transacting
<1> QED
  BY <1>1, <1>2, <1>4, <1>5, <1>6, <1>7, <1>8, <1>9 DEF Next

(***************************************************************************)
(* No lost update: whatever transactions race, however small the bound on  *)
(* clocks, and whatever is deleted meanwhile, the later of two neighbours  *)
(* on an entity was made knowing the earlier (conflict.ts decides on the   *)
(* snapshot, ADR 4 on who may commit).                                     *)
(***************************************************************************)
THEOREM UpdatesAreNeverLost == Spec => []NoLostUpdate
<1>1. Inv /\ ViewInv /\ [Next]_vars => ViewInv'
  BY StepViewInv
<1>2. ViewInv => NoLostUpdate
  BY DEF ViewInv, Sound, NoLostUpdate
<1> QED
  BY <1>1, <1>2, InitViewInv, Invariance, PTL DEF Spec

-----------------------------------------------------------------------------
(***************************************************************************)
(* What the server promises of its history.                                *)
(***************************************************************************)

-----------------------------------------------------------------------------
(* Steps outside the transactions: they may end a transaction, and delete rows, *)
(* but change nothing of a transaction that goes on.                            *)

InTheTransaction(r) == Begin(r) \/ LockRow(r) \/ Reject(r) \/ Accept(r) \/ Commit(r)

\* What a transaction has read, holds and is going to write.
SameTransaction(q) ==
  /\ Transacting(q) /\ stage'[q] = stage[q]
  /\ batch'[q] = batch[q] /\ cursor'[q] = cursor[q] /\ wipe'[q] = wipe[q]
  /\ view'[q] = view[q] /\ trow'[q] = trow[q] /\ results'[q] = results[q]
  /\ (holder' = q <=> holder = q) /\ (stale[q] => stale'[q])

Deletes == \A s \in DOMAIN log' : s \in DOMAIN log /\ log'[s] = log[s]

LEMMA FromDeletes ==
  ASSUME NEW n, log' = From(log, n) PROVE Deletes
BY DEF From, Deletes

LEMMA HandlerOutside ==
  ASSUME Inv, NEW r \in Request, Handle(r), ~InTheTransaction(r)
  PROVE  /\ Deletes /\ \A q \in Request : Transacting(q)' => SameTransaction(q)
         /\ row' = row
<1>1. CASE Abort(r) \/ Finish(r) \/ RefuseSnapshot(r) \/ QuotaExceeded(r)
  <2>1. ~Transacting(r)'
    BY <1>1 DEF Inv, TypeOK, Transacting, InTransaction, Abort, Finish, RefuseSnapshot,
       QuotaExceeded, Forget
  <2> QED
    BY <1>1, <2>1, RequestAssumption
    DEF Inv, TypeOK, Transacting, SameTransaction, Deletes, Abort, Finish, RefuseSnapshot,
        QuotaExceeded, Forget
<1>2. CASE EnterStorageLock(r) \/ AnswerRetry(r) \/ AdmitSnapshot(r) \/ QuotaShort(r)
           \/ SeeTwoRestorePoints(r) \/ ReadOldestRestorePoint(r) \/ ClearCaches(r)
  BY <1>2 DEF Inv, TypeOK, Transacting, InTransaction, SameTransaction, Deletes,
     EnterStorageLock, AnswerRetry, AdmitSnapshot, QuotaShort, SeeTwoRestorePoints,
     ReadOldestRestorePoint, ClearCaches
<1>3. CASE DeleteRestorePoint(r)
  <2>1. Deletes
    BY <1>3, FromDeletes DEF DeleteRestorePoint
  <2> QED
    BY <1>3, <2>1 DEF Inv, TypeOK, Transacting, InTransaction, SameTransaction,
       DeleteRestorePoint
<1> QED
  BY <1>1, <1>2, <1>3 DEF Handle, InTheTransaction

LEMMA Outside ==
  ASSUME Inv, [Next]_vars, \A r \in Request : ~InTheTransaction(r)
  PROVE  Deletes /\ \A q \in Request : Transacting(q)' => SameTransaction(q)
<1>1. CASE UNCHANGED vars
  BY <1>1 DEF vars, Transacting, SameTransaction, Deletes
<1>2. ASSUME NEW r \in Request, NEW q \in Uploads \cup Snapshots, Receive(r, q)
      PROVE  Deletes /\ \A t \in Request : Transacting(t)' => SameTransaction(t)
  BY <1>2 DEF Inv, TypeOK, Transacting, InTransaction, SameTransaction, Deletes, Receive
<1>3. ASSUME NEW r \in Request, Handle(r)
      PROVE  Deletes /\ \A q \in Request : Transacting(q)' => SameTransaction(q)
  BY <1>3, HandlerOutside
<1>4. ASSUME NEW p \in Process, Restart(p)
      PROVE  Deletes /\ \A q \in Request : Transacting(q)' => SameTransaction(q)
  <2>1. ASSUME NEW q \in Request, Transacting(q)' PROVE Home[q] # p
    BY <1>4, <2>1 DEF Transacting, InTransaction, Restart
  <2>2. ASSUME NEW q \in Request, Transacting(q)' PROVE SameTransaction(q)
    BY <1>4, <2>1, <2>2, RequestAssumption DEF Transacting, SameTransaction, Restart
  <2> QED
    BY <1>4, <2>2 DEF Deletes, Restart
<1>5. ASSUME NEW p \in Process, DeleteAllUserData(p) \/ ClearWipedCaches(p)
      PROVE  Deletes /\ \A q \in Request : Transacting(q)' => SameTransaction(q)
  BY <1>5 DEF Transacting, SameTransaction, Deletes, DeleteAllUserData, ClearWipedCaches,
     Nothing
<1>6. ASSUME NEW p \in Process, NEW key \in DOMAIN dedup[p], Expire(p, key)
      PROVE  Deletes /\ \A q \in Request : Transacting(q)' => SameTransaction(q)
  BY <1>6 DEF Transacting, SameTransaction, Deletes, Expire
<1>7. ASSUME NEW s \in DOMAIN log, StartSweep(s)
      PROVE  Deletes /\ \A q \in Request : Transacting(q)' => SameTransaction(q)
  BY <1>7 DEF Transacting, SameTransaction, Deletes, StartSweep
<1>8. ASSUME NEW end \in 1..sweepTo, SweepWindow(end)
      PROVE  Deletes /\ \A q \in Request : Transacting(q)' => SameTransaction(q)
  BY <1>8, FromDeletes DEF Transacting, SameTransaction, SweepWindow
<1>9. CASE StopSweep
  BY <1>9 DEF Transacting, SameTransaction, Deletes, StopSweep
<1> QED
  BY <1>1, <1>2, <1>3, <1>4, <1>5, <1>6, <1>7, <1>8, <1>9 DEF Next

-----------------------------------------------------------------------------
(* An id is stored once. *)

OnceInv ==
  /\ Once(log)
  /\ \A r \in Request : Transacting(r) => Once(view[r])

\* A log contained in one that stores every id once does so too.
LEMMA PartOnce ==
  ASSUME NEW v, Once(v), NEW l, \A s \in DOMAIN l : s \in DOMAIN v /\ l[s] = v[s]
  PROVE  Once(l)
BY DEF Once

LEMMA BeginOnceInv ==
  ASSUME Inv, OnceInv, NEW r \in Request, Begin(r) \/ LockRow(r) \/ Reject(r) PROVE OnceInv'
<1>1. /\ log' = log
      /\ \A q \in Request \ {r} : Transacting(q)' => Transacting(q) /\ view'[q] = view[q]
      /\ Transacting(r)' =>
           view'[r] \in {log, Nothing} \/ (Transacting(r) /\ view'[r] = view[r])
  BY DEF Inv, TypeOK, Transacting, InTransaction, Begin, LockRow, Reject, Working
<1>2. Once(Nothing)
  BY DEF Once, Nothing
<1> QED
  BY <1>1, <1>2 DEF OnceInv

LEMMA AcceptOnceInv ==
  ASSUME Inv, OnceInv, NEW r \in Request, Accept(r) PROVE OnceInv'
<1> DEFINE o   == batch[r][Index(r)]
           seq == trow[r].lastSeq + 1
           new == [id |-> o, known |-> cursor[r], clock |-> StoredClock(view[r], o, cursor[r])]
           grown == [s \in DOMAIN view[r] \cup {seq} |-> IF s = seq THEN new ELSE view[r][s]]
<1>1. /\ view'[r] = grown /\ Transacting(r)
      /\ \A q \in Request \ {r} : view'[q] = view[q]
      /\ UNCHANGED <<log, stage>>
      /\ Rejection(r) = "NONE"
  BY DEF Inv, TypeOK, Accept, Working, Transacting, InTransaction
<1>2. o \notin StoredIds(view[r])
  BY <1>1 DEF Rejection
<1>3. \A s \in DOMAIN view[r] : view[r][s].id # new.id
  BY <1>2 DEF StoredIds
<1>4. Once(view[r])
  BY <1>1 DEF OnceInv
<1> HIDE DEF o, seq, new
<1>5. Once(grown)
  BY <1>3, <1>4 DEF Once
<1> QED
  BY <1>1, <1>5 DEF OnceInv, Transacting

LEMMA CommitOnceInv ==
  ASSUME Inv, ViewInv, OnceInv, NEW r \in Request, Commit(r) PROVE OnceInv'
<1> DEFINE kept == IF wipe[r] THEN {} ELSE DOMAIN log
<1>1. /\ log' = [s \in kept \cup Inserted(r) |-> IF s \in Inserted(r) THEN view[r][s] ELSE log[s]]
      /\ UNCHANGED view
      /\ Transacting(r) /\ stage[r] = "working"
  BY DEF Commit, Transacting, InTransaction
<1>2. Once(view[r]) /\ Once(log) /\ (Current(r) => SeesTheLog(r))
  BY <1>1 DEF OnceInv, ViewInv
<1>3. wipe[r] => holder = r
  BY <1>1 DEF Inv, HandlerInv, NeedsRowLock
<1>4. Inserted(r) \subseteq DOMAIN view[r]
  BY DEF Inserted
<1>5. Once(log')
  <2>1. CASE wipe[r]
    BY <1>1, <1>2, <1>4, <2>1, PartOnce
  <2>2. CASE ~wipe[r] /\ holder = r
    <3>1. SeesTheLog(r)
      BY <1>2, <2>2 DEF Current
    <3>2. ASSUME NEW s \in DOMAIN log' PROVE s \in DOMAIN view[r] /\ log'[s] = view[r][s]
      BY <1>1, <1>4, <2>2, <3>1 DEF SeesTheLog
    <3> QED
      BY <1>2, <3>2, PartOnce
  <2>3. CASE ~wipe[r] /\ holder # r
    <3>1. Inserted(r) = {}
      BY <1>1, <2>3, InsertsNeedTheRow
    <3>2. ASSUME NEW s \in DOMAIN log' PROVE s \in DOMAIN log /\ log'[s] = log[s]
      BY <1>1, <2>3, <3>1
    <3> QED
      BY <1>2, <3>2, PartOnce
  <2> QED
    BY <1>3, <2>1, <2>2, <2>3
<1>6. ASSUME NEW q \in Request, Transacting(q)' PROVE Once(view'[q])
  <2>1. q # r /\ Transacting(q)
    BY <1>6 DEF Inv, TypeOK, Transacting, InTransaction, Commit
  <2> QED
    BY <1>1, <2>1 DEF OnceInv
<1> QED
  BY <1>5, <1>6 DEF OnceInv

\* An operation id is stored at most once: the id check reads the transaction's
\* snapshot, and who commits has read all that the log retains.
THEOREM OperationsAreStoredOnce == Spec => []StoredOnce
<1>1. Init => OnceInv
  BY HistoryIsOnce DEF Init, OnceInv, Transacting, InTransaction
<1>2. Inv /\ ViewInv /\ OnceInv /\ [Next]_vars => OnceInv'
  <2> SUFFICES ASSUME Inv, ViewInv, OnceInv, [Next]_vars PROVE OnceInv'
    OBVIOUS
  <2>1. CASE \E r \in Request : InTheTransaction(r)
    BY <2>1, BeginOnceInv, AcceptOnceInv, CommitOnceInv DEF InTheTransaction
  <2>2. CASE \A r \in Request : ~InTheTransaction(r)
    BY <2>2, Outside, PartOnce DEF OnceInv, Deletes, SameTransaction
  <2> QED
    BY <2>1, <2>2
<1>3. OnceInv => StoredOnce
  BY DEF OnceInv, StoredOnce
<1> QED
  BY <1>1, <1>2, <1>3, InitViewInv, StepViewInv, Invariance, PTL DEF Spec

-----------------------------------------------------------------------------
(***************************************************************************)
(* Only superseded history disappears.  A deletion is decided in one step  *)
(* and made in a later one.  What keeps it right is that everything below  *)
(* a boundary stays superseded while others delete, commit or wipe.        *)
(***************************************************************************)

\* To delete every row below n leaves a checkpoint, or deletes nothing.
Safe(n) == (\E s \in CausalRows(log) : s >= n) \/ (\A s \in DOMAIN log : s >= n)

Planned == {cut[r] + 1 : r \in {q \in Request : cut[q] # 0}} \cup ({sweepTo} \ {0})

GapInv ==
  /\ \A n \in Planned : n <= row.lastSeq + 1 /\ Safe(n)
  /\ GapsAreSuperseded

\* The oldest restore point goes when another one is left, else what is before it.
LEMMA DeletableIsSafe ==
  ASSUME Inv, Deletable(log) # 0
  PROVE  Deletable(log) + 1 <= row.lastSeq + 1 /\ Safe(Deletable(log) + 1)
<1> DEFINE C == CausalRows(log)
<1>1. C \in SUBSET Nat /\ IsFiniteSet(C) /\ C \subseteq DOMAIN log
  BY FS_Subset DEF Inv, TypeOK, IsLog, CausalRows
<1>2. C # {}
  <2> SUFFICES ASSUME C = {} PROVE FALSE
    OBVIOUS
  <2>1. ~TwoRestorePoints(log)
    BY FS_EmptySet DEF TwoRestorePoints
  <2> QED
    BY <2>1 DEF Deletable
<1>3. Oldest(C) \in C /\ \A t \in C : Oldest(C) <= t
  BY <1>1, <1>2, OldestOf
<1>4. Oldest(C) \in Nat /\ Oldest(C) <= row.lastSeq /\ row.lastSeq \in Nat
  <2>1. Oldest(C) \in DOMAIN log
    BY <1>1, <1>3
  <2> QED
    BY <1>1, <1>3, <2>1 DEF Inv, TypeOK, SyncState
<1>5. CASE TwoRestorePoints(log)
  <2>1. Deletable(log) = Oldest(C)
    BY <1>2, <1>5 DEF Deletable
  <2>2. C # {Oldest(C)}
    <3>1. Cardinality({Oldest(C)}) = 1
      BY FS_Singleton
    <3>2. Cardinality(C) >= 2
      BY <1>5 DEF TwoRestorePoints
    <3> HIDE DEF C
    <3> QED
      BY <3>1, <3>2
  <2>3. PICK t \in C : t # Oldest(C)
    BY <1>3, <2>2
  <2>4. t >= Oldest(C) + 1
    BY <1>1, <1>3, <1>4, <2>3
  <2> QED
    BY <1>4, <2>1, <2>4 DEF Safe
<1>6. CASE ~TwoRestorePoints(log)
  <2>1. Deletable(log) = Oldest(C) - 1
    BY <1>2, <1>6 DEF Deletable
  <2> QED
    BY <1>3, <1>4, <2>1 DEF Safe
<1> QED
  BY <1>5, <1>6

\* Deleting below a safe boundary keeps every boundary safe, and the gaps superseded.
LEMMA SafeDeletion ==
  ASSUME Inv, NEW n \in Nat, Safe(n), log' = From(log, n)
  PROVE  /\ \A m \in Nat : Safe(m) => Safe(m)'
         /\ UNCHANGED <<published, wipedAt>> /\ GapsAreSuperseded => GapsAreSuperseded'
<1>1. /\ DOMAIN log' = {s \in DOMAIN log : s >= n}
      /\ \A s \in DOMAIN log' : log'[s] = log[s]
      /\ DOMAIN log \subseteq Nat
  BY DEF Inv, TypeOK, IsLog, From
<1>2. \A s \in CausalRows(log) : s >= n => s \in CausalRows(log)'
  BY <1>1 DEF CausalRows, KindAt
<1>3. CausalRows(log) \subseteq Nat
  BY <1>1 DEF CausalRows
<1>4. ASSUME NEW m \in Nat, Safe(m) PROVE Safe(m)'
  <2>1. CASE \A s \in DOMAIN log : s >= m
    BY <1>1, <2>1 DEF Safe
  <2>2. ASSUME NEW s \in CausalRows(log), s >= m PROVE Safe(m)'
    <3>1. CASE s >= n
      BY <1>2, <2>2, <3>1 DEF Safe
    <3>2. CASE \E t \in CausalRows(log) : t >= n
      <4>1. PICK t \in CausalRows(log) : t >= n
        BY <3>2
      <4>2. t >= m \/ s >= n
        BY <1>3, <2>2, <4>1
      <4> QED
        BY <1>2, <3>1, <4>1, <4>2 DEF Safe
    <3>3. CASE \A t \in DOMAIN log : t >= n
      <4>1. s \in DOMAIN log
        BY DEF CausalRows
      <4> QED
        BY <3>1, <3>3, <4>1
    <3> QED
      BY <3>1, <3>2, <3>3 DEF Safe
  <2> QED
    BY <1>4, <2>1, <2>2 DEF Safe
<1>5. ASSUME UNCHANGED <<published, wipedAt>>, GapsAreSuperseded PROVE GapsAreSuperseded'
  <2> SUFFICES ASSUME NEW p \in published, p[1] > wipedAt
               PROVE  p[1] \in DOMAIN log' \/ \E s \in CausalRows(log)' : s > p[1]
    BY <1>5 DEF GapsAreSuperseded
  <2>1. p[1] \in Nat
    BY DEF Inv, TypeOK
  <2>2. CASE p[1] \in DOMAIN log
    <3>1. CASE p[1] >= n
      BY <1>1, <2>2, <3>1
    <3>2. CASE ~(p[1] >= n)
      <4>1. PICK s \in CausalRows(log) : s >= n
        BY <2>2, <3>2 DEF Safe
      <4> QED
        BY <1>2, <1>3, <2>1, <3>2, <4>1
    <3> QED
      BY <3>1, <3>2
  <2>3. ASSUME NEW s \in CausalRows(log), s > p[1]
        PROVE  \E t \in CausalRows(log)' : t > p[1]
    <3>1. CASE s >= n
      BY <1>2, <2>3, <3>1
    <3>2. CASE ~(s >= n)
      <4>1. s \in DOMAIN log
        BY DEF CausalRows
      <4>2. PICK t \in CausalRows(log) : t >= n
        BY <3>2, <4>1 DEF Safe
      <4> QED
        BY <1>2, <1>3, <2>1, <2>3, <3>2, <4>2
    <3> QED
      BY <3>1, <3>2
  <2> QED
    BY <1>5, <2>2, <2>3 DEF GapsAreSuperseded
<1> QED
  BY <1>4, <1>5

\* A commit adds rows above all others, in front of which a wipe leaves none.
LEMMA CommitGapInv ==
  ASSUME Inv, GapInv, NEW r \in Request, Commit(r) PROVE GapInv'
<1> DEFINE kept == IF wipe[r] THEN {} ELSE DOMAIN log
<1>1. /\ log' = [s \in kept \cup Inserted(r) |-> IF s \in Inserted(r) THEN view[r][s] ELSE log[s]]
      /\ published' = published \cup {<<s, view[r][s].id>> : s \in Inserted(r)}
      /\ wipedAt' = IF wipe[r] THEN row.lastSeq ELSE wipedAt
      /\ UNCHANGED <<cut, sweepTo>>
  BY DEF Commit
<1>2. /\ row.lastSeq \in Nat /\ row'.lastSeq \in Nat /\ row.lastSeq <= row'.lastSeq
      /\ \A s \in Inserted(r) : s \in Nat /\ row.lastSeq < s
      /\ \A s \in DOMAIN log : s \in Nat /\ s <= row.lastSeq
  BY CommittedRow DEF Inv, TypeOK, IsLog, SyncState, Inserted
<1>3. /\ DOMAIN log' = kept \cup Inserted(r)
      /\ \A s \in kept : log'[s] = log[s]
  <2>1. \A s \in kept : s \notin Inserted(r)
    BY <1>2
  <2> QED
    BY <1>1, <2>1
<1>4. ~wipe[r] => CausalRows(log) \subseteq CausalRows(log)'
  BY <1>3 DEF CausalRows, KindAt
<1>5. ASSUME NEW n \in Planned' PROVE n <= row'.lastSeq + 1 /\ Safe(n)'
  <2>1. n \in Planned /\ n \in Nat
    BY <1>1 DEF Planned, Inv, TypeOK
  <2>2. n <= row.lastSeq + 1 /\ Safe(n)
    BY <2>1 DEF GapInv
  <2>3. \A s \in Inserted(r) : s >= n
    BY <1>2, <2>1, <2>2
  <2>4. Safe(n)'
    BY <1>3, <1>4, <2>2, <2>3 DEF Safe
  <2> QED
    BY <1>2, <2>1, <2>2, <2>4
<1>6. ASSUME NEW p \in published', p[1] > wipedAt'
      PROVE  p[1] \in DOMAIN log' \/ \E s \in CausalRows(log)' : s > p[1]
  <2>1. CASE p \in published
    <3>1. p[1] <= row.lastSeq /\ p[1] \in Nat
      BY <2>1 DEF Inv, RowInv, TypeOK
    <3>2. ~wipe[r] /\ p[1] > wipedAt
      BY <1>1, <1>2, <1>6, <3>1
    <3> QED
      BY <1>3, <1>4, <2>1, <3>2 DEF GapInv, GapsAreSuperseded
  <2>2. CASE p \notin published
    BY <1>1, <1>3, <2>2
  <2> QED
    BY <2>1, <2>2
<1> QED
  BY <1>5, <1>6 DEF GapInv, GapsAreSuperseded

\* A step that leaves the log alone and plans nothing new.
LEMMA QuietGapInv ==
  ASSUME GapInv, UNCHANGED <<log, row, published, wipedAt>>, Planned' \subseteq Planned
  PROVE  GapInv'
BY DEF GapInv, GapsAreSuperseded, Safe

LEMMA HandlerGapInv ==
  ASSUME Inv, GapInv, NEW r \in Request, Handle(r) PROVE GapInv'
<1>1. CASE Commit(r)
  BY <1>1, CommitGapInv
<1>2. CASE ReadOldestRestorePoint(r)
  <2>1. /\ UNCHANGED <<log, row, published, wipedAt, sweepTo>>
        /\ \A q \in Request : cut'[q] = cut[q] \/ (q = r /\ cut'[q] = Deletable(log))
        /\ Deletable(log) # 0
    BY <1>2 DEF Inv, TypeOK, ReadOldestRestorePoint, ghosts
  <2>2. Planned' \subseteq Planned \cup {Deletable(log) + 1}
    BY <2>1 DEF Planned
  <2> QED
    BY <2>1, <2>2, DeletableIsSafe DEF GapInv, GapsAreSuperseded, Safe
<1>3. CASE DeleteRestorePoint(r)
  <2>1. /\ UNCHANGED <<row, published, wipedAt, sweepTo>> /\ cut[r] # 0
        /\ log' = From(log, cut[r] + 1)
        /\ \A q \in Request : cut'[q] = cut[q] \/ cut'[q] = 0
    BY <1>3 DEF Inv, TypeOK, DeleteRestorePoint, ghosts
  <2>2. cut[r] + 1 \in Planned /\ cut[r] + 1 \in Nat
    BY <2>1 DEF Planned, Inv, TypeOK
  <2>3. Planned' \subseteq Planned /\ Planned \subseteq Nat
    BY <2>1 DEF Planned, Inv, TypeOK
  <2> QED
    BY <2>1, <2>2, <2>3, SafeDeletion DEF GapInv
<1>4. CASE \/ EnterStorageLock(r) \/ AnswerRetry(r) \/ AdmitSnapshot(r) \/ QuotaShort(r)
           \/ SeeTwoRestorePoints(r) \/ Begin(r) \/ LockRow(r) \/ Reject(r) \/ Accept(r)
           \/ Abort(r) \/ ClearCaches(r)
  <2>1. UNCHANGED <<log, row, published, wipedAt, cut, sweepTo>>
    BY <1>4 DEF EnterStorageLock, AnswerRetry, AdmitSnapshot, QuotaShort, SeeTwoRestorePoints,
       Begin, LockRow, Reject, Accept, Abort, ClearCaches, ghosts
  <2> QED
    BY <2>1, QuietGapInv DEF Planned
<1>5. CASE RefuseSnapshot(r) \/ QuotaExceeded(r) \/ Finish(r)
  <2>1. /\ UNCHANGED <<log, row, published, wipedAt, sweepTo>>
        /\ \A q \in Request : cut'[q] = cut[q] \/ cut'[q] = 0
    BY <1>5 DEF Inv, TypeOK, RefuseSnapshot, QuotaExceeded, Finish, Forget, ghosts
  <2> QED
    BY <2>1, QuietGapInv DEF Planned
<1> QED
  BY <1>1, <1>2, <1>3, <1>4, <1>5 DEF Handle

LEMMA InitGapInv == Init => GapInv
<1> SUFFICES ASSUME Init PROVE GapInv
  OBVIOUS
<1>1. Planned = {}
  BY DEF Init, Planned
<1>2. GapsAreSuperseded
  BY DEF Init, GapsAreSuperseded
<1> QED
  BY <1>1, <1>2 DEF GapInv

LEMMA StepGapInv ==
  ASSUME Inv, GapInv, [Next]_vars PROVE GapInv'
<1>1. CASE UNCHANGED vars
  BY <1>1, QuietGapInv DEF vars, Planned
<1>2. ASSUME NEW r \in Request, NEW q \in Uploads \cup Snapshots, Receive(r, q) PROVE GapInv'
  BY <1>2, QuietGapInv DEF Receive, Planned, ghosts
<1>3. ASSUME NEW r \in Request, Handle(r) PROVE GapInv'
  BY <1>3, HandlerGapInv
<1>4. ASSUME NEW p \in Process, DeleteAllUserData(p) PROVE GapInv'
  <2>1. /\ DOMAIN log' = {} /\ wipedAt' = row.lastSeq /\ row'.lastSeq = row.lastSeq
        /\ UNCHANGED <<published, cut, sweepTo>>
    BY <1>4 DEF Inv, TypeOK, DeleteAllUserData, Nothing, Wiped, NewState
  <2>2. ASSUME NEW p1 \in published PROVE ~(p1[1] > row.lastSeq)
    BY DEF Inv, RowInv, TypeOK, SyncState
  <2>3. GapsAreSuperseded'
    BY <2>1, <2>2 DEF GapsAreSuperseded
  <2> QED
    BY <2>1, <2>3 DEF GapInv, Safe, Planned
<1>5. ASSUME NEW p \in Process, ClearWipedCaches(p) PROVE GapInv'
  BY <1>5, QuietGapInv DEF ClearWipedCaches, Planned, ghosts
<1>6. ASSUME NEW p \in Process, Restart(p) PROVE GapInv'
  <2>1. /\ UNCHANGED <<log, row, published, wipedAt, sweepTo>>
        /\ \A q \in Request : cut'[q] = cut[q] \/ cut'[q] = 0
    BY <1>6 DEF Inv, TypeOK, Restart, ghosts
  <2> QED
    BY <2>1, QuietGapInv DEF Planned
<1>7. ASSUME NEW p \in Process, NEW key \in DOMAIN dedup[p], Expire(p, key) PROVE GapInv'
  BY <1>7, QuietGapInv DEF Expire, Planned, ghosts
<1>8. ASSUME NEW s \in DOMAIN log, StartSweep(s) PROVE GapInv'
  <2>1. /\ UNCHANGED <<log, row, published, wipedAt, cut>> /\ sweepTo' = s
        /\ s \in CausalRows(log)
    BY <1>8 DEF StartSweep, Boundaries, ghosts
  <2>2. s \in Nat /\ s <= row.lastSeq + 1
    BY DEF Inv, TypeOK, IsLog, SyncState
  <2>3. Safe(s)
    BY <2>1, <2>2 DEF Safe
  <2>4. Planned' \subseteq Planned \cup {s}
    BY <2>1 DEF Planned
  <2> QED
    BY <2>1, <2>2, <2>3, <2>4 DEF GapInv, GapsAreSuperseded, Safe
<1>9. ASSUME NEW end \in 1..sweepTo, SweepWindow(end) PROVE GapInv'
  <2>1. /\ UNCHANGED <<row, published, wipedAt, cut, sweepTo>> /\ sweepTo # 0
        /\ log' = From(log, end)
    BY <1>9 DEF SweepWindow, ghosts
  <2>2. sweepTo \in Planned /\ Planned' = Planned /\ Planned \subseteq Nat
    BY <2>1 DEF Planned, Inv, TypeOK
  <2>3. Safe(end)
    <3>1. Safe(sweepTo) /\ sweepTo \in Nat /\ end <= sweepTo /\ end \in Nat
      BY <2>2 DEF GapInv
    <3>2. DOMAIN log \subseteq Nat /\ CausalRows(log) \subseteq Nat
      BY DEF Inv, TypeOK, IsLog, CausalRows
    <3> QED
      BY <3>1, <3>2 DEF Safe
  <2> QED
    BY <2>1, <2>2, <2>3, SafeDeletion DEF GapInv
<1>10. CASE StopSweep
  <2>1. Planned' \subseteq Planned
    BY <1>10 DEF StopSweep, Planned
  <2> QED
    BY <1>10, <2>1, QuietGapInv DEF StopSweep, ghosts
<1> QED
  BY <1>1, <1>2, <1>3, <1>4, <1>5, <1>6, <1>7, <1>8, <1>9, <1>10 DEF Next

(***************************************************************************)
(* Only superseded history disappears, however quota cleanups, sweeps,     *)
(* wipes and uploads interleave: cleanup (deleteOldestRestorePointAndOps)  *)
(* decides in one statement and deletes in another, a sweep in many.       *)
(***************************************************************************)
THEOREM OnlySupersededHistoryDisappears == Spec => []GapsAreSuperseded
<1>1. Init => GapInv
  BY InitGapInv
<1>2. Inv /\ GapInv /\ [Next]_vars => GapInv'
  BY StepGapInv
<1>3. GapInv => GapsAreSuperseded
  BY DEF GapInv
<1> QED
  BY <1>1, <1>2, <1>3, Invariance, PTL DEF Spec

-----------------------------------------------------------------------------
(* Requests, accepted operations and repairs. *)

-----------------------------------------------------------------------------
(* What a request carries. *)

RequestInv ==
  \A r \in Request :
    /\ \A i \in 1..Len(batch[r]) : Content[batch[r][i]].kind \in FullStateKinds => Len(batch[r]) = 1
    /\ wipe[r] => Len(batch[r]) = 1 /\ Content[batch[r][1]].kind \in Imports
    /\ stage[r] \notin {"idle", "queued"} /\ IsFullState(batch[r]) => occupied[r] = {}

LEMMA InitRequestInv == Init => RequestInv
BY DEF Init, RequestInv

LEMMA QuietRequestInv ==
  ASSUME RequestInv,
         \A q \in Request : stage'[q] \in {"idle", "queued"} \/ stage[q] \notin {"idle", "queued"},
         UNCHANGED <<batch, wipe, occupied>>
  PROVE  RequestInv'
BY DEF RequestInv

\* A handler that has ended carries nothing.
LEMMA EndedRequestInv ==
  ASSUME RequestInv,
         \A q \in Request :
            \/ stage'[q] = "idle" /\ batch'[q] = <<>> /\ ~wipe'[q]
            \/ stage'[q] = stage[q] /\ batch'[q] = batch[q] /\ wipe'[q] = wipe[q]
               /\ occupied'[q] = occupied[q]
  PROVE  RequestInv'
<1>1. ASSUME NEW q \in Request, stage'[q] = "idle" /\ batch'[q] = <<>> /\ ~wipe'[q]
      PROVE  /\ \A i \in 1..Len(batch'[q]) :
                  Content[batch'[q][i]].kind \in FullStateKinds => Len(batch'[q]) = 1
             /\ wipe'[q] => Len(batch'[q]) = 1 /\ Content[batch'[q][1]].kind \in Imports
             /\ stage'[q] \notin {"idle", "queued"} /\ IsFullState(batch'[q]) => occupied'[q] = {}
  BY <1>1
<1> QED
  BY <1>1 DEF RequestInv

LEMMA ReceiveRequestInv ==
  ASSUME Inv, RequestInv, NEW r \in Request, NEW q \in Uploads \cup Snapshots, Receive(r, q)
  PROVE  RequestInv'
<1>1. /\ \A i \in 1..Len(q.b) : Content[q.b[i]].kind \in FullStateKinds => Len(q.b) = 1
      /\ q.w => Len(q.b) = 1 /\ Content[q.b[1]].kind \in Imports
  <2>1. CASE q \in Uploads
    <3>1. q.b \in Batches /\ ~q.w
      BY <2>1 DEF Uploads
    <3> QED
      BY <3>1, BatchAssumption
  <2>2. CASE q \in Snapshots
    <3>1. PICK o \in {x \in Op : Content[x].kind \in FullStateKinds}, k \in CursorsSoFar,
               w \in BOOLEAN : q = [b |-> <<o>>, k |-> k, w |-> w]
      BY <2>2 DEF Snapshots
    <3>2. q.b = <<o>> /\ q.w = w /\ Len(q.b) = 1 /\ q.b[1] = o
      BY <3>1
    <3>3. Content[o].kind = "REPAIR" => ~w
      BY <3>2 DEF Receive, Sendable
    <3> QED
      BY <3>2, <3>3 DEF FullStateKinds
  <2> QED
    BY <2>1, <2>2
<1>2. /\ batch'[r] = q.b /\ wipe'[r] = q.w /\ stage'[r] = "queued"
      /\ \A t \in Request \ {r} : batch'[t] = batch[t] /\ wipe'[t] = wipe[t] /\ stage'[t] = stage[t]
      /\ occupied' = occupied
  BY DEF Inv, TypeOK, Receive
<1> QED
  BY <1>1, <1>2 DEF RequestInv

LEMMA HandlerRequestInv ==
  ASSUME Inv, RequestInv, NEW r \in Request, Handle(r) PROVE RequestInv'
<1>1. CASE EnterStorageLock(r)
  BY <1>1 DEF Inv, TypeOK, RequestInv, EnterStorageLock
<1>2. CASE RefuseSnapshot(r) \/ QuotaExceeded(r) \/ Finish(r)
  <2>1. Forget(r)
    BY <1>2 DEF RefuseSnapshot, QuotaExceeded, Finish
  <2> QED
    BY <2>1, EndedRequestInv DEF Inv, TypeOK, Forget
<1>3. CASE \/ AnswerRetry(r) \/ AdmitSnapshot(r) \/ QuotaShort(r) \/ SeeTwoRestorePoints(r)
           \/ ReadOldestRestorePoint(r) \/ DeleteRestorePoint(r) \/ ClearCaches(r)
  BY <1>3, QuietRequestInv DEF Inv, TypeOK, AnswerRetry, AdmitSnapshot, QuotaShort,
     SeeTwoRestorePoints, ReadOldestRestorePoint, DeleteRestorePoint, ClearCaches
<1>4. CASE Begin(r) \/ LockRow(r) \/ Reject(r) \/ Accept(r) \/ Commit(r) \/ Abort(r)
  BY <1>4, QuietRequestInv DEF Inv, TypeOK, InTransaction, Working, Begin, LockRow, Reject,
     Accept, Commit, Abort
<1> QED
  BY <1>1, <1>2, <1>3, <1>4 DEF Handle

LEMMA StepRequestInv ==
  ASSUME Inv, RequestInv, [Next]_vars PROVE RequestInv'
<1>1. CASE UNCHANGED vars
  BY <1>1, QuietRequestInv DEF vars
<1>2. ASSUME NEW r \in Request, NEW q \in Uploads \cup Snapshots, Receive(r, q) PROVE RequestInv'
  BY <1>2, ReceiveRequestInv
<1>3. ASSUME NEW r \in Request, Handle(r) PROVE RequestInv'
  BY <1>3, HandlerRequestInv
<1>4. ASSUME NEW p \in Process, Restart(p) PROVE RequestInv'
  BY <1>4, EndedRequestInv DEF Restart
<1>5. ASSUME NEW p \in Process, DeleteAllUserData(p) \/ ClearWipedCaches(p) PROVE RequestInv'
  BY <1>5, QuietRequestInv DEF DeleteAllUserData, ClearWipedCaches
<1>6. ASSUME NEW p \in Process, NEW key \in DOMAIN dedup[p], Expire(p, key) PROVE RequestInv'
  BY <1>6, QuietRequestInv DEF Expire
<1>7. ASSUME NEW s \in DOMAIN log, StartSweep(s) PROVE RequestInv'
  BY <1>7, QuietRequestInv DEF StartSweep
<1>8. ASSUME NEW end \in 1..sweepTo, SweepWindow(end) PROVE RequestInv'
  BY <1>8, QuietRequestInv DEF SweepWindow
<1>9. CASE StopSweep
  BY <1>9, QuietRequestInv DEF StopSweep
<1> QED
  BY <1>1, <1>2, <1>3, <1>4, <1>5, <1>6, <1>7, <1>8, <1>9 DEF Next

-----------------------------------------------------------------------------
(* What the steps of a transaction do. *)

\* Accepting operation o stores it above all that the transaction sees.
Stores(r, o) ==
  LET seq == trow[r].lastSeq + 1 IN
  /\ seq \in Nat /\ row.lastSeq < seq
  /\ DOMAIN view'[r] = DOMAIN view[r] \cup {seq}
  /\ view'[r][seq].id = o /\ view'[r][seq].known = cursor[r]
  /\ \A s \in DOMAIN view[r] : s < seq /\ view'[r][s] = view[r][s]
  /\ trow'[r].lastSeq = seq
  /\ trow'[r].replacement = IF Content[o].kind \in Imports THEN seq ELSE trow[r].replacement

LEMMA Accepted ==
  ASSUME Inv, RequestInv, NEW r \in Request, Accept(r)
  PROVE  /\ Transacting(r) /\ stage[r] = "working" /\ RowIsOurs(r) /\ holder' = r
         /\ UNCHANGED <<log, row, stage, batch, cursor, wipe, stale, published, imports, wipedAt>>
         /\ \A q \in Request \ {r} : view'[q] = view[q] /\ trow'[q] = trow[q]
                                     /\ results'[q] = results[q]
         /\ Len(results[r]) < Len(batch[r]) /\ Len(results'[r]) = Len(results[r]) + 1
         /\ Stores(r, batch[r][Index(r)])
         /\ batch[r][Index(r)] \in Op /\ batch[r][Index(r)] \in Ids(batch[r])
         /\ Content[batch[r][Index(r)]].kind \in FullStateKinds
               => Len(batch[r]) = 1 /\ IsFullState(batch[r]) /\ results[r] = <<>>
                  /\ batch[r][Index(r)] = batch[r][1]
<1> DEFINE o == batch[r][Index(r)]
           seq == trow[r].lastSeq + 1
           new == [id |-> o, known |-> cursor[r], clock |-> StoredClock(view[r], o, cursor[r])]
           grown == [s \in DOMAIN view[r] \cup {seq} |-> IF s = seq THEN new ELSE view[r][s]]
<1>1. Transacting(r) /\ stage[r] = "working" /\ RowIsOurs(r) /\ holder' = r
  BY DEF Accept, Working, Transacting, InTransaction
<1>2. UNCHANGED <<log, row, stage, batch, cursor, wipe, stale, published, imports, wipedAt>>
  BY DEF Accept, ghosts
<1>3. /\ \A q \in Request \ {r} : view'[q] = view[q] /\ trow'[q] = trow[q]
                                 /\ results'[q] = results[q]
      /\ view'[r] = grown /\ trow'[r] = RowAfter(trow[r], view[r], o, cursor[r], seq)
      /\ results'[r] = Append(results[r], Result("ACCEPTED", seq))
  BY DEF Inv, TypeOK, Accept
<1>4. /\ results[r] \in Seq(Answer) /\ batch[r] \in Seq(Op) /\ Len(results[r]) \in Nat
      /\ Index(r) = Len(results[r]) + 1 /\ Index(r) <= Len(batch[r])
  BY DEF Inv, TypeOK, Accept, Working, Index
<1>5. Index(r) \in 1..Len(batch[r])
  BY <1>4
<1>6. o \in Op /\ o \in Ids(batch[r])
  BY <1>4, <1>5 DEF Ids
<1>7. /\ trow[r].lastSeq \in Nat /\ row.lastSeq \in Nat /\ DOMAIN view[r] \subseteq Nat
      /\ row.lastSeq <= trow[r].lastSeq /\ \A s \in DOMAIN view[r] : s <= trow[r].lastSeq
  <2>1. SeesTheRow(r) /\ trow[r].lastSeq \in Nat /\ row.lastSeq \in Nat
        /\ DOMAIN view[r] \subseteq Nat
    BY <1>1 DEF Inv, RowInv, TypeOK, SyncState, IsLog
  <2> QED
    BY <1>1, <2>1, RequestAssumption DEF RowIsOurs, SeesTheRow
<1>8. Stores(r, o)
  <2> HIDE DEF o, new
  <2>1. new.id = o /\ new.known = cursor[r]
    BY DEF new
  <2>2. \A s \in DOMAIN view[r] : s < seq /\ s # seq
    BY <1>7
  <2>3. DOMAIN grown = DOMAIN view[r] \cup {seq} /\ grown[seq] = new
        /\ \A s \in DOMAIN view[r] : grown[s] = view[r][s]
    BY <2>2
  <2>4. seq \in Nat /\ row.lastSeq < seq
    BY <1>7
  <2>5. /\ trow'[r].lastSeq = seq
        /\ trow'[r].replacement = IF Content[o].kind \in Imports THEN seq ELSE trow[r].replacement
    BY <1>3 DEF RowAfter
  <2> HIDE DEF grown, seq
  <2> QED
    BY <1>3, <2>1, <2>2, <2>3, <2>4, <2>5 DEF Stores, seq
<1>9. Len(results'[r]) = Len(results[r]) + 1 /\ Len(results[r]) < Len(batch[r])
  <2>1. Result("ACCEPTED", seq) \in Answer
    BY <1>7 DEF Result, Answer, Codes
  <2> HIDE DEF seq
  <2> QED
    BY <1>3, <1>4, <2>1
<1>10. Content[o].kind \in FullStateKinds
         => Len(batch[r]) = 1 /\ IsFullState(batch[r]) /\ results[r] = <<>> /\ o = batch[r][1]
  <2> SUFFICES ASSUME Content[o].kind \in FullStateKinds
               PROVE  Len(batch[r]) = 1 /\ IsFullState(batch[r]) /\ results[r] = <<>>
                      /\ o = batch[r][1]
    OBVIOUS
  <2>1. Len(batch[r]) = 1
    BY <1>5 DEF RequestInv
  <2>2. Index(r) = 1 /\ Len(results[r]) = 0
    BY <1>4, <2>1
  <2>3. results[r] = <<>>
    BY <1>4, <2>2
  <2> QED
    BY <2>1, <2>2, <2>3 DEF IsFullState
<1> HIDE DEF o, seq, new, grown
<1>11. /\ Stores(r, o) /\ o \in Op /\ o \in Ids(batch[r])
  BY <1>6, <1>8
<1> QED
  BY <1>1, <1>2, <1>3, <1>9, <1>10, <1>11 DEF o

-----------------------------------------------------------------------------
(* A repair includes what was committed before it. *)

Complete(l) ==
  \A s \in DOMAIN l \ DOMAIN History :
     KindAt(l, s) = "REPAIR" /\ l[s].known # NoCursor => l[s].known = s - 1

\* The base of a repair that is about to be stored is the row as it is locked.
BaseIsCurrent(r) ==
  stage[r] = "working" /\ IsRepair(batch[r]) /\ cursor[r] # NoCursor /\ results[r] = <<>>
    => cursor[r] = trow[r].lastSeq

RepairInv ==
  /\ Complete(log)
  /\ \A r \in Request : Transacting(r) => Complete(view[r]) /\ BaseIsCurrent(r)

LEMMA BeginRepairInv ==
  ASSUME Inv, RepairInv, NEW r \in Request, Begin(r) PROVE RepairInv'
<1>1. /\ log' = log /\ view'[r] = log
      /\ stage'[r] = "working" => cursor'[r] = NoCursor
      /\ \A q \in Request \ {r} : stage'[q] = stage[q] /\ view'[q] = view[q] /\ trow'[q] = trow[q]
      /\ UNCHANGED <<batch, cursor, results>>
  BY DEF Inv, TypeOK, Begin, NeedsRowLock
<1> QED
  BY <1>1 DEF RepairInv, BaseIsCurrent, Transacting

LEMMA LockRowRepairInv ==
  ASSUME Inv, RequestInv, RepairInv, NEW r \in Request, LockRow(r) PROVE RepairInv'
<1>1. /\ log' = log /\ view'[r] \in {view[r], Nothing} /\ stage[r] = "began"
      /\ \A q \in Request \ {r} : stage'[q] = stage[q] /\ view'[q] = view[q]
                                  /\ trow'[q] = trow[q] /\ results'[q] = results[q]
      /\ UNCHANGED <<batch, cursor>>
  BY DEF Inv, TypeOK, LockRow
<1>2. Complete(view'[r])
  <2>1. Complete(Nothing)
    BY DEF Complete, Nothing
  <2> QED
    BY <1>1, <2>1 DEF RepairInv, Transacting, InTransaction
<1>3. ASSUME IsRepair(batch[r]), results'[r] = <<>> PROVE cursor[r] = trow'[r].lastSeq
  <2>1. IsFullState(batch[r]) /\ Len(batch[r]) = 1
    BY <1>3 DEF IsRepair, IsFullState, FullStateKinds
  <2>2. ~BehindReplacement(r)
    BY <2>1 DEF BehindReplacement
  <2>3. ~wipe[r]
    BY <1>3 DEF RequestInv, IsRepair, Imports
  <2>4. CASE RepairBaseMoved(r) /\ results' = [results EXCEPT ![r] = Every(batch[r], "REPAIR_STALE")]
    <3>1. results'[r] = Every(batch[r], "REPAIR_STALE")
      BY <2>4 DEF Inv, TypeOK
    <3>2. DOMAIN results'[r] = 1..1
      BY <2>1, <3>1 DEF Every
    <3> QED
      BY <1>3, <3>2
  <2>5. CASE ~RepairBaseMoved(r) /\ trow' = [trow EXCEPT ![r] = Resolved(r)]
    <3>1. trow'[r].lastSeq = trow[r].lastSeq
      BY <2>5 DEF Inv, TypeOK, SyncState, Resolved
    <3> QED
      BY <1>3, <2>5, <3>1 DEF RepairBaseMoved
  <2> QED
    BY <2>2, <2>3, <2>4, <2>5 DEF LockRow
<1> QED
  BY <1>1, <1>2, <1>3 DEF RepairInv, BaseIsCurrent, Transacting

LEMMA AcceptRepairInv ==
  ASSUME Inv, RequestInv, RepairInv, NEW r \in Request, Accept(r) PROVE RepairInv'
<1> DEFINE o == batch[r][Index(r)]
<1>1. /\ Transacting(r) /\ stage[r] = "working"
      /\ UNCHANGED <<log, stage, batch, cursor>>
      /\ \A q \in Request \ {r} : view'[q] = view[q] /\ trow'[q] = trow[q]
                                  /\ results'[q] = results[q]
      /\ Len(results'[r]) = Len(results[r]) + 1 /\ Stores(r, o)
      /\ Content[o].kind \in FullStateKinds
            => Len(batch[r]) = 1 /\ results[r] = <<>> /\ o = batch[r][1]
  BY Accepted
<1> HIDE DEF o
<1>2. results'[r] # <<>>
  <2>1. Len(results[r]) \in Nat
    BY DEF Inv, TypeOK
  <2> QED
    BY <1>1, <2>1
<1>3. Complete(view[r]) /\ BaseIsCurrent(r)
  BY <1>1 DEF RepairInv
<1>4. ASSUME Content[o].kind = "REPAIR", cursor[r] # NoCursor PROVE cursor[r] = trow[r].lastSeq
  BY <1>1, <1>3, <1>4 DEF BaseIsCurrent, IsRepair, FullStateKinds
<1>5. Complete(view'[r])
  <2> DEFINE seq == trow[r].lastSeq + 1
  <2>1. /\ DOMAIN view'[r] = DOMAIN view[r] \cup {seq} /\ trow[r].lastSeq \in Nat
        /\ view'[r][seq].id = o /\ view'[r][seq].known = cursor[r]
        /\ \A s \in DOMAIN view[r] : view'[r][s] = view[r][s]
    BY <1>1 DEF Stores, Inv, TypeOK, SyncState
  <2>2. ASSUME KindAt(view'[r], seq) = "REPAIR", view'[r][seq].known # NoCursor
        PROVE  view'[r][seq].known = seq - 1
    <3>1. cursor[r] = trow[r].lastSeq
      BY <1>4, <2>1, <2>2 DEF KindAt
    <3> QED
      BY <2>1, <3>1
  <2> HIDE DEF seq
  <2> QED
    BY <1>3, <2>1, <2>2 DEF Complete, KindAt
<1> QED
  BY <1>1, <1>2, <1>5 DEF RepairInv, BaseIsCurrent, Transacting

LEMMA CommitRepairInv ==
  ASSUME Inv, RepairInv, NEW r \in Request, Commit(r) PROVE RepairInv'
<1> DEFINE kept == IF wipe[r] THEN {} ELSE DOMAIN log
<1>1. /\ log' = [s \in kept \cup Inserted(r) |-> IF s \in Inserted(r) THEN view[r][s] ELSE log[s]]
      /\ UNCHANGED <<view, trow, batch, cursor, results>> /\ Transacting(r)
  BY DEF Commit, Transacting, InTransaction
<1>2. Complete(log) /\ Complete(view[r]) /\ Inserted(r) \subseteq DOMAIN view[r]
  BY <1>1 DEF RepairInv, Inserted
<1>3. Complete(log')
  <2>1. \A s \in DOMAIN log' : \/ s \in DOMAIN view[r] /\ log'[s] = view[r][s]
                               \/ s \in DOMAIN log /\ log'[s] = log[s]
    BY <1>1, <1>2
  <2> QED
    BY <1>2, <2>1 DEF Complete, KindAt
<1>4. ASSUME NEW q \in Request, Transacting(q)' PROVE Transacting(q) /\ stage'[q] = stage[q]
  BY <1>4 DEF Inv, TypeOK, Transacting, InTransaction, Commit
<1> QED
  BY <1>1, <1>3, <1>4 DEF RepairInv, BaseIsCurrent

LEMMA RejectRepairInv ==
  ASSUME Inv, RepairInv, NEW r \in Request, Reject(r) PROVE RepairInv'
<1>1. /\ UNCHANGED <<log, stage, view, trow, batch, cursor>>
      /\ \A q \in Request \ {r} : results'[q] = results[q]
      /\ results'[r] = Append(results[r], Result(Rejection(r), 0))
  BY DEF Inv, TypeOK, Reject
<1>2. results'[r] # <<>>
  <2>1. Rejection(r) \in Codes
    BY DEF Reject, Rejection, Codes
  <2>2. Result(Rejection(r), 0) \in Answer
    BY <2>1 DEF Result, Answer
  <2>3. results[r] \in Seq(Answer)
    BY DEF Inv, TypeOK
  <2> QED
    BY <1>1, <2>2, <2>3
<1> QED
  BY <1>1, <1>2 DEF RepairInv, BaseIsCurrent, Transacting

\* A repair includes everything committed before it: its base is compared with the row
\* under the lock, and nobody else commits until it has.
THEOREM RepairsIncludeAll == Spec => []RepairsIncludeEverything
<1>1. Init => RepairInv
  BY DEF Init, RepairInv, Complete, Transacting, InTransaction
<1>2. Inv /\ RequestInv /\ RepairInv /\ [Next]_vars => RepairInv'
  <2> SUFFICES ASSUME Inv, RequestInv, RepairInv, [Next]_vars PROVE RepairInv'
    OBVIOUS
  <2>1. CASE \E r \in Request : InTheTransaction(r)
    BY <2>1, BeginRepairInv, LockRowRepairInv, RejectRepairInv, AcceptRepairInv,
       CommitRepairInv DEF InTheTransaction
  <2>2. CASE \A r \in Request : ~InTheTransaction(r)
    <3>1. Deletes /\ \A q \in Request : Transacting(q)' => SameTransaction(q)
      BY <2>2, Outside
    <3>2. Complete(log')
      BY <3>1 DEF RepairInv, Complete, Deletes, KindAt
    <3> QED
      BY <3>1, <3>2 DEF RepairInv, BaseIsCurrent, SameTransaction
  <2> QED
    BY <2>1, <2>2
<1>3. RepairInv => RepairsIncludeEverything
  BY DEF RepairInv, Complete, RepairsIncludeEverything
<1>4. Inv /\ RequestInv /\ [Next]_vars => RequestInv'
  BY StepRequestInv
<1> QED
  BY <1>1, <1>2, <1>3, <1>4, InitRequestInv, Invariance, PTL DEF Spec

-----------------------------------------------------------------------------
(* Answers: what devices are told. *)

\* Committed(b, rs), result by result.
TrueResults(b, rs) ==
  \A i \in 1..Len(rs) : rs[i].code = "ACCEPTED" => <<rs[i].seq, b[i]>> \in published

Done == {"committed", "finishing"}

\* What a transaction is going to confirm it is going to commit.
Confirms(r) ==
  \A i \in 1..Len(results[r]) :
    results[r][i].code = "ACCEPTED" =>
      /\ holder = r /\ results[r][i].seq \in Inserted(r)
      /\ view[r][results[r][i].seq].id = batch[r][i]

AnswerInv ==
  /\ \A s \in DOMAIN log : <<s, log[s].id>> \in published
  /\ \A r \in Request : Transacting(r) => Confirms(r)
  /\ \A r \in Request : stage[r] \in Done => TrueResults(batch[r], results[r])
  /\ \A p \in Process : \A key \in DOMAIN dedup[p] : TrueResults(key.batch, dedup[p][key])

-----------------------------------------------------------------------------
(* Steps of one transaction. *)

LEMMA OneAnswers ==
  ASSUME AnswerInv, NEW r \in Request, UNCHANGED <<log, row, published, dedup>>,
         \A q \in Request \ {r} : stage'[q] = stage[q] /\ batch'[q] = batch[q]
                                  /\ results'[q] = results[q],
         \A q \in Request \ {r} : Transacting(q)' => SameTransaction(q),
         Transacting(r)' /\ Confirms(r)'
  PROVE  AnswerInv'
<1>1. ASSUME NEW q \in Request, Transacting(q)' PROVE Confirms(q)'
  BY <1>1 DEF AnswerInv, SameTransaction, Confirms, Inserted
<1>2. ASSUME NEW q \in Request, stage'[q] \in Done PROVE TrueResults(batch[q], results[q])'
  <2>1. q # r
    BY <1>2 DEF Done, Transacting, InTransaction
  <2> QED
    BY <1>2, <2>1 DEF AnswerInv, TrueResults
<1>3. ASSUME NEW p \in Process, NEW key \in DOMAIN dedup'[p]
      PROVE  TrueResults(key.batch, dedup[p][key])'
  BY <1>3 DEF AnswerInv, TrueResults
<1> QED
  BY <1>1, <1>2, <1>3 DEF AnswerInv

LEMMA BeginAnswers ==
  ASSUME Inv, AnswerInv, NEW r \in Request, Begin(r) PROVE AnswerInv'
<1>1. /\ UNCHANGED <<log, row, published, dedup, batch, results, holder, stale>>
      /\ \A q \in Request \ {r} : stage'[q] = stage[q] /\ view'[q] = view[q] /\ trow'[q] = trow[q]
                                  /\ cursor'[q] = cursor[q] /\ wipe'[q] = wipe[q]
      /\ Transacting(r)' /\ results[r] = <<>>
  BY DEF Inv, TypeOK, HandlerInv, BeforeProcessing, Begin, Transacting, InTransaction, ghosts
<1>2. Confirms(r)'
  BY <1>1 DEF Confirms
<1>3. \A q \in Request \ {r} : Transacting(q)' => SameTransaction(q)
  BY <1>1 DEF Transacting, SameTransaction
<1> QED
  BY <1>1, <1>2, <1>3, OneAnswers

LEMMA LockRowAnswers ==
  ASSUME Inv, AnswerInv, NEW r \in Request, LockRow(r) PROVE AnswerInv'
<1>1. /\ UNCHANGED <<log, row, published, dedup, batch, cursor, wipe, stale>>
      /\ \A q \in Request \ {r} : stage'[q] = stage[q] /\ view'[q] = view[q] /\ trow'[q] = trow[q]
                                  /\ results'[q] = results[q]
      /\ Transacting(r)' /\ results[r] = <<>> /\ holder' = r /\ holder \in {r, Nobody}
  BY DEF Inv, TypeOK, HandlerInv, BeforeProcessing, LockRow, RowIsOurs, Transacting,
     InTransaction, ghosts
<1>2. Confirms(r)'
  <2>1. \/ results'[r] = <<>>
        \/ \E code \in {"FENCED", "REPAIR_STALE"} : results'[r] = Every(batch[r], code)
    BY <1>1 DEF LockRow, Inv, TypeOK
  <2>2. ASSUME NEW code \in {"FENCED", "REPAIR_STALE"}, results'[r] = Every(batch[r], code)
        PROVE  \A i \in 1..Len(results'[r]) : results'[r][i].code # "ACCEPTED"
    <3>1. batch[r] \in Seq(Op) /\ code \in Codes
      BY DEF Inv, TypeOK, Codes
    <3>2. Len(results'[r]) = Len(batch[r])
      BY <2>2, <3>1, EveryType
    <3>3. \A i \in 1..Len(batch[r]) : results'[r][i] = Result(code, 0)
      BY <2>2 DEF Every
    <3> QED
      BY <3>2, <3>3 DEF Result
  <2> QED
    BY <2>1, <2>2 DEF Confirms
<1>3. \A q \in Request \ {r} : Transacting(q)' => SameTransaction(q)
  BY <1>1, RequestAssumption DEF Transacting, SameTransaction
<1> QED
  BY <1>1, <1>2, <1>3, OneAnswers

LEMMA RejectAnswers ==
  ASSUME Inv, AnswerInv, NEW r \in Request, Reject(r) PROVE AnswerInv'
<1>1. /\ UNCHANGED <<log, row, published, dedup, batch, cursor, wipe, stale, stage, view, trow,
                     holder>>
      /\ \A q \in Request \ {r} : results'[q] = results[q]
      /\ Transacting(r) /\ Rejection(r) # "NONE"
      /\ results'[r] = Append(results[r], Result(Rejection(r), 0))
  BY DEF Inv, TypeOK, Reject, Working, Transacting, InTransaction, ghosts
<1>2. Confirms(r)'
  <2>1. Rejection(r) \in Codes /\ Rejection(r) # "ACCEPTED"
    BY <1>1 DEF Rejection, Codes
  <2>2. Result(Rejection(r), 0) \in Answer /\ Result(Rejection(r), 0).code # "ACCEPTED"
    BY <2>1 DEF Result, Answer
  <2>3. results[r] \in Seq(Answer)
    BY DEF Inv, TypeOK
  <2>4. \A i \in 1..Len(results'[r]) :
           results'[r][i].code = "ACCEPTED" => i \in 1..Len(results[r])
                                               /\ results'[r][i] = results[r][i]
    BY <1>1, <2>2, <2>3
  <2> QED
    BY <1>1, <2>4 DEF AnswerInv, Confirms, Inserted
<1> QED
  BY <1>1, <1>2, OneAnswers DEF Transacting, SameTransaction

LEMMA AcceptAnswers ==
  ASSUME Inv, RequestInv, AnswerInv, NEW r \in Request, Accept(r) PROVE AnswerInv'
<1> DEFINE o == batch[r][Index(r)]
           seq == trow[r].lastSeq + 1
<1>1. /\ Transacting(r) /\ RowIsOurs(r) /\ holder' = r
      /\ UNCHANGED <<log, row, stage, batch, cursor, wipe, stale, published>>
      /\ \A q \in Request \ {r} : view'[q] = view[q] /\ trow'[q] = trow[q]
                                  /\ results'[q] = results[q]
      /\ Stores(r, o)
  BY Accepted
<1>2. /\ dedup' = dedup /\ results'[r] = Append(results[r], Result("ACCEPTED", seq))
  BY DEF Accept, Inv, TypeOK
<1>3. /\ row.lastSeq < seq /\ seq \in DOMAIN view'[r] /\ view'[r][seq].id = o
      /\ \A s \in DOMAIN view[r] : s \in DOMAIN view'[r] /\ view'[r][s] = view[r][s]
  BY <1>1 DEF Stores
<1>4. /\ results[r] \in Seq(Answer) /\ Len(results[r]) \in Nat
      /\ Result("ACCEPTED", seq) \in Answer /\ Result("ACCEPTED", seq).seq = seq
  <2>1. seq \in Nat
    BY <1>1 DEF Stores
  <2> QED
    BY <2>1 DEF Inv, TypeOK, Result, Answer, Codes
<1> HIDE DEF seq, o
<1>5. Confirms(r)'
  <2>1. \A i \in 1..Len(results'[r]) :
           \/ i \in 1..Len(results[r]) /\ results'[r][i] = results[r][i]
           \/ i = Len(results[r]) + 1 /\ results'[r][i] = Result("ACCEPTED", seq)
    BY <1>2, <1>4
  <2>2. ASSUME NEW i \in 1..Len(results[r]), results'[r][i] = results[r][i],
               results[r][i].code = "ACCEPTED"
        PROVE  /\ results'[r][i].seq \in Inserted(r)'
               /\ view'[r][results'[r][i].seq].id = batch[r][i]
    BY <1>1, <1>3, <2>2 DEF AnswerInv, Confirms, Inserted
  <2>3. seq \in Inserted(r)' /\ view'[r][seq].id = batch[r][Len(results[r]) + 1]
    BY <1>1, <1>3 DEF Inserted, o, Index
  <2> QED
    BY <1>1, <1>4, <2>1, <2>2, <2>3 DEF Confirms
<1>6. \A q \in Request \ {r} : Transacting(q)' => SameTransaction(q)
  BY <1>1, RequestAssumption DEF RowIsOurs, Transacting, SameTransaction
<1>7. Transacting(r)'
  BY <1>1 DEF Transacting
<1> QED
  BY <1>1, <1>2, <1>5, <1>6, <1>7, OneAnswers

\* A commit publishes what it confirms.
LEMMA CommitAnswers ==
  ASSUME Inv, AnswerInv, NEW r \in Request, Commit(r) PROVE AnswerInv'
<1> DEFINE kept == IF wipe[r] THEN {} ELSE DOMAIN log
<1>1. /\ log' = [s \in kept \cup Inserted(r) |-> IF s \in Inserted(r) THEN view[r][s] ELSE log[s]]
      /\ published' = published \cup {<<s, view[r][s].id>> : s \in Inserted(r)}
      /\ UNCHANGED <<dedup, batch, cursor, wipe, view, trow, results>>
      /\ stage[r] = "working" /\ Transacting(r) /\ ~Transacting(r)'
      /\ \A q \in Request \ {r} : stage'[q] = stage[q]
  BY DEF Inv, TypeOK, Commit, Transacting, InTransaction
<1>2. \A s \in DOMAIN log' : <<s, log'[s].id>> \in published'
  BY <1>1 DEF AnswerInv
<1>3. ASSUME NEW q \in Request, Transacting(q)' PROVE Confirms(q)'
  <2>1. q # r /\ Confirms(q)
    BY <1>1, <1>3 DEF AnswerInv, Transacting
  <2>2. CASE holder = r
    BY <1>1, <2>1, <2>2 DEF Confirms
  <2>3. CASE holder # r
    <3>1. row' = row /\ holder' = holder
      BY <2>3 DEF Commit
    <3> QED
      BY <1>1, <2>1, <3>1 DEF Confirms, Inserted
  <2> QED
    BY <2>2, <2>3
<1>4. ASSUME NEW q \in Request, stage'[q] \in Done PROVE TrueResults(batch[q], results[q])'
  <2>1. CASE q = r
    BY <1>1, <2>1 DEF AnswerInv, Confirms, TrueResults
  <2>2. CASE q # r
    BY <1>1, <1>4, <2>2 DEF AnswerInv, TrueResults
  <2> QED
    BY <2>1, <2>2
<1>5. ASSUME NEW p \in Process, NEW key \in DOMAIN dedup'[p]
      PROVE  TrueResults(key.batch, dedup[p][key])'
  BY <1>1, <1>5 DEF AnswerInv, TrueResults
<1> QED
  BY <1>2, <1>3, <1>4, <1>5 DEF AnswerInv

-----------------------------------------------------------------------------
(* Steps outside the transactions. *)

\* The sequence number a stored id is told has been published.
LEMMA SeqOfPublished ==
  ASSUME AnswerInv, NEW o, o \in StoredIds(log) PROVE <<SeqOf(log, o), o>> \in published
<1>1. SeqOf(log, o) \in DOMAIN log /\ log[SeqOf(log, o)].id = o
  BY DEF StoredIds, SeqOf
<1> QED
  BY <1>1 DEF AnswerInv

LEMMA FinalResultsAreTrue ==
  ASSUME AnswerInv, NEW r \in Request, stage[r] = "finishing"
  PROVE  TrueResults(batch[r], FinalResults(r))
<1>1. CASE FinalResults(r) = results[r]
  BY <1>1 DEF AnswerInv, Done
<1>2. CASE FinalResults(r) # results[r]
  <2>1. /\ batch[r][1] \in StoredIds(log)
        /\ FinalResults(r) = <<Result("ACCEPTED", SeqOf(log, batch[r][1]))>>
    BY <1>2 DEF FinalResults
  <2> QED
    BY <2>1, SeqOfPublished DEF TrueResults, Result
<1> QED
  BY <1>1, <1>2

\* What a step outside the transactions may say: nothing new, or something true.
Truthful ==
  /\ published' = published /\ row'.lastSeq = row.lastSeq
  /\ \A q \in Request : stage'[q] \in Done =>
       \/ stage[q] \in Done /\ batch'[q] = batch[q] /\ results'[q] = results[q]
       \/ TrueResults(batch'[q], results'[q])
  /\ \A p \in Process : \A key \in DOMAIN dedup'[p] :
       \/ key \in DOMAIN dedup[p] /\ dedup'[p][key] = dedup[p][key]
       \/ TrueResults(key.batch, dedup'[p][key])

LEMMA HandlerTruthful ==
  ASSUME Inv, AnswerInv, NEW r \in Request, Handle(r), ~InTheTransaction(r) PROVE Truthful
<1>1. CASE \/ EnterStorageLock(r) \/ AdmitSnapshot(r) \/ QuotaShort(r) \/ SeeTwoRestorePoints(r)
           \/ ReadOldestRestorePoint(r) \/ DeleteRestorePoint(r)
  BY <1>1 DEF Inv, TypeOK, Done, Truthful, EnterStorageLock, AdmitSnapshot, QuotaShort,
     SeeTwoRestorePoints, ReadOldestRestorePoint, DeleteRestorePoint, ghosts
<1>2. CASE RefuseSnapshot(r) \/ QuotaExceeded(r)
  BY <1>2 DEF Inv, TypeOK, Done, Truthful, RefuseSnapshot, QuotaExceeded, Forget, ghosts
<1>3. CASE AnswerRetry(r)
  <2>1. batch[r][1] \in StoredIds(log)
    BY <1>3 DEF AnswerRetry, DurableRetry
  <2>2. PICK a \in {Result("ACCEPTED", SeqOf(log, batch[r][1])), Result("INVALID_OP_ID", 0)} :
          results'[r] = <<a>>
    BY <1>3 DEF AnswerRetry, Inv, TypeOK
  <2>3. TrueResults(batch[r], results'[r])
    BY <2>1, <2>2, SeqOfPublished DEF TrueResults, Result
  <2> QED
    BY <1>3, <2>3 DEF Inv, TypeOK, Truthful, AnswerRetry, ghosts
<1>4. CASE Abort(r)
  <2>1. results'[r] = Every(batch[r], "ROLLED_BACK") /\ batch[r] \in Seq(Op)
    BY <1>4 DEF Abort, ResultsOfFailure, Inv, TypeOK
  <2>2. Len(results'[r]) = Len(batch[r])
    BY <2>1, EveryType DEF Codes
  <2>3. \A i \in 1..Len(batch[r]) : results'[r][i].code = "ROLLED_BACK"
    BY <2>1 DEF Every, Result
  <2>4. TrueResults(batch[r], results'[r])
    BY <2>2, <2>3 DEF TrueResults
  <2> QED
    BY <1>4, <2>4 DEF Inv, TypeOK, Truthful, Abort, ghosts
<1>5. CASE ClearCaches(r)
  BY <1>5 DEF Inv, TypeOK, Done, Truthful, ClearCaches, Nothing, ghosts
<1>6. CASE Finish(r)
  <2> DEFINE final == FinalResults(r)
             key   == Key(batch[r], cursor[r], wipe[r])
             cache == dedup[Home[r]]
  <2>1. /\ published' = published /\ row' = row
        /\ \A q \in Request : stage'[q] \in Done =>
             stage[q] \in Done /\ batch'[q] = batch[q] /\ results'[q] = results[q]
    BY <1>6 DEF Inv, TypeOK, Done, Finish, Forget, ghosts
  <2>2. key.batch = batch[r] /\ TrueResults(batch[r], final)
    BY <1>6, FinalResultsAreTrue DEF Key, Finish
  <2>3. \/ dedup' = dedup
        \/ dedup' = [dedup EXCEPT ![Home[r]] =
                       [k \in DOMAIN cache \cup {key} |-> IF k = key THEN final ELSE cache[k]]]
    BY <1>6 DEF Finish
  <2> HIDE DEF final, key
  <2>4. ASSUME NEW p \in Process, NEW k \in DOMAIN dedup'[p]
        PROVE  \/ k \in DOMAIN dedup[p] /\ dedup'[p][k] = dedup[p][k]
               \/ TrueResults(k.batch, dedup'[p][k])
    <3>1. DOMAIN dedup = Process
      BY DEF Inv, TypeOK
    <3> QED
      BY <2>2, <2>3, <2>4, <3>1
  <2> QED
    BY <2>1, <2>4 DEF Truthful
<1> QED
  BY <1>1, <1>2, <1>3, <1>4, <1>5, <1>6 DEF Handle, InTheTransaction

LEMMA OutsideTruthful ==
  ASSUME Inv, AnswerInv, [Next]_vars, \A r \in Request : ~InTheTransaction(r)
  PROVE  Truthful
<1>1. CASE UNCHANGED vars
  BY <1>1 DEF vars, Truthful
<1>2. ASSUME NEW r \in Request, NEW q \in Uploads \cup Snapshots, Receive(r, q) PROVE Truthful
  BY <1>2 DEF Inv, TypeOK, Done, Truthful, Receive, ghosts
<1>3. ASSUME NEW r \in Request, Handle(r) PROVE Truthful
  BY <1>3, HandlerTruthful
<1>4. ASSUME NEW p \in Process, DeleteAllUserData(p) PROVE Truthful
  <2>1. row'.lastSeq = row.lastSeq
    BY <1>4 DEF DeleteAllUserData, Wiped, NewState
  <2> QED
    BY <1>4, <2>1 DEF Truthful, DeleteAllUserData
<1>5. ASSUME NEW p \in Process, ClearWipedCaches(p) PROVE Truthful
  BY <1>5 DEF Inv, TypeOK, Truthful, ClearWipedCaches, Nothing, ghosts
<1>6. ASSUME NEW p \in Process, Restart(p) PROVE Truthful
  BY <1>6 DEF Inv, TypeOK, Done, Truthful, Restart, Nothing, ghosts
<1>7. ASSUME NEW p \in Process, NEW key \in DOMAIN dedup[p], Expire(p, key) PROVE Truthful
  BY <1>7 DEF Inv, TypeOK, Truthful, Expire, ghosts
<1>8. ASSUME NEW s \in DOMAIN log, StartSweep(s) PROVE Truthful
  BY <1>8 DEF Truthful, StartSweep, ghosts
<1>9. ASSUME NEW end \in 1..sweepTo, SweepWindow(end) PROVE Truthful
  BY <1>9 DEF Truthful, SweepWindow, ghosts
<1>10. CASE StopSweep
  BY <1>10 DEF Truthful, StopSweep, ghosts
<1> QED
  BY <1>1, <1>2, <1>3, <1>4, <1>5, <1>6, <1>7, <1>8, <1>9, <1>10 DEF Next

LEMMA OutsideAnswers ==
  ASSUME Inv, AnswerInv, [Next]_vars, \A r \in Request : ~InTheTransaction(r)
  PROVE  AnswerInv'
<1>1. /\ Truthful /\ Deletes
      /\ \A q \in Request : Transacting(q)' => SameTransaction(q)
  BY Outside, OutsideTruthful
<1>2. \A s \in DOMAIN log' : <<s, log'[s].id>> \in published'
  BY <1>1 DEF AnswerInv, Truthful, Deletes
<1>3. ASSUME NEW q \in Request, Transacting(q)' PROVE Confirms(q)'
  BY <1>1, <1>3 DEF AnswerInv, Truthful, SameTransaction, Confirms, Inserted
<1>4. ASSUME NEW q \in Request, stage'[q] \in Done PROVE TrueResults(batch[q], results[q])'
  BY <1>1, <1>4 DEF AnswerInv, Truthful, TrueResults
<1>5. ASSUME NEW p \in Process, NEW key \in DOMAIN dedup'[p]
      PROVE  TrueResults(key.batch, dedup[p][key])'
  BY <1>1, <1>5 DEF AnswerInv, Truthful, TrueResults
<1> QED
  BY <1>2, <1>3, <1>4, <1>5 DEF AnswerInv

(***************************************************************************)
(* Answers are true: what a client is told is accepted has been committed  *)
(* under the number it is told, by a first answer, by the success a retry  *)
(* gets, and by every result kept for one; a rolled back transaction       *)
(* confirms nothing.                                                       *)
(***************************************************************************)
THEOREM ClientsAreToldTheTruth == Spec => []AnswersAreTrue
<1>1. Init => AnswerInv
  BY DEF Init, AnswerInv, Done, Transacting, InTransaction, Nothing
<1>2. Inv /\ RequestInv /\ AnswerInv /\ [Next]_vars => AnswerInv'
  <2> SUFFICES ASSUME Inv, RequestInv, AnswerInv, [Next]_vars PROVE AnswerInv'
    OBVIOUS
  <2>1. CASE \E r \in Request : InTheTransaction(r)
    BY <2>1, BeginAnswers, LockRowAnswers, RejectAnswers, AcceptAnswers, CommitAnswers
    DEF InTheTransaction
  <2>2. CASE \A r \in Request : ~InTheTransaction(r)
    BY <2>2, OutsideAnswers
  <2> QED
    BY <2>1, <2>2
<1>3. Inv /\ RequestInv /\ [Next]_vars => RequestInv'
  BY StepRequestInv
<1>4. AnswerInv => AnswersAreTrue
  <2> SUFFICES ASSUME AnswerInv PROVE AnswersAreTrue
    OBVIOUS
  <2>1. ASSUME NEW b, NEW rs, TrueResults(b, rs) PROVE Committed(b, rs)
    BY <2>1 DEF TrueResults, Committed, AcceptedIn
  <2>2. ASSUME NEW r \in Request, stage[r] = "finishing"
        PROVE  Committed(batch[r], FinalResults(r))
    BY <2>1, <2>2, FinalResultsAreTrue
  <2>3. ASSUME NEW p \in Process, NEW key \in DOMAIN dedup[p]
        PROVE  Committed(key.batch, dedup[p][key])
    BY <2>1 DEF AnswerInv
  <2> QED
    BY <2>2, <2>3 DEF AnswersAreTrue
<1> QED
  BY <1>1, <1>2, <1>3, <1>4, InitRequestInv, Invariance, PTL DEF Spec

-----------------------------------------------------------------------------
(***************************************************************************)
(* The two markers of the user_sync_state row.                             *)
(*                                                                         *)
(* The state-replacement fence: an operation uploaded with a cursor was    *)
(* made with every import before it in view.  The server compares the      *)
(* cursor with one number.  It is stored in the row when a transaction     *)
(* first needs it, or resolved from the history that is left; the proof    *)
(* shows that this number is never below an import accepted since the last *)
(* wipe, although history is deleted beside it.                            *)
(*                                                                         *)
(* The full-state marker: where a download starts, and the clock a device  *)
(* resets to.  The proof shows that it names the newest checkpoint and     *)
(* covers what is below it, although the transaction that writes it merges *)
(* the clocks of rows that are deleted before it commits.                  *)
(***************************************************************************)

\* getLatestStateReplacementSeq, for a row w and the operations l.
Marker(w, l) == IF w.replacement = Unresolved THEN Resolve(l) ELSE w.replacement

UpTo(S, n) == \A i \in S : i <= n

\* A transaction that may still lock the row will resolve a marker that is right.
WaitingFence(r) == ~stale[r] => UpTo(imports, Marker(trow[r], view[r]))

\* The marker the holder of the row is going to commit.
MarkerFence(r) ==
  IF wipe[r]
  THEN IF results[r] = <<>> THEN view[r] = Nothing ELSE trow[r].replacement > row.lastSeq
  ELSE IF trow[r].replacement = Unresolved
  THEN /\ row.replacement = Unresolved /\ cursor[r] = NoCursor
       /\ \A s \in Inserted(r) : ~Causal(KindAt(view[r], s), view[r][s].known)
  ELSE UpTo(imports, trow[r].replacement)

\* The cursor was compared with that marker.
CursorFence(r) ==
  ~wipe[r] /\ ~IsFullState(batch[r]) /\ cursor[r] # NoCursor /\ Len(results[r]) < Len(batch[r])
    => trow[r].replacement <= cursor[r]

\* What the holder has inserted.
InsertsFence(r) ==
  \A s \in Inserted(r) :
    /\ KindAt(view[r], s) \notin FullStateKinds /\ view[r][s].known # NoCursor
         => UpTo(imports, view[r][s].known)
    /\ KindAt(view[r], s) \in Imports
         => /\ s = trow[r].lastSeq /\ s = trow[r].replacement
            /\ Len(results[r]) = Len(batch[r])

TransactionFence(r) ==
  IF holder = r THEN MarkerFence(r) /\ CursorFence(r) /\ InsertsFence(r) ELSE WaitingFence(r)

RowFence ==
  UpTo(imports, row.lastSeq) /\ UpTo(imports, Marker(row, log)) /\ Fenced(log, imports)

FenceInv == RowFence /\ \A r \in Request : Transacting(r) => TransactionFence(r)

-----------------------------------------------------------------------------
(* The marker resolved from the history. *)

\* Resolve(l) is the newest import, or the newest causal row, or 0.
LEMMA ResolveOf ==
  ASSUME NEW l, IsLog(l)
  PROVE  /\ Resolve(l) \in Nat
         /\ UpTo(ImportRows(l), Resolve(l))
         /\ ImportRows(l) # {} => Resolve(l) \in ImportRows(l)
         /\ ImportRows(l) = {} /\ CausalRows(l) # {}
               => Resolve(l) \in CausalRows(l) /\ UpTo(CausalRows(l), Resolve(l))
         /\ CausalRows(l) = {} => Resolve(l) = 0
<1>1. /\ ImportRows(l) \in SUBSET Nat /\ IsFiniteSet(ImportRows(l))
      /\ CausalRows(l) \in SUBSET Nat /\ IsFiniteSet(CausalRows(l))
      /\ ImportRows(l) \subseteq CausalRows(l)
  BY FS_Subset DEF IsLog, ImportRows, CausalRows, Causal
<1>2. CASE ImportRows(l) # {}
  BY <1>1, <1>2, NewestOf DEF Resolve, UpTo
<1>3. CASE ImportRows(l) = {} /\ CausalRows(l) # {}
  BY <1>1, <1>3, NewestOf DEF Resolve, UpTo
<1>4. CASE CausalRows(l) = {}
  BY <1>1, <1>4 DEF Resolve, UpTo
<1> QED
  BY <1>2, <1>3, <1>4

\* A safe deletion never lowers the marker.
LEMMA DeletionKeepsMarker ==
  ASSUME Inv, NEW n \in Nat, Safe(n), log' = From(log, n)
  PROVE  Resolve(log) <= Resolve(log')
<1>1. IsLog(log) /\ IsLog(log')
  BY FromIsLog DEF Inv, TypeOK
<1>2. /\ DOMAIN log' = {s \in DOMAIN log : s >= n}
      /\ \A s \in DOMAIN log' : log'[s] = log[s]
      /\ DOMAIN log \subseteq Nat
  BY <1>1 DEF IsLog, From
<1>3. /\ \A s \in ImportRows(log) : s >= n => s \in ImportRows(log')
      /\ \A s \in CausalRows(log) : s >= n => s \in CausalRows(log')
      /\ ImportRows(log') \subseteq ImportRows(log)
      /\ ImportRows(log) \subseteq Nat /\ CausalRows(log) \subseteq Nat
  BY <1>2 DEF ImportRows, CausalRows, KindAt
<1>4. Resolve(log) \in Nat /\ Resolve(log') \in Nat
  BY <1>1, ResolveOf
<1>5. CASE Resolve(log) >= n /\ CausalRows(log) # {}
  <2>1. CASE ImportRows(log) # {}
    <3>1. Resolve(log) \in ImportRows(log')
      BY <1>1, <1>3, <1>5, <2>1, ResolveOf
    <3> QED
      BY <1>1, <3>1, ResolveOf DEF UpTo
  <2>2. CASE ImportRows(log) = {}
    <3>1. Resolve(log) \in CausalRows(log') /\ ImportRows(log') = {}
      BY <1>1, <1>3, <1>5, <2>2, ResolveOf
    <3> QED
      BY <1>1, <3>1, ResolveOf DEF UpTo
  <2> QED
    BY <2>1, <2>2
<1>6. CASE ~(Resolve(log) >= n) /\ CausalRows(log) # {}
  <2>1. Resolve(log) \in DOMAIN log
    BY <1>1, <1>6, ResolveOf DEF ImportRows, CausalRows
  <2>2. PICK s \in CausalRows(log) : s >= n
    BY <1>6, <2>1 DEF Safe
  <2>3. s \in CausalRows(log') /\ s > Resolve(log)
    BY <1>3, <1>4, <1>6, <2>2
  <2>4. ImportRows(log) # {}
    BY <1>1, <1>3, <1>4, <2>3, <2>2, <1>6, ResolveOf DEF UpTo
  <2>5. ImportRows(log') = {}
    <3>1. ASSUME NEW i \in ImportRows(log') PROVE FALSE
      <4>1. i >= n /\ i <= Resolve(log) /\ i \in Nat
        BY <1>1, <1>2, <1>3, <3>1, ResolveOf DEF UpTo, ImportRows
      <4> QED
        BY <1>4, <1>6, <4>1
    <3> QED
      BY <3>1
  <2> QED
    BY <1>1, <1>3, <1>4, <2>3, <2>5, ResolveOf DEF UpTo
<1>7. CASE CausalRows(log) = {}
  BY <1>1, <1>4, <1>7, ResolveOf
<1> QED
  BY <1>5, <1>6, <1>7

LEMMA MarkerType ==
  ASSUME NEW l, IsLog(l), NEW w \in SyncState PROVE Marker(w, l) \in Nat
BY ResolveOf DEF Marker, SyncState

-----------------------------------------------------------------------------
(* Steps outside the transactions. *)

\* They leave log and row alone, delete behind a checkpoint, or wipe.
LEMMA OutsideChanges ==
  ASSUME Inv, GapInv, [Next]_vars, \A r \in Request : ~InTheTransaction(r)
  PROVE  \/ UNCHANGED <<log, row, imports>>
         \/ /\ UNCHANGED <<row, imports>>
            /\ \E n \in Nat : Safe(n) /\ log' = From(log, n)
         \/ \E p \in Process : DeleteAllUserData(p)
<1> DEFINE Goal == \/ UNCHANGED <<log, row, imports>>
                   \/ /\ UNCHANGED <<row, imports>>
                      /\ \E n \in Nat : Safe(n) /\ log' = From(log, n)
                   \/ \E p \in Process : DeleteAllUserData(p)
<1>1. CASE UNCHANGED vars
  BY <1>1 DEF vars
<1>2. ASSUME NEW r \in Request, NEW q \in Uploads \cup Snapshots, Receive(r, q) PROVE Goal
  BY <1>2 DEF Receive, ghosts
<1>3. ASSUME NEW r \in Request, Handle(r) PROVE Goal
  <2>1. CASE DeleteRestorePoint(r)
    <3>1. /\ UNCHANGED <<row, imports>> /\ log' = From(log, cut[r] + 1) /\ cut[r] # 0
          /\ cut[r] + 1 \in Nat
      BY <2>1 DEF Inv, TypeOK, DeleteRestorePoint, ghosts
    <3>2. Safe(cut[r] + 1)
      BY <3>1 DEF GapInv, Planned
    <3> QED
      BY <3>1, <3>2
  <2>2. CASE ~DeleteRestorePoint(r)
    <3>1. UNCHANGED <<log, row, imports>>
      BY <1>3, <2>2 DEF Handle, InTheTransaction, EnterStorageLock, AnswerRetry, RefuseSnapshot,
         AdmitSnapshot, QuotaShort, SeeTwoRestorePoints, ReadOldestRestorePoint, QuotaExceeded,
         Abort, ClearCaches, Finish, ghosts
    <3> QED
      BY <3>1
  <2> QED
    BY <2>1, <2>2
<1>4. ASSUME NEW p \in Process, DeleteAllUserData(p) \/ ClearWipedCaches(p) \/ Restart(p)
      PROVE  Goal
  BY <1>4 DEF ClearWipedCaches, Restart, ghosts
<1>5. ASSUME NEW p \in Process, NEW key \in DOMAIN dedup[p], Expire(p, key) PROVE Goal
  BY <1>5 DEF Expire, ghosts
<1>6. ASSUME NEW s \in DOMAIN log, StartSweep(s) PROVE Goal
  BY <1>6 DEF StartSweep, ghosts
<1>7. ASSUME NEW end \in 1..sweepTo, SweepWindow(end) PROVE Goal
  <2>1. UNCHANGED <<row, imports>> /\ log' = From(log, end) /\ sweepTo # 0
    BY <1>7 DEF SweepWindow, ghosts
  <2>2. end \in Nat /\ Safe(end)
    <3>1. Safe(sweepTo) /\ sweepTo \in Nat
      BY <2>1 DEF GapInv, Planned, Inv, TypeOK
    <3>2. DOMAIN log \subseteq Nat /\ CausalRows(log) \subseteq Nat
      BY DEF Inv, TypeOK, IsLog, CausalRows
    <3> QED
      BY <3>1, <3>2 DEF Safe
  <2> QED
    BY <2>1, <2>2
<1>8. CASE StopSweep
  BY <1>8 DEF StopSweep, ghosts
<1> QED
  BY <1>1, <1>2, <1>3, <1>4, <1>5, <1>6, <1>7, <1>8 DEF Next

\* The row and the log stay fenced when rows behind a checkpoint go.
LEMMA DeletionFence ==
  ASSUME Inv, RowFence, UNCHANGED <<row, imports>>,
         NEW n \in Nat, Safe(n), log' = From(log, n)
  PROVE  RowFence'
<1>1. IsLog(log) /\ IsLog(log') /\ row \in SyncState /\ imports \subseteq Nat
  BY FromIsLog DEF Inv, TypeOK
<1>2. Resolve(log) <= Resolve(log') /\ Resolve(log) \in Nat /\ Resolve(log') \in Nat
  BY <1>1, DeletionKeepsMarker, ResolveOf
<1>3. UpTo(imports, Marker(row, log'))
  BY <1>1, <1>2 DEF RowFence, Marker, UpTo
<1>4. Fenced(log', imports)
  BY FromDeletes DEF RowFence, Fenced, Deletes, KindAt
<1> QED
  BY <1>3, <1>4 DEF RowFence

\* A transaction that goes on, and the row it was compared with, are as they were.
LEMMA SameFence ==
  ASSUME NEW q \in Request, SameTransaction(q), UNCHANGED <<row, imports>>, TransactionFence(q)
  PROVE  TransactionFence(q)'
<1>1. Inserted(q)' = Inserted(q)
  BY DEF Inserted, SameTransaction
<1>2. CASE holder = q
  <2>1. MarkerFence(q)' /\ CursorFence(q)' /\ InsertsFence(q)'
    BY <1>1, <1>2 DEF TransactionFence, SameTransaction, MarkerFence, CursorFence, InsertsFence
  <2> QED
    BY <1>2, <2>1 DEF TransactionFence, SameTransaction
<1>3. CASE holder # q
  BY <1>3 DEF TransactionFence, SameTransaction, WaitingFence
<1> QED
  BY <1>2, <1>3

LEMMA OutsideFence ==
  ASSUME Inv, GapInv, FenceInv, [Next]_vars, \A r \in Request : ~InTheTransaction(r)
  PROVE  FenceInv'
<1>1. \A q \in Request : Transacting(q)' => SameTransaction(q) /\ TransactionFence(q)
  BY Outside DEF FenceInv, SameTransaction
<1>2. CASE UNCHANGED <<log, row, imports>>
  <2>1. RowFence'
    BY <1>2 DEF FenceInv, RowFence
  <2> QED
    BY <1>1, <1>2, <2>1, SameFence DEF FenceInv
<1>3. CASE UNCHANGED <<row, imports>> /\ \E n \in Nat : Safe(n) /\ log' = From(log, n)
  <2>1. RowFence'
    BY <1>3, DeletionFence DEF FenceInv
  <2> QED
    BY <1>1, <1>3, <2>1, SameFence DEF FenceInv
<1>4. ASSUME NEW p \in Process, DeleteAllUserData(p) PROVE FenceInv'
  <2>1. imports' = {} /\ holder' = Nobody
        /\ \A q \in Request : Transacting(q)' => stale'[q]
    BY <1>4 DEF DeleteAllUserData, Transacting
  <2>2. RowFence'
    BY <2>1 DEF RowFence, UpTo, Fenced
  <2>3. \A q \in Request : Transacting(q)' => TransactionFence(q)'
    BY <2>1, RequestAssumption DEF TransactionFence, WaitingFence
  <2> QED
    BY <2>2, <2>3 DEF FenceInv
<1> QED
  BY <1>2, <1>3, <1>4, OutsideChanges

-----------------------------------------------------------------------------
(* Steps of a transaction: the others' fences stay while row and imports do. *)

LEMMA OthersFence ==
  ASSUME FenceInv, NEW r \in Request, UNCHANGED <<log, row, imports>>,
         \A q \in Request \ {r} : Transacting(q)' => SameTransaction(q),
         Transacting(r)' => TransactionFence(r)'
  PROVE  FenceInv'
<1>1. RowFence'
  BY DEF FenceInv, RowFence
<1>2. ASSUME NEW q \in Request \ {r}, Transacting(q)' PROVE TransactionFence(q)'
  BY <1>2, SameFence DEF FenceInv, SameTransaction
<1> QED
  BY <1>1, <1>2 DEF FenceInv

LEMMA BeginFence ==
  ASSUME Inv, FenceInv, NEW r \in Request, Begin(r) PROVE FenceInv'
<1>1. /\ UNCHANGED <<log, row, imports, holder, stale>> /\ view'[r] = log /\ trow'[r] = row
      /\ \A q \in Request \ {r} : Transacting(q)' => SameTransaction(q)
      /\ stage[r] # "working"
  BY DEF Inv, TypeOK, Begin, Transacting, SameTransaction, ghosts
<1>2. holder # r
  BY <1>1, RequestAssumption DEF Inv, HandlerInv
<1>3. TransactionFence(r)'
  BY <1>1, <1>2 DEF FenceInv, RowFence, TransactionFence, WaitingFence
<1> QED
  BY <1>1, <1>3, OthersFence

\* The row is locked as it was seen: the marker is resolved, and compared with the cursor.
LEMMA LockRowFence ==
  ASSUME Inv, RequestInv, FenceInv, NEW r \in Request, LockRow(r) PROVE FenceInv'
<1>1. /\ UNCHANGED <<log, row, imports, batch, cursor, wipe, stale>>
      /\ holder' = r /\ stage'[r] = "working" /\ stage[r] = "began" /\ Transacting(r)
      /\ holder # r /\ RowIsOurs(r) /\ results[r] = <<>>
  BY RequestAssumption
  DEF Inv, TypeOK, HandlerInv, BeforeProcessing, LockRow, Transacting, InTransaction, ghosts
<1>2. holder = Nobody /\ ~stale[r] /\ trow[r] = row
  BY <1>1, RequestAssumption DEF RowIsOurs, Inv, RowInv, SeesTheRow
<1>3. \A q \in Request \ {r} : Transacting(q)' => SameTransaction(q)
  BY <1>1, <1>2, RequestAssumption DEF Inv, TypeOK, LockRow, Transacting, SameTransaction
<1>4. UpTo(imports, Marker(trow[r], view[r])) /\ Marker(trow[r], view[r]) \in Nat
  <2>1. TransactionFence(r)
    BY <1>1 DEF FenceInv
  <2>2. IsLog(view[r]) /\ trow[r] \in SyncState
    BY DEF Inv, TypeOK
  <2> QED
    BY <1>1, <1>2, <2>1, <2>2, MarkerType DEF TransactionFence, WaitingFence
<1>5. Resolved(r).replacement = Marker(trow[r], view[r])
  <2>1. trow[r] \in SyncState
    BY DEF Inv, TypeOK
  <2> QED
    BY <2>1 DEF Resolved, Marker, SyncState
<1>6. InsertsFence(r)'
  <2>1. DOMAIN view'[r] \subseteq DOMAIN view[r]
    BY DEF Inv, TypeOK, LockRow, Nothing
  <2>2. \A s \in DOMAIN view[r] : s \in Nat /\ s <= row.lastSeq
    <3>1. SeesTheRow(r) /\ DOMAIN view[r] \subseteq Nat /\ row.lastSeq \in Nat
      BY <1>1 DEF Inv, RowInv, TypeOK, IsLog, SyncState
    <3> QED
      BY <1>2, <3>1 DEF SeesTheRow
  <2>3. row.lastSeq \in Nat
    BY DEF Inv, TypeOK, SyncState
  <2>4. Inserted(r)' = {}
    BY <1>1, <2>1, <2>2, <2>3 DEF Inserted
  <2> QED
    BY <2>4 DEF InsertsFence
<1>7. MarkerFence(r)'
  <2>1. CASE wipe[r]
    <3>1. IsFullState(batch[r]) /\ ~IsRepair(batch[r])
      BY <2>1 DEF RequestInv, IsFullState, IsRepair, FullStateKinds, Imports
    <3>2. ~BehindReplacement(r) /\ ~RepairBaseMoved(r)
      BY <3>1 DEF BehindReplacement, RepairBaseMoved
    <3>3. view'[r] = Nothing /\ results' = results
      BY <2>1, <3>2 DEF LockRow, Inv, TypeOK
    <3> QED
      BY <1>1, <2>1, <3>3 DEF MarkerFence
  <2>2. CASE ~wipe[r]
    <3>1. trow'[r] = Resolved(r)
      BY <2>2 DEF LockRow, Inv, TypeOK
    <3>2. trow'[r].replacement \in Nat /\ UpTo(imports, trow'[r].replacement)
      BY <1>4, <1>5, <3>1
    <3> QED
      BY <1>1, <2>2, <3>2 DEF MarkerFence, Unresolved
  <2> QED
    BY <2>1, <2>2
<1>8. CursorFence(r)'
  <2> SUFFICES ASSUME ~wipe[r], ~IsFullState(batch[r]), cursor[r] # NoCursor,
                      Len(results'[r]) < Len(batch[r])
               PROVE  trow'[r].replacement <= cursor[r]
    BY <1>1 DEF CursorFence
  <2>1. CASE BehindReplacement(r) /\ results' = [results EXCEPT ![r] = Every(batch[r], "FENCED")]
    <3>1. Len(results'[r]) = Len(batch[r])
      <4>1. results'[r] = Every(batch[r], "FENCED") /\ batch[r] \in Seq(Op)
        BY <2>1 DEF Inv, TypeOK
      <4>2. Len(Every(batch[r], "FENCED")) = Len(batch[r])
        BY <4>1, EveryType DEF Codes
      <4> QED
        BY <4>1, <4>2
    <3>2. Len(batch[r]) \in Nat
      BY DEF Inv, TypeOK
    <3> QED
      BY <3>1, <3>2
  <2>2. CASE ~BehindReplacement(r) /\ trow' = [trow EXCEPT ![r] = Resolved(r)]
    <3>1. trow'[r].replacement = Marker(trow[r], view[r])
      BY <1>5, <2>2 DEF Inv, TypeOK
    <3>2. ~(cursor[r] < Resolved(r).replacement) /\ cursor[r] \in Nat
      BY <2>2 DEF BehindReplacement, Inv, TypeOK, Cursors
    <3> QED
      BY <1>4, <1>5, <3>1, <3>2
  <2>3. ~RepairBaseMoved(r)
    BY DEF RepairBaseMoved, IsRepair, IsFullState, FullStateKinds
  <2> QED
    BY <2>1, <2>2, <2>3 DEF LockRow
<1>9. TransactionFence(r)'
  BY <1>1, <1>6, <1>7, <1>8 DEF TransactionFence
<1> QED
  BY <1>1, <1>3, <1>9, OthersFence

\* A clean slate never rejects its import.
LEMMA RejectFence ==
  ASSUME Inv, RequestInv, FenceInv, NEW r \in Request, Reject(r) PROVE FenceInv'
<1>1. /\ UNCHANGED <<log, row, imports, batch, cursor, wipe, stale, holder, view, trow, stage>>
      /\ stage[r] = "working" /\ Transacting(r)
      /\ Index(r) <= Len(batch[r]) /\ Rejection(r) # "NONE"
      /\ \A q \in Request \ {r} : results'[q] = results[q]
      /\ results'[r] = Append(results[r], Result(Rejection(r), 0))
  BY DEF Inv, TypeOK, Reject, Working, Transacting, InTransaction, ghosts
<1>2. \A q \in Request \ {r} : Transacting(q)' => SameTransaction(q)
  BY <1>1 DEF Transacting, SameTransaction
<1>3. /\ results[r] \in Seq(Answer) /\ Len(results[r]) \in Nat /\ batch[r] \in Seq(Op)
      /\ Len(results'[r]) = Len(results[r]) + 1 /\ Len(results[r]) < Len(batch[r])
  <2>1. Rejection(r) \in Codes
    BY <1>1 DEF Rejection, Codes
  <2>2. Result(Rejection(r), 0) \in Answer
    BY <2>1 DEF Result, Answer
  <2>3. results[r] \in Seq(Answer) /\ batch[r] \in Seq(Op)
    BY DEF Inv, TypeOK
  <2> QED
    BY <1>1, <2>2, <2>3 DEF Index
<1>4. CASE holder # r
  BY <1>1, <1>2, <1>4, OthersFence DEF FenceInv, TransactionFence, WaitingFence
<1>5. CASE holder = r
  <2>1. MarkerFence(r) /\ CursorFence(r) /\ InsertsFence(r)
    BY <1>1, <1>5 DEF FenceInv, TransactionFence
  <2>2. Inserted(r)' = Inserted(r)
    BY <1>1 DEF Inserted
  <2>3. ~wipe[r] \/ results[r] # <<>>
    <3> SUFFICES ASSUME wipe[r], results[r] = <<>> PROVE FALSE
      OBVIOUS
    <3>1. view[r] = Nothing /\ IsFullState(batch[r]) /\ Index(r) = 1 /\ occupied[r] = {}
      BY <1>1, <2>1 DEF MarkerFence, RequestInv, IsFullState, FullStateKinds, Index
    <3>2. ~Repeated(r)
      BY <3>1 DEF Repeated
    <3>3. batch[r][Index(r)] \notin StoredIds(view[r])
      BY <3>1 DEF StoredIds, Nothing
    <3>4. ~Conflicts(view[r], batch[r][Index(r)])
      BY <3>1 DEF Conflicts, IsFullState
    <3> QED
      BY <1>1, <3>1, <3>2, <3>3, <3>4 DEF Rejection
  <2>4. results'[r] # <<>>
    BY <1>3
  <2>5. MarkerFence(r)'
    BY <1>1, <2>1, <2>2, <2>3, <2>4 DEF MarkerFence
  <2>6. CursorFence(r)'
    <3>1. Len(results'[r]) < Len(batch[r]) => Len(results[r]) < Len(batch[r])
      BY <1>3
    <3> QED
      BY <1>1, <2>1, <3>1 DEF CursorFence
  <2>7. InsertsFence(r)'
    <3>1. Len(results[r]) # Len(batch[r])
      BY <1>3
    <3> QED
      BY <1>1, <2>1, <2>2, <3>1 DEF InsertsFence
  <2> QED
    BY <1>1, <1>2, <1>5, <2>5, <2>6, <2>7, OthersFence DEF TransactionFence
<1> QED
  BY <1>4, <1>5

\* What the row says when an operation is accepted, by whoever holds it then.
LEMMA RowAtAccept ==
  ASSUME Inv, FenceInv, NEW r \in Request, Transacting(r), stage[r] = "working", RowIsOurs(r)
  PROVE  /\ wipe[r] \/ cursor[r] # NoCursor => holder = r
         /\ CursorFence(r) /\ InsertsFence(r)
         /\ ~wipe[r] => MarkerFence(r)
<1>1. wipe[r] \/ cursor[r] # NoCursor => holder = r
  BY DEF Inv, HandlerInv, NeedsRowLock
<1>2. CASE holder = r
  BY <1>1, <1>2 DEF FenceInv, TransactionFence
<1>3. CASE holder # r
  <2>1. ~stale[r] /\ trow[r] = row /\ cursor[r] = NoCursor /\ ~wipe[r]
    BY <1>1, <1>3 DEF RowIsOurs, Inv, RowInv, SeesTheRow
  <2>2. Inserted(r) = {}
    BY <1>3, InsertsNeedTheRow
  <2>3. UpTo(imports, Marker(trow[r], view[r]))
    BY <1>3, <2>1 DEF FenceInv, TransactionFence, WaitingFence
  <2> QED
    BY <1>1, <2>1, <2>2, <2>3 DEF CursorFence, InsertsFence, MarkerFence, Marker
<1> QED
  BY <1>2, <1>3

\* The operation is above every import, unless it is one: then the marker is its own.
LEMMA AcceptFence ==
  ASSUME Inv, RequestInv, FenceInv, NEW r \in Request, Accept(r) PROVE FenceInv'
<1> DEFINE o == batch[r][Index(r)]
           seq == trow[r].lastSeq + 1
<1>1. /\ Transacting(r) /\ stage[r] = "working" /\ RowIsOurs(r) /\ holder' = r
      /\ UNCHANGED <<log, row, imports, stage, batch, cursor, wipe, stale>>
      /\ \A q \in Request \ {r} : view'[q] = view[q] /\ trow'[q] = trow[q]
                                  /\ results'[q] = results[q]
      /\ Len(results[r]) < Len(batch[r]) /\ Len(results'[r]) = Len(results[r]) + 1
      /\ Stores(r, o)
      /\ Content[o].kind \in FullStateKinds
            => Len(batch[r]) = 1 /\ IsFullState(batch[r]) /\ results[r] = <<>> /\ o = batch[r][1]
  BY Accepted
<1> HIDE DEF o
<1>2. \A q \in Request \ {r} : Transacting(q)' => SameTransaction(q)
  <2>1. holder \in {r, Nobody}
    BY <1>1 DEF RowIsOurs
  <2> QED
    BY <1>1, <2>1, RequestAssumption DEF Transacting, SameTransaction
<1>3. /\ wipe[r] \/ cursor[r] # NoCursor => holder = r
      /\ CursorFence(r) /\ InsertsFence(r)
      /\ ~wipe[r] => MarkerFence(r)
  BY <1>1, RowAtAccept
<1>4. /\ Len(results[r]) \in Nat /\ Len(batch[r]) \in Nat /\ row.lastSeq \in Nat
      /\ imports \subseteq Nat /\ trow[r] \in SyncState /\ cursor[r] \in Nat \cup {NoCursor}
      /\ DOMAIN view[r] \subseteq Nat
  BY DEF Inv, TypeOK, SyncState, IsLog, Cursors
<1>5. /\ seq \in Nat /\ row.lastSeq < seq
      /\ DOMAIN view'[r] = DOMAIN view[r] \cup {seq}
      /\ view'[r][seq].id = o /\ view'[r][seq].known = cursor[r]
      /\ \A s \in DOMAIN view[r] : s < seq /\ view'[r][s] = view[r][s]
      /\ trow'[r].lastSeq = seq
      /\ trow'[r].replacement = IF Content[o].kind \in Imports THEN seq ELSE trow[r].replacement
  BY <1>1 DEF Stores
<1> HIDE DEF seq
<1>6. /\ Inserted(r)' = Inserted(r) \cup {seq}
      /\ KindAt(view'[r], seq) = Content[o].kind
      /\ \A s \in Inserted(r) : view'[r][s] = view[r][s] /\ s < seq
                                /\ KindAt(view'[r], s) = KindAt(view[r], s)
  BY <1>1, <1>4, <1>5 DEF Inserted, KindAt
<1>7. UpTo(imports, row.lastSeq)
  BY DEF FenceInv, RowFence
<1>8. results'[r] # <<>> /\ Len(results[r]) # Len(batch[r])
  BY <1>1, <1>4
<1>9. wipe[r] => Content[o].kind \in Imports
  <2> SUFFICES ASSUME wipe[r] PROVE Content[o].kind \in Imports
    OBVIOUS
  <2>1. Len(batch[r]) = 1 /\ Content[batch[r][1]].kind \in Imports
    BY DEF RequestInv
  <2>2. Index(r) = 1
    BY <1>1, <1>4, <2>1 DEF Index
  <2> QED
    BY <2>1, <2>2 DEF o
<1>10. IsFullState(batch[r]) => Content[o].kind \in FullStateKinds
  <2> SUFFICES ASSUME IsFullState(batch[r]) PROVE Content[o].kind \in FullStateKinds
    OBVIOUS
  <2>1. Len(batch[r]) = 1 /\ Content[batch[r][1]].kind \in FullStateKinds
    BY DEF IsFullState
  <2>2. Index(r) = 1
    BY <1>1, <1>4, <2>1 DEF Index
  <2> QED
    BY <2>1, <2>2 DEF o
<1>11. MarkerFence(r)'
  <2>1. CASE Content[o].kind \in Imports
    <3>1. trow'[r].replacement = seq /\ seq > row.lastSeq /\ seq # Unresolved
      BY <1>5, <2>1 DEF Unresolved
    <3>2. UpTo(imports, seq)
      BY <1>4, <1>5, <1>7 DEF UpTo
    <3> QED
      BY <1>1, <1>8, <3>1, <3>2 DEF MarkerFence
  <2>2. CASE Content[o].kind \notin Imports /\ trow[r].replacement = Unresolved
    <3>1. ~wipe[r] /\ MarkerFence(r)
      BY <1>3, <1>9, <2>2
    <3>2. /\ row.replacement = Unresolved /\ cursor[r] = NoCursor
          /\ \A s \in Inserted(r) : ~Causal(KindAt(view[r], s), view[r][s].known)
      BY <2>2, <3>1 DEF MarkerFence
    <3>3. ~Causal(KindAt(view'[r], seq), view'[r][seq].known)
      BY <1>5, <1>6, <2>2, <3>2 DEF Causal
    <3>4. \A s \in Inserted(r)' : ~Causal(KindAt(view'[r], s), view'[r][s].known)
      BY <1>6, <3>2, <3>3
    <3> QED
      BY <1>1, <1>5, <2>2, <3>1, <3>2, <3>4 DEF MarkerFence
  <2>3. CASE Content[o].kind \notin Imports /\ trow[r].replacement # Unresolved
    BY <1>1, <1>3, <1>5, <1>9, <2>3 DEF MarkerFence
  <2> QED
    BY <2>1, <2>2, <2>3
<1>12. CursorFence(r)'
  <2> SUFFICES ASSUME ~wipe[r], ~IsFullState(batch[r]), cursor[r] # NoCursor,
                      Len(results'[r]) < Len(batch[r])
               PROVE  trow'[r].replacement <= cursor[r]
    BY <1>1 DEF CursorFence
  <2>1. Content[o].kind \notin Imports
    BY <1>1 DEF FullStateKinds
  <2> QED
    BY <1>1, <1>3, <1>5, <2>1 DEF CursorFence
<1>13. InsertsFence(r)'
  <2>1. ASSUME Content[o].kind \notin FullStateKinds, cursor[r] # NoCursor
        PROVE  UpTo(imports, cursor[r])
    <3>1. ~wipe[r] /\ ~IsFullState(batch[r])
      BY <1>9, <1>10, <2>1 DEF FullStateKinds
    <3>2. trow[r].replacement <= cursor[r] /\ UpTo(imports, trow[r].replacement)
      BY <1>1, <1>3, <2>1, <3>1 DEF CursorFence, MarkerFence
    <3>3. trow[r].replacement \in Int /\ cursor[r] \in Int
      BY <1>4 DEF SyncState, Unresolved, NoCursor
    <3> QED
      BY <1>4, <3>2, <3>3 DEF UpTo
  <2>2. ASSUME Content[o].kind \in Imports
        PROVE  seq = trow'[r].replacement /\ Len(results'[r]) = Len(batch[r])
    <3>1. Len(batch[r]) = 1
      BY <1>1, <2>2 DEF FullStateKinds
    <3>2. Len(results'[r]) = 1
      BY <1>1, <1>4, <3>1
    <3> QED
      BY <1>5, <2>2, <3>1, <3>2
  <2>3. \A s \in Inserted(r) : KindAt(view[r], s) \notin Imports
    BY <1>3, <1>8 DEF InsertsFence
  <2> QED
    BY <1>1, <1>3, <1>5, <1>6, <2>1, <2>2, <2>3 DEF InsertsFence
<1>14. TransactionFence(r)'
  BY <1>1, <1>11, <1>12, <1>13 DEF TransactionFence
<1> QED
  BY <1>1, <1>2, <1>14, OthersFence

\* A commit publishes the marker, the rows and the imports together.
LEMMA CommitRowFence ==
  ASSUME Inv, RequestInv, FenceInv, NEW r \in Request, Commit(r), holder = r PROVE RowFence'
<1> DEFINE kept == IF wipe[r] THEN {} ELSE DOMAIN log
           mine == ImportRows(view[r]) \cap Inserted(r)
<1>1. /\ log' = [s \in kept \cup Inserted(r) |-> IF s \in Inserted(r) THEN view[r][s] ELSE log[s]]
      /\ row' = trow[r] /\ imports' = imports \cup mine
      /\ Transacting(r) /\ Len(results[r]) = Len(batch[r])
  BY DEF Commit, Transacting, InTransaction
<1>2. MarkerFence(r) /\ InsertsFence(r)
  BY <1>1 DEF FenceInv, TransactionFence
<1>3. UpTo(imports, row.lastSeq) /\ UpTo(imports, Marker(row, log)) /\ Fenced(log, imports)
  BY DEF FenceInv, RowFence
<1>4. /\ row.lastSeq \in Nat /\ imports \subseteq Nat /\ trow[r].lastSeq \in Nat
      /\ trow[r].replacement \in Int /\ row.lastSeq <= trow[r].lastSeq
      /\ \A s \in DOMAIN log : s \in Nat /\ s <= row.lastSeq
  <2>1. SeesTheRow(r)
    BY <1>1 DEF Inv, RowInv
  <2> QED
    BY <2>1 DEF Inv, TypeOK, SyncState, Unresolved, IsLog, SeesTheRow
<1>5. \A s \in Inserted(r) : s \in Nat /\ row.lastSeq < s /\ s <= trow[r].lastSeq
                             /\ s \in DOMAIN view[r]
  <2>1. SeesTheRow(r) /\ DOMAIN view[r] \subseteq Nat
    BY <1>1 DEF Inv, RowInv, TypeOK, IsLog
  <2> QED
    BY <2>1 DEF SeesTheRow, Inserted
<1>6. \A i \in mine : /\ i = trow[r].lastSeq /\ i = trow[r].replacement
                      /\ i \in Nat /\ row.lastSeq < i
  BY <1>2, <1>5 DEF InsertsFence, ImportRows
<1>7. /\ DOMAIN log' = kept \cup Inserted(r)
      /\ \A s \in Inserted(r) : log'[s] = view[r][s]
      /\ \A s \in kept : log'[s] = log[s] /\ s \in DOMAIN log
  <2>1. \A s \in kept : s \notin Inserted(r)
    BY <1>4, <1>5
  <2> QED
    BY <1>1, <2>1
<1> HIDE DEF mine
<1>8. UpTo(imports', row'.lastSeq)
  BY <1>1, <1>3, <1>4, <1>6 DEF UpTo
<1>9. Fenced(log', imports')
  <2> SUFFICES ASSUME NEW s \in DOMAIN log', NEW i \in imports', i < s,
                      KindAt(log', s) \notin FullStateKinds, log'[s].known # NoCursor
               PROVE  log'[s].known >= i
    BY DEF Fenced
  <2>1. i \in imports
    <3>1. ASSUME i \in mine PROVE FALSE
      <4>1. s <= trow[r].lastSeq /\ s \in Nat
        BY <1>4, <1>5, <1>7
      <4> QED
        BY <1>6, <3>1, <4>1
    <3> QED
      BY <1>1, <3>1
  <2>2. CASE s \in Inserted(r)
    BY <1>2, <1>7, <2>1, <2>2 DEF InsertsFence, KindAt, UpTo
  <2>3. CASE s \notin Inserted(r)
    BY <1>3, <1>7, <2>1, <2>3 DEF Fenced, KindAt
  <2> QED
    BY <2>2, <2>3
<1>10. UpTo(imports', Marker(row', log'))
  <2>1. CASE wipe[r]
    <3>1. results[r] # <<>>
      <4>1. Len(batch[r]) = 1
        BY <2>1 DEF RequestInv
      <4> QED
        BY <1>1, <4>1
    <3>2. trow[r].replacement > row.lastSeq
      BY <1>2, <2>1, <3>1 DEF MarkerFence
    <3>3. Marker(row', log') = trow[r].replacement
      BY <1>1, <1>4, <3>2 DEF Marker, Unresolved
    <3> QED
      BY <1>1, <1>3, <1>4, <1>6, <3>2, <3>3 DEF UpTo
  <2>2. CASE ~wipe[r] /\ trow[r].replacement # Unresolved
    <3>1. UpTo(imports, trow[r].replacement)
      BY <1>2, <2>2 DEF MarkerFence
    <3>2. Marker(row', log') = trow[r].replacement
      BY <1>1, <2>2 DEF Marker
    <3> QED
      BY <1>1, <1>4, <1>6, <3>1, <3>2 DEF UpTo
  <2>3. CASE ~wipe[r] /\ trow[r].replacement = Unresolved
    <3>1. /\ row.replacement = Unresolved
          /\ \A s \in Inserted(r) : ~Causal(KindAt(view[r], s), view[r][s].known)
      BY <1>2, <2>3 DEF MarkerFence
    <3>2. imports' = imports
      BY <1>1, <1>6, <2>3 DEF Unresolved
    <3>3. CausalRows(log') = CausalRows(log) /\ ImportRows(log') = ImportRows(log)
      <4>1. \A s \in Inserted(r) : ~Causal(KindAt(log', s), log'[s].known)
                                   /\ KindAt(log', s) \notin Imports
        BY <1>7, <3>1 DEF KindAt, Causal
      <4>2. DOMAIN log' = DOMAIN log \cup Inserted(r)
            /\ \A s \in DOMAIN log : log'[s] = log[s]
        BY <1>7, <2>3
      <4> QED
        BY <4>1, <4>2 DEF CausalRows, ImportRows, KindAt
    <3>4. Resolve(log') = Resolve(log)
      BY <3>3 DEF Resolve
    <3> QED
      BY <1>1, <1>3, <2>3, <3>1, <3>2, <3>4 DEF Marker
  <2> QED
    BY <2>1, <2>2, <2>3
<1> QED
  BY <1>8, <1>9, <1>10 DEF RowFence

\* Who does not hold the row has nothing to commit.
LEMMA CommitFence ==
  ASSUME Inv, RequestInv, FenceInv, NEW r \in Request, Commit(r) PROVE FenceInv'
<1>1. /\ stage[r] = "working" /\ ~Transacting(r)'
      /\ UNCHANGED <<batch, cursor, wipe, view, trow, results>>
      /\ \A q \in Request \ {r} : stage'[q] = stage[q] /\ (stale[q] => stale'[q])
  BY DEF Inv, TypeOK, Commit, Transacting, InTransaction
<1>2. CASE holder # r
  <2>1. Inserted(r) = {} /\ ~wipe[r]
    BY <1>1, <1>2, InsertsNeedTheRow DEF Inv, HandlerInv, NeedsRowLock
  <2>2. row' = row /\ holder' = holder /\ imports' = imports
    BY <1>2, <2>1 DEF Commit
  <2>3. log' = log
    <3>1. log' = [s \in DOMAIN log |-> log[s]]
      BY <2>1 DEF Commit
    <3> QED
      BY <3>1 DEF Inv, TypeOK, IsLog
  <2> QED
    BY <1>1, <2>2, <2>3, OthersFence DEF Transacting, SameTransaction
<1>3. CASE holder = r
  <2>1. RowFence'
    BY <1>3, CommitRowFence
  <2>2. ASSUME NEW q \in Request, Transacting(q)' PROVE TransactionFence(q)'
    <3>1. q # r /\ Transacting(q) /\ holder' = Nobody
      BY <1>1, <1>3, <2>2 DEF Transacting, Commit
    <3>2. holder # q /\ holder' # q
      BY <1>3, <3>1, RequestAssumption
    <3>3. CASE row' # row
      <4>1. stale'[q]
        BY <3>1, <3>3 DEF Commit, Transacting
      <4> QED
        BY <3>2, <4>1 DEF TransactionFence, WaitingFence
    <3>4. CASE row' = row
      <4>1. Inserted(r) = {}
        <5>1. SeesTheRow(r) /\ trow[r] = row /\ row.lastSeq \in Nat /\ DOMAIN view[r] \subseteq Nat
          BY <1>1, <1>3, <3>4
          DEF Inv, RowInv, Transacting, InTransaction, Commit, TypeOK, SyncState, IsLog
        <5> QED
          BY <5>1 DEF SeesTheRow, Inserted
      <4>2. imports' = imports
        BY <4>1 DEF Commit
      <4>3. WaitingFence(q)
        BY <3>1, <3>2 DEF FenceInv, TransactionFence
      <4> QED
        BY <1>1, <3>1, <3>2, <4>2, <4>3 DEF TransactionFence, WaitingFence
    <3> QED
      BY <3>3, <3>4
  <2> QED
    BY <2>1, <2>2 DEF FenceInv
<1> QED
  BY <1>2, <1>3

-----------------------------------------------------------------------------
\* The history the server starts with is fenced, also by imports that are gone.
LEMMA InitFence == Init => FenceInv
<1> SUFFICES ASSUME Init PROVE FenceInv
  OBVIOUS
<1>1. /\ log = History /\ imports = LostImports \cup ImportRows(History)
      /\ row.replacement = Unresolved /\ row.lastSeq \in Nat
      /\ \A s \in DOMAIN History : s <= row.lastSeq
  <2>1. Inv
    BY InitInv
  <2>2. row.replacement = Unresolved
    BY DEF Init, NewState
  <2> QED
    BY <2>1, <2>2 DEF Init, Inv, TypeOK, SyncState
<1>2. IsLog(History) /\ LostImports \subseteq Nat
  BY HistoryAssumption
<1>3. UpTo(imports, Resolve(History)) /\ Resolve(History) \in Nat
  <2>1. Resolve(History) \in Nat /\ UpTo(ImportRows(History), Resolve(History))
    BY <1>2, ResolveOf
  <2>2. ASSUME NEW i \in LostImports PROVE i <= Resolve(History)
    <3>1. CausalRows(History) # {}
      BY HistoryIsFenced
    <3>2. Resolve(History) \in DOMAIN History
      BY <1>2, <3>1, ResolveOf DEF ImportRows, CausalRows
    <3>3. i \in Nat /\ i < Resolve(History)
      BY <1>2, <3>2, HistoryIsFenced
    <3> QED
      BY <2>1, <3>3
  <2> QED
    BY <1>1, <2>1, <2>2 DEF UpTo
<1>4. Resolve(History) <= row.lastSeq
  <2>1. Resolve(History) = 0 \/ Resolve(History) \in ImportRows(History) \cup CausalRows(History)
    BY <1>2, ResolveOf
  <2>2. ImportRows(History) \cup CausalRows(History) \subseteq DOMAIN History
    BY DEF ImportRows, CausalRows
  <2> QED
    BY <1>1, <2>1, <2>2
<1>5. UpTo(imports, row.lastSeq)
  <2>1. imports \subseteq Nat
    BY <1>1, <1>2 DEF ImportRows, IsLog
  <2> QED
    BY <1>1, <1>3, <1>4, <2>1 DEF UpTo
<1>6. Fenced(log, imports) /\ UpTo(imports, Marker(row, log))
  BY <1>1, <1>3, HistoryIsFenced DEF Marker
<1>7. \A r \in Request : ~Transacting(r)
  BY DEF Init, Transacting, InTransaction
<1> QED
  BY <1>5, <1>6, <1>7 DEF FenceInv, RowFence

(***************************************************************************)
(* The state-replacement fence: an operation uploaded with a cursor was    *)
(* accepted only from a device that had downloaded every import accepted   *)
(* before it since the last wipe, although imports are pruned, the marker  *)
(* is resolved late and uploads without a cursor never look at it.         *)
(***************************************************************************)
THEOREM ImportsFenceOperations == Spec => []FencedByImports
<1>1. Inv /\ RequestInv /\ GapInv /\ FenceInv /\ [Next]_vars => FenceInv'
  <2> SUFFICES ASSUME Inv, RequestInv, GapInv, FenceInv, [Next]_vars PROVE FenceInv'
    OBVIOUS
  <2>1. CASE \E r \in Request : InTheTransaction(r)
    BY <2>1, BeginFence, LockRowFence, RejectFence, AcceptFence, CommitFence DEF InTheTransaction
  <2>2. CASE \A r \in Request : ~InTheTransaction(r)
    BY <2>2, OutsideFence
  <2> QED
    BY <2>1, <2>2
<1>2. Init => GapInv
  BY InitGapInv
<1>3. Inv /\ GapInv /\ [Next]_vars => GapInv'
  BY StepGapInv
<1>4. Inv /\ RequestInv /\ [Next]_vars => RequestInv'
  BY StepRequestInv
<1>5. FenceInv => FencedByImports
  BY DEF FenceInv, RowFence, FencedByImports
<1> QED
  BY <1>1, <1>2, <1>3, <1>4, <1>5, InitFence, InitRequestInv, Invariance, PTL DEF Spec

-----------------------------------------------------------------------------
(***************************************************************************)
(* The other marker of the row: the newest checkpoint, with a clock that   *)
(* covers the history at and below it.                                     *)
(***************************************************************************)

Marked(w, l) ==
  w.fullSeq # 0 =>
    /\ w.fullSeq \in CausalRows(l) /\ UpTo(CausalRows(l), w.fullSeq)
    /\ \A s \in DOMAIN l : \A c \in Client :
         s <= w.fullSeq => l[s].clock[c] <= w.fullClock[c]

\* The holder of the row has put the marker on a row of its own, or left it alone.
HolderMarks(r) ==
  IF wipe[r] THEN Marked(trow[r], view[r]) /\ DOMAIN view[r] = Inserted(r)
  ELSE \/ trow[r].fullSeq \in Inserted(r) /\ Marked(trow[r], view[r])
       \/ /\ trow[r].fullSeq = row.fullSeq /\ trow[r].fullClock = row.fullClock
          /\ \A s \in Inserted(r) : ~Causal(KindAt(view[r], s), view[r][s].known)

MarkInv ==
  /\ Marked(row, log)
  /\ \A r \in Request : Transacting(r) /\ holder = r => HolderMarks(r)

\* The marker survives a safe deletion: the newest checkpoint is never deleted.
LEMMA DeletionMarked ==
  ASSUME Inv, Marked(row, log), row' = row, NEW n \in Nat, Safe(n), log' = From(log, n)
  PROVE  Marked(row, log)'
<1> SUFFICES ASSUME row.fullSeq # 0 PROVE Marked(row, log)'
  BY DEF Marked
<1>1. /\ DOMAIN log' = {s \in DOMAIN log : s >= n}
      /\ \A s \in DOMAIN log' : log'[s] = log[s]
      /\ DOMAIN log \subseteq Nat /\ row.fullSeq \in Nat
  BY DEF Inv, TypeOK, IsLog, From, SyncState
<1>2. CausalRows(log)' = {s \in CausalRows(log) : s >= n} /\ CausalRows(log) \subseteq DOMAIN log
  BY <1>1 DEF CausalRows, KindAt
<1>3. /\ row.fullSeq \in CausalRows(log) /\ \A s \in CausalRows(log) : s <= row.fullSeq
      /\ \A s \in DOMAIN log : \A c \in Client :
           s <= row.fullSeq => log[s].clock[c] <= row.fullClock[c]
  BY DEF Marked, UpTo
<1>4. row.fullSeq >= n
  <2>1. CASE \E s \in CausalRows(log) : s >= n
    BY <1>1, <1>2, <1>3, <2>1
  <2>2. CASE \A s \in DOMAIN log : s >= n
    BY <1>2, <1>3, <2>2
  <2> QED
    BY <2>1, <2>2 DEF Safe
<1>5. row.fullSeq \in CausalRows(log)' /\ \A s \in CausalRows(log)' : s <= row.fullSeq
  BY <1>2, <1>3, <1>4
<1>6. \A s \in DOMAIN log' : \A c \in Client :
        s <= row.fullSeq => log'[s].clock[c] <= row.fullClock[c]
  BY <1>1, <1>3
<1> QED
  BY <1>5, <1>6 DEF Marked, UpTo

\* The transactions that go on have the marker they had.
LEMMA SameMarks ==
  ASSUME NEW q \in Request, SameTransaction(q), row' = row, holder = q => HolderMarks(q),
         holder' = q
  PROVE  HolderMarks(q)'
<1>1. Inserted(q)' = Inserted(q)
  BY DEF Inserted, SameTransaction
<1> QED
  BY <1>1 DEF SameTransaction, HolderMarks, Marked

LEMMA OutsideMarkInv ==
  ASSUME Inv, GapInv, MarkInv, [Next]_vars, \A r \in Request : ~InTheTransaction(r)
  PROVE  MarkInv'
<1>1. \A q \in Request : Transacting(q)' => SameTransaction(q) /\ (holder = q => HolderMarks(q))
  BY Outside DEF MarkInv, SameTransaction
<1>2. CASE row' = row /\ Marked(row, log)'
  BY <1>1, <1>2, SameMarks DEF MarkInv
<1>3. CASE UNCHANGED <<log, row, imports>>
  BY <1>2, <1>3 DEF MarkInv, Marked
<1>4. CASE UNCHANGED <<row, imports>> /\ \E n \in Nat : Safe(n) /\ log' = From(log, n)
  BY <1>2, <1>4, DeletionMarked DEF MarkInv
<1>5. ASSUME NEW p \in Process, DeleteAllUserData(p) PROVE MarkInv'
  <2>1. holder' = Nobody /\ row'.fullSeq = 0
    BY <1>5 DEF DeleteAllUserData, Wiped, NewState
  <2> QED
    BY <2>1, RequestAssumption DEF MarkInv, Marked
<1> QED
  BY <1>3, <1>4, <1>5, OutsideChanges

\* Steps of a transaction other than its commit.
LEMMA OneMarks ==
  ASSUME MarkInv, NEW r \in Request, UNCHANGED <<log, row>>,
         \A q \in Request \ {r} : Transacting(q)' => SameTransaction(q),
         holder' = r => HolderMarks(r)'
  PROVE  MarkInv'
<1>1. Marked(row, log)'
  BY DEF MarkInv
<1>2. ASSUME NEW q \in Request \ {r}, Transacting(q)', holder' = q PROVE HolderMarks(q)'
  BY <1>2, SameMarks DEF MarkInv, SameTransaction
<1> QED
  BY <1>1, <1>2 DEF MarkInv

LEMMA BeginMarkInv ==
  ASSUME Inv, MarkInv, NEW r \in Request, Begin(r) PROVE MarkInv'
<1>1. /\ UNCHANGED <<log, row, holder>>
      /\ \A q \in Request \ {r} : Transacting(q)' => SameTransaction(q)
      /\ stage[r] # "working"
  BY DEF Inv, TypeOK, Begin, Transacting, SameTransaction
<1>2. holder' # r
  BY <1>1, RequestAssumption DEF Inv, HandlerInv
<1> QED
  BY <1>1, <1>2, OneMarks

\* A row that is locked is the row that was seen, and nothing is inserted yet.
LEMMA LockRowMarkInv ==
  ASSUME Inv, RequestInv, MarkInv, NEW r \in Request, LockRow(r) PROVE MarkInv'
<1>1. /\ UNCHANGED <<log, row, wipe>> /\ stage[r] = "began" /\ Transacting(r)
      /\ holder # r /\ RowIsOurs(r)
  BY RequestAssumption
  DEF Inv, TypeOK, HandlerInv, BeforeProcessing, LockRow, Transacting, InTransaction, ghosts
<1>2. holder = Nobody /\ trow[r] = row
  BY <1>1, RequestAssumption DEF RowIsOurs, Inv, RowInv, SeesTheRow
<1>3. \A q \in Request \ {r} : Transacting(q)' => SameTransaction(q)
  BY <1>1, <1>2, RequestAssumption DEF Inv, TypeOK, LockRow, Transacting, SameTransaction
<1>4. CASE wipe[r]
  <2>1. IsFullState(batch[r]) /\ ~IsRepair(batch[r])
    BY <1>4 DEF RequestInv, IsFullState, IsRepair, FullStateKinds, Imports
  <2>2. ~BehindReplacement(r) /\ ~RepairBaseMoved(r)
    BY <2>1 DEF BehindReplacement, RepairBaseMoved
  <2>3. view'[r] = Nothing /\ trow'[r] = Wiped(trow[r])
    BY <1>4, <2>2 DEF LockRow, Inv, TypeOK
  <2>4. trow'[r].fullSeq = 0 /\ DOMAIN view'[r] = {} /\ Inserted(r)' = {}
    BY <2>3 DEF Wiped, NewState, Nothing, Inserted
  <2> QED
    BY <1>1, <1>3, <1>4, <2>4, OneMarks DEF HolderMarks, Marked
<1>5. CASE ~wipe[r]
  <2>1. trow'[r] = Resolved(r) /\ view'[r] = view[r]
    BY <1>5 DEF LockRow, Inv, TypeOK
  <2>2. trow'[r].fullSeq = row.fullSeq /\ trow'[r].fullClock = row.fullClock
    <3>1. trow[r] \in SyncState
      BY DEF Inv, TypeOK
    <3> QED
      BY <1>2, <2>1, <3>1 DEF Resolved, SyncState
  <2>3. Inserted(r)' = {}
    <3>1. SeesTheRow(r) /\ DOMAIN view[r] \subseteq Nat /\ row.lastSeq \in Nat
      BY <1>1 DEF Inv, RowInv, TypeOK, IsLog, SyncState
    <3> QED
      BY <1>1, <1>2, <2>1, <3>1 DEF SeesTheRow, Inserted
  <2> QED
    BY <1>1, <1>3, <1>5, <2>2, <2>3, OneMarks DEF HolderMarks
<1> QED
  BY <1>4, <1>5

LEMMA RejectMarkInv ==
  ASSUME Inv, MarkInv, NEW r \in Request, Reject(r) PROVE MarkInv'
<1>1. /\ UNCHANGED <<log, row, wipe, view, trow, holder, stage>> /\ Transacting(r)
      /\ \A q \in Request \ {r} : Transacting(q)' => SameTransaction(q)
  BY DEF Inv, TypeOK, Reject, Working, Transacting, InTransaction, SameTransaction
<1>2. Inserted(r)' = Inserted(r)
  BY <1>1 DEF Inserted
<1>3. holder' = r => HolderMarks(r)'
  BY <1>1, <1>2 DEF MarkInv, HolderMarks, Marked
<1> QED
  BY <1>1, <1>3, OneMarks

\* A checkpoint moves the marker to itself, whatever it was; another operation is
\* above the marker.
LEMMA AcceptMarkInv ==
  ASSUME Inv, RequestInv, MarkInv, NEW r \in Request, Accept(r) PROVE MarkInv'
<1> DEFINE o == batch[r][Index(r)]
           seq == trow[r].lastSeq + 1
           causal == Causal(Content[o].kind, cursor[r])
<1>1. /\ Transacting(r) /\ stage[r] = "working" /\ RowIsOurs(r) /\ holder' = r
      /\ UNCHANGED <<log, row, stage, batch, cursor, wipe, stale>>
      /\ \A q \in Request \ {r} : view'[q] = view[q] /\ trow'[q] = trow[q]
                                  /\ results'[q] = results[q]
      /\ Stores(r, o) /\ o \in Op
  BY Accepted
<1>2. /\ view'[r][seq].clock = StoredClock(view[r], o, cursor[r])
      /\ trow'[r].fullSeq = IF causal THEN seq ELSE trow[r].fullSeq
      /\ trow'[r].fullClock = IF causal THEN FullStateClock(view[r], o) ELSE trow[r].fullClock
  <2>1. trow'[r] = RowAfter(trow[r], view[r], o, cursor[r], seq)
    BY DEF Inv, TypeOK, Accept
  <2>2. view'[r][seq] = [id |-> o, known |-> cursor[r],
                         clock |-> StoredClock(view[r], o, cursor[r])]
    BY DEF Inv, TypeOK, Accept
  <2> HIDE DEF o, seq
  <2> QED
    BY <2>1, <2>2 DEF RowAfter
<1> HIDE DEF o
<1>3. \A q \in Request \ {r} : Transacting(q)' => SameTransaction(q)
  <2>1. holder \in {r, Nobody}
    BY <1>1 DEF RowIsOurs
  <2> QED
    BY <1>1, <2>1, RequestAssumption DEF Transacting, SameTransaction
<1>4. /\ seq \in Nat /\ row.lastSeq < seq
      /\ DOMAIN view'[r] = DOMAIN view[r] \cup {seq}
      /\ view'[r][seq].id = o /\ view'[r][seq].known = cursor[r]
      /\ \A s \in DOMAIN view[r] : s < seq /\ view'[r][s] = view[r][s]
  BY <1>1 DEF Stores
<1>5. /\ row.lastSeq \in Nat /\ DOMAIN view[r] \subseteq Nat /\ IsLog(view[r])
      /\ trow[r].fullSeq \in Nat /\ row.fullSeq \in Nat /\ seq # 0
  <2>1. IsLog(view[r])
    BY DEF Inv, TypeOK
  <2>2. row.lastSeq \in Nat /\ row.fullSeq \in Nat /\ trow[r].fullSeq \in Nat
    BY DEF Inv, TypeOK, SyncState
  <2>3. DOMAIN view[r] \subseteq Nat
    BY <2>1 DEF IsLog
  <2>4. seq # 0
    BY <1>4, <2>2
  <2> QED
    BY <2>1, <2>2, <2>3, <2>4
<1> HIDE DEF seq
<1>6. /\ Inserted(r)' = Inserted(r) \cup {seq} /\ seq \notin DOMAIN view[r]
      /\ Causal(KindAt(view'[r], seq), view'[r][seq].known) <=> causal
      /\ \A s \in DOMAIN view[r] : KindAt(view'[r], s) = KindAt(view[r], s)
      /\ CausalRows(view[r]) \subseteq DOMAIN view[r]
      /\ CausalRows(view'[r]) = CausalRows(view[r]) \cup (IF causal THEN {seq} ELSE {})
  BY <1>1, <1>4, <1>5 DEF Inserted, KindAt, CausalRows
<1>7. wipe[r] => holder = r
  BY <1>1 DEF Inv, HandlerInv, NeedsRowLock
<1>8. DOMAIN view[r] = Inserted(r) => DOMAIN view'[r] = Inserted(r)'
  BY <1>4, <1>6
<1>9. CASE causal
  <2>1. Marked(trow[r], view[r])'
    <3>1. /\ trow'[r].fullSeq = seq /\ seq \in CausalRows(view'[r])
          /\ \A s \in CausalRows(view'[r]) : s <= seq
      BY <1>2, <1>4, <1>5, <1>6, <1>9
    <3>2. ASSUME NEW s \in DOMAIN view'[r], NEW c \in Client
          PROVE  view'[r][s].clock[c] <= trow'[r].fullClock[c]
      <4>1. /\ trow'[r].fullClock = FullStateClock(view[r], o)
            /\ trow'[r].fullClock[c] \in Nat
            /\ Content[o].clock[c] <= trow'[r].fullClock[c]
            /\ \A t \in DOMAIN view[r] : view[r][t].clock[c] <= trow'[r].fullClock[c]
        BY <1>1, <1>2, <1>5, <1>9, FullStateClockCovers DEF Clock
      <4>2. StoredClock(view[r], o, cursor[r])[c] \in {0, Content[o].clock[c]}
        BY <1>1, ContentType, LimitClockOnlyRemoves DEF StoredClock
      <4>3. CASE s = seq
        BY <1>2, <4>1, <4>2, <4>3
      <4>4. CASE s \in DOMAIN view[r]
        BY <1>4, <4>1, <4>4
      <4> QED
        BY <1>4, <4>3, <4>4
    <3> QED
      BY <3>1, <3>2 DEF Marked, UpTo
  <2>2. trow'[r].fullSeq \in Inserted(r)'
    BY <1>2, <1>6, <1>9
  <2>3. wipe[r] => DOMAIN view'[r] = Inserted(r)'
    BY <1>1, <1>7, <1>8 DEF MarkInv, HolderMarks
  <2>4. HolderMarks(r)'
    BY <1>1, <2>1, <2>2, <2>3 DEF HolderMarks
  <2> QED
    BY <1>1, <1>3, <2>4, OneMarks
<1>10. CASE ~causal
  <2>1. trow'[r].fullSeq = trow[r].fullSeq /\ trow'[r].fullClock = trow[r].fullClock
    BY <1>2, <1>10
  <2>2. ASSUME Marked(trow[r], view[r]) PROVE Marked(trow[r], view[r])'
    <3> SUFFICES ASSUME trow[r].fullSeq # 0 PROVE Marked(trow[r], view[r])'
      BY <2>1 DEF Marked
    <3>1. trow[r].fullSeq < seq /\ trow[r].fullSeq \in CausalRows(view[r])
      BY <1>4, <1>6, <2>2 DEF Marked
    <3>2. trow[r].fullSeq \in CausalRows(view'[r]) /\ UpTo(CausalRows(view'[r]), trow[r].fullSeq)
      BY <1>6, <1>10, <2>2, <3>1 DEF Marked
    <3>3. \A s \in DOMAIN view'[r] : s <= trow[r].fullSeq
             => s \in DOMAIN view[r] /\ view'[r][s] = view[r][s]
      BY <1>4, <1>5, <3>1
    <3> QED
      BY <2>1, <2>2, <3>2, <3>3 DEF Marked
  <2>3. CASE holder = r
    <3>1. HolderMarks(r)
      BY <1>1, <2>3 DEF MarkInv
    <3>2. HolderMarks(r)'
      <4>1. CASE wipe[r]
        BY <1>1, <1>8, <2>2, <3>1, <4>1 DEF HolderMarks
      <4>2. CASE ~wipe[r] /\ trow[r].fullSeq \in Inserted(r) /\ Marked(trow[r], view[r])
        BY <1>1, <1>6, <2>1, <2>2, <4>2 DEF HolderMarks
      <4>3. CASE /\ ~wipe[r] /\ trow[r].fullSeq = row.fullSeq /\ trow[r].fullClock = row.fullClock
                 /\ \A s \in Inserted(r) : ~Causal(KindAt(view[r], s), view[r][s].known)
        <5>1. \A s \in Inserted(r) : s \in DOMAIN view[r]
          BY DEF Inserted
        <5>2. \A s \in Inserted(r)' : ~Causal(KindAt(view'[r], s), view'[r][s].known)
          BY <1>4, <1>6, <1>10, <4>3, <5>1
        <5> QED
          BY <1>1, <2>1, <4>3, <5>2 DEF HolderMarks
      <4> QED
        BY <3>1, <4>1, <4>2, <4>3 DEF HolderMarks
    <3> QED
      BY <1>1, <1>3, <3>2, OneMarks
  <2>4. CASE holder # r
    <3>1. trow[r] = row /\ ~wipe[r]
      BY <1>1, <1>7, <2>4 DEF RowIsOurs, Inv, RowInv, SeesTheRow
    <3>2. Inserted(r)' = {seq}
      BY <1>1, <1>6, <2>4, InsertsNeedTheRow
    <3>3. HolderMarks(r)'
      BY <1>1, <1>6, <1>10, <2>1, <3>1, <3>2 DEF HolderMarks
    <3> QED
      BY <1>1, <1>3, <3>3, OneMarks
  <2> QED
    BY <2>3, <2>4
<1> QED
  BY <1>9, <1>10

\* The log that is committed is what the holder saw, less what was deleted beside it.
LEMMA CommitMarkInv ==
  ASSUME Inv, ViewInv, MarkInv, NEW r \in Request, Commit(r) PROVE MarkInv'
<1> DEFINE kept == IF wipe[r] THEN {} ELSE DOMAIN log
<1>1. /\ stage[r] = "working" /\ Transacting(r) /\ ~Transacting(r)'
      /\ UNCHANGED <<batch, cursor, wipe, view, trow, results>>
      /\ \A q \in Request \ {r} : stage'[q] = stage[q] /\ (stale[q] => stale'[q])
      /\ log' = [s \in kept \cup Inserted(r) |-> IF s \in Inserted(r) THEN view[r][s] ELSE log[s]]
  BY DEF Inv, TypeOK, Commit, Transacting, InTransaction
<1>2. CASE holder # r
  <2>1. Inserted(r) = {} /\ ~wipe[r]
    BY <1>1, <1>2, InsertsNeedTheRow DEF Inv, HandlerInv, NeedsRowLock
  <2>2. row' = row /\ holder' = holder
    BY <1>2 DEF Commit
  <2>3. log' = log
    <3>1. log' = [s \in DOMAIN log |-> log[s]]
      BY <1>1, <2>1
    <3> QED
      BY <3>1 DEF Inv, TypeOK, IsLog
  <2>4. \A q \in Request \ {r} : Transacting(q)' => SameTransaction(q)
    BY <1>1, <2>2 DEF Transacting, SameTransaction
  <2> QED
    BY <1>2, <2>2, <2>3, <2>4, OneMarks
<1>3. CASE holder = r
  <2>1. row' = trow[r] /\ holder' = Nobody /\ HolderMarks(r)
    BY <1>1, <1>3 DEF Commit, MarkInv
  <2>2. /\ DOMAIN log \subseteq Nat /\ DOMAIN view[r] \subseteq Nat /\ row.lastSeq \in Nat
        /\ \A s \in DOMAIN log : s <= row.lastSeq
        /\ Inserted(r) = {s \in DOMAIN view[r] : s > row.lastSeq}
        /\ row.fullSeq \in Nat
    BY DEF Inv, TypeOK, IsLog, SyncState, Inserted
  <2>3. /\ DOMAIN log' = kept \cup Inserted(r)
        /\ \A s \in Inserted(r) : log'[s] = view[r][s]
        /\ \A s \in kept : log'[s] = log[s] /\ s \in DOMAIN log /\ s \notin Inserted(r)
    BY <1>1, <2>2
  <2>4. ~wipe[r] => \A s \in DOMAIN log' : s \in DOMAIN view[r] /\ log'[s] = view[r][s]
    <3>1. ~wipe[r] => SeesTheLog(r)
      BY <1>1, <1>3 DEF ViewInv, Current
    <3> QED
      BY <2>2, <2>3, <3>1 DEF SeesTheLog
  <2> HIDE DEF kept
  <2>5. Marked(row, log)'
    <3>1. CASE Marked(trow[r], view[r]) /\ (trow[r].fullSeq # 0 => trow[r].fullSeq \in Inserted(r))
               /\ \A s \in DOMAIN log' : s \in DOMAIN view[r] /\ log'[s] = view[r][s]
      <4> SUFFICES ASSUME trow[r].fullSeq # 0 PROVE Marked(row, log)'
        BY <2>1 DEF Marked
      <4>1. CausalRows(log') \subseteq CausalRows(view[r])
        BY <3>1 DEF CausalRows, KindAt
      <4>2. trow[r].fullSeq \in CausalRows(log')
        BY <2>3, <3>1 DEF Marked, CausalRows, KindAt
      <4> QED
        BY <2>1, <3>1, <4>1, <4>2 DEF Marked, UpTo
    <3>2. CASE wipe[r]
      <4>1. Marked(trow[r], view[r]) /\ DOMAIN view[r] = Inserted(r)
        BY <2>1, <3>2 DEF HolderMarks
      <4>2. \A s \in DOMAIN log' : s \in DOMAIN view[r] /\ log'[s] = view[r][s]
        BY <2>3, <3>2, <4>1 DEF kept
      <4> QED
        BY <3>1, <4>1, <4>2 DEF Marked, CausalRows
    <3>3. CASE ~wipe[r] /\ trow[r].fullSeq \in Inserted(r) /\ Marked(trow[r], view[r])
      BY <2>4, <3>1, <3>3
    <3>4. CASE /\ ~wipe[r] /\ trow[r].fullSeq = row.fullSeq /\ trow[r].fullClock = row.fullClock
               /\ \A s \in Inserted(r) : ~Causal(KindAt(view[r], s), view[r][s].known)
      <4> SUFFICES ASSUME row.fullSeq # 0 PROVE Marked(row, log)'
        BY <2>1, <3>4 DEF Marked
      <4>1. row.fullSeq \in CausalRows(log) /\ UpTo(CausalRows(log), row.fullSeq)
        BY DEF MarkInv, Marked
      <4>2. row.fullSeq <= row.lastSeq
        BY <2>2, <4>1 DEF CausalRows
      <4>3. CausalRows(log') = CausalRows(log)
        <5>1. \A s \in Inserted(r) : ~Causal(KindAt(log', s), log'[s].known)
          BY <2>3, <3>4 DEF KindAt
        <5>2. DOMAIN log' = DOMAIN log \cup Inserted(r)
              /\ \A s \in DOMAIN log : log'[s] = log[s]
          BY <2>3, <3>4 DEF kept
        <5> QED
          BY <5>1, <5>2 DEF CausalRows, KindAt
      <4>4. \A s \in DOMAIN log' : s <= row.fullSeq => s \in DOMAIN log /\ log'[s] = log[s]
        BY <2>2, <2>3, <3>4, <4>2 DEF kept
      <4> QED
        BY <2>1, <3>4, <4>1, <4>3, <4>4 DEF MarkInv, Marked
    <3> QED
      BY <2>1, <3>2, <3>3, <3>4 DEF HolderMarks
  <2> QED
    BY <2>1, <2>5, RequestAssumption DEF MarkInv
<1> QED
  BY <1>2, <1>3

(***************************************************************************)
(* The full-state marker a download starts from is the newest checkpoint   *)
(* retained, and its clock covers every row at or below it, although       *)
(* history is pruned beside the transaction that writes them (#8973).      *)
(***************************************************************************)
THEOREM MarkerNamesTheNewestCheckpoint == Spec => []MarkerCoversHistory
<1>1. Init => MarkInv
  BY DEF Init, NewState, MarkInv, Marked, Transacting, InTransaction
<1>2. Inv /\ ViewInv /\ RequestInv /\ GapInv /\ MarkInv /\ [Next]_vars => MarkInv'
  <2> SUFFICES ASSUME Inv, ViewInv, RequestInv, GapInv, MarkInv, [Next]_vars PROVE MarkInv'
    OBVIOUS
  <2>1. CASE \E r \in Request : InTheTransaction(r)
    BY <2>1, BeginMarkInv, LockRowMarkInv, RejectMarkInv, AcceptMarkInv, CommitMarkInv
    DEF InTheTransaction
  <2>2. CASE \A r \in Request : ~InTheTransaction(r)
    BY <2>2, OutsideMarkInv
  <2> QED
    BY <2>1, <2>2
<1>3. Inv /\ MarkInv => MarkerCoversHistory
  <2> SUFFICES ASSUME Inv, MarkInv, row.fullSeq # 0
               PROVE  /\ row.fullSeq = Newest(CausalRows(log))
                      /\ \A s \in DOMAIN log : \A c \in Client :
                           s <= row.fullSeq => log[s].clock[c] <= row.fullClock[c]
    BY DEF MarkerCoversHistory
  <2>1. row.fullSeq \in CausalRows(log) /\ \A s \in CausalRows(log) : s <= row.fullSeq
    BY DEF MarkInv, Marked, UpTo
  <2>2. CausalRows(log) \subseteq Nat
    BY DEF Inv, TypeOK, IsLog, CausalRows
  <2>3. \A s \in CausalRows(log) : (\A t \in CausalRows(log) : t <= s) => s = row.fullSeq
    BY <2>1, <2>2
  <2>4. row.fullSeq = Newest(CausalRows(log))
    BY <2>1, <2>3 DEF Newest
  <2> QED
    BY <2>4 DEF MarkInv, Marked
<1>4. Init => GapInv
  BY InitGapInv
<1>5. Inv /\ GapInv /\ [Next]_vars => GapInv'
  BY StepGapInv
<1>6. Inv /\ RequestInv /\ [Next]_vars => RequestInv'
  BY StepRequestInv
<1> QED
  BY <1>1, <1>2, <1>3, <1>4, <1>5, <1>6, InitViewInv, StepViewInv, InitRequestInv, Invariance,
     PTL DEF Spec
===============================================================================
