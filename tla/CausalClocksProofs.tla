-------------------------- MODULE CausalClocksProofs --------------------------
(***************************************************************************)
(* Theorems about CausalClocks, for any number of devices, client ids,     *)
(* entities and operations, and every bound on clocks that keeps two       *)
(* entries or more.                                                        *)
(***************************************************************************)
EXTENDS CausalClocks, SyncClockProofs

-----------------------------------------------------------------------------
(* Types *)

Op == [key : Nat, client : Client, kind : ImportKinds \cup {"UPDATE"},
       entity : Entity, clock : Clock, past : SUBSET Nat]

LocalEntry == [key : Nat, import : BOOLEAN, clock : Clock]

Waiting(d) == {pending[d][k] : k \in 1..Len(pending[d])}

Types ==
  /\ issued \in 0..MaxOps
  /\ ident \in [Device -> Client]
  /\ minted \in SUBSET Client
  /\ clock \in [Device -> Clock]
  /\ author \in [Device -> {<<>>} \cup {<<c>> : c \in Client}]
  /\ known \in [Device -> SUBSET Nat]
  /\ stored \in [Device -> SUBSET LocalEntry]
  /\ \A d \in Device : IsFiniteSet(stored[d])
  /\ cursor \in [Device -> Nat]
  /\ pending \in [Device -> Seq(Op)]
  /\ log \in Seq(Op)

\* Operation ids: each is handed out before it is used, and names one operation.
IssuedOp(op) == op.key \in 1..issued /\ op.past \subseteq 1..issued /\ op.key \in op.past

Names ==
  /\ \A i \in 1..Len(log) : IssuedOp(log[i])
  /\ \A d \in Device : \A p \in Waiting(d) : IssuedOp(p)
  /\ \A d \in Device : known[d] \subseteq 1..issued
  /\ \A d \in Device : \A e \in stored[d] : e.key \in 1..issued
  /\ \A i, j \in 1..Len(log) : log[i].key = log[j].key => i = j
  /\ \A d \in Device : \A p \in Waiting(d) : \A i \in 1..Len(log) : p.key # log[i].key
  /\ \A d, e \in Device : \A p \in Waiting(d), q \in Waiting(e) : p.key = q.key => d = e
  /\ \A d \in Device : \A j, k \in 1..Len(pending[d]) :
       pending[d][j].key = pending[d][k].key => j = k

Cursors == \A d \in Device : cursor[d] <= Len(log)

\* Only imports wait in front of another operation.
Queues ==
  \A d \in Device : \A k \in 1..Len(pending[d]) :
     k < Len(pending[d]) => IsImport(pending[d][k])

TypeInv == Types /\ Names /\ Cursors /\ Queues

-----------------------------------------------------------------------------
(* Clocks, and positions in the log *)

\* MergeAll takes each counter from one of the clocks, and covers them all.
LEMMA MergeAllOf ==
  ASSUME NEW S \in SUBSET Clock, IsFiniteSet(S), S # {}
  PROVE  /\ MergeAll(S) \in Clock
         /\ \A c \in Client : \E v \in S : MergeAll(S)[c] = v[c]
         /\ \A c \in Client : \A v \in S : v[c] <= MergeAll(S)[c]
<1>1. ASSUME NEW c \in Client
      PROVE  /\ \E v \in S : MergeAll(S)[c] = v[c]
             /\ \A v \in S : v[c] <= MergeAll(S)[c]
  <2> DEFINE T == {v[c] : v \in S}
             top == CHOOSE m \in T : \A v \in S : v[c] <= m
  <2>1. T \in SUBSET Int /\ T # {}
    BY DEF Clock
  <2>2. IsFiniteSet(T)
    <3> DEFINE f == [v \in S |-> v[c]]
    <3>1. f \in Surjection(S, T)
      BY DEF Surjection
    <3> QED
      BY <3>1, FS_Surjection
  <2>3. \E m \in T : \A t \in T : t <= m
    BY <2>1, <2>2, FiniteMax
  <2>4. top \in T /\ \A v \in S : v[c] <= top
    BY <2>3
  <2>5. MergeAll(S)[c] = top
    BY DEF MergeAll
  <2> QED
    BY <2>4, <2>5
<1>2. MergeAll(S) \in Clock
  <2>1. MergeAll(S) = [c \in Client |-> MergeAll(S)[c]]
    BY DEF MergeAll
  <2>2. ASSUME NEW c \in Client PROVE MergeAll(S)[c] \in Nat
    BY <1>1 DEF Clock
  <2> QED
    BY <2>1, <2>2 DEF Clock
<1> QED
  BY <1>1, <1>2

\* The latest import of a log: no import follows it, and 0 stands for none.
LastIn(l) ==
  LET positions == {i \in 1..Len(l) : IsImport(l[i])}
  IN  IF positions = {} THEN 0 ELSE CHOOSE i \in positions : \A j \in positions : j <= i

LEMMA LastInOf ==
  ASSUME NEW l \in Seq(Op)
  PROVE  /\ LastIn(l) \in 0..Len(l)
         /\ LastIn(l) # 0 => IsImport(l[LastIn(l)])
         /\ \A i \in 1..Len(l) : IsImport(l[i]) => i <= LastIn(l)
<1> DEFINE positions == {i \in 1..Len(l) : IsImport(l[i])}
<1>1. CASE positions = {}
  BY <1>1 DEF LastIn
<1>2. CASE positions # {}
  <2>1. positions \in SUBSET Int /\ IsFiniteSet(positions)
    BY FS_Interval, FS_Subset
  <2>2. \E i \in positions : \A j \in positions : j <= i
    BY <1>2, <2>1, FiniteMax
  <2>3. LastIn(l) = CHOOSE i \in positions : \A j \in positions : j <= i
    BY <1>2 DEF LastIn
  <2>4. LastIn(l) \in positions /\ \A j \in positions : j <= LastIn(l)
    BY <2>2, <2>3
  <2> QED
    BY <2>4
<1> QED
  BY <1>1, <1>2

LEMMA LastInIs ==
  ASSUME NEW l \in Seq(Op), NEW n \in 0..Len(l), n # 0 => IsImport(l[n]),
         \A i \in 1..Len(l) : IsImport(l[i]) => i <= n
  PROVE  LastIn(l) = n
BY LastInOf

LEMMA LastImportOf ==
  ASSUME Types
  PROVE  /\ LastImport \in 0..Len(log)
         /\ LastImport # 0 => IsImport(log[LastImport]) /\ LastImport \in Retained
         /\ \A i \in 1..Len(log) : IsImport(log[i]) => i <= LastImport
         /\ LastImport = LastIn(log)
         /\ ImportPositions = {} <=> LastImport = 0
         /\ LastImport # 0 => LastImport \in ImportPositions
<1>1. LastImport = LastIn(log)
  BY DEF LastImport, LastIn, ImportPositions
<1>2. log \in Seq(Op)
  BY DEF Types
<1> QED
  BY <1>1, <1>2, LastInOf DEF Retained, ImportPositions

\* An update appended to the log is retained with the rest.
LEMMA AppendedUpdate ==
  ASSUME Types, NEW op \in Op, ~IsImport(op), log' = Append(log, op)
  PROVE  /\ LastImport' = LastImport
         /\ Retained' = Retained \cup {Len(log) + 1}
         /\ Len(log) + 1 \notin Retained
<1>1. log \in Seq(Op) /\ log' \in Seq(Op) /\ Len(log') = Len(log) + 1 /\ Len(log) \in Nat
  BY DEF Types
<1>2. \A i \in 1..Len(log) : log'[i] = log[i]
  BY <1>1
<1>3. log'[Len(log) + 1] = op
  BY <1>1
<1>4. LastIn(log') = LastImport
  <2>1. LastImport \in 0..Len(log') /\ (LastImport # 0 => IsImport(log'[LastImport]))
    BY <1>1, <1>2, LastImportOf
  <2>2. \A i \in 1..Len(log') : IsImport(log'[i]) => i <= LastImport
    BY <1>1, <1>2, <1>3, LastImportOf
  <2> QED
    BY <1>1, <2>1, <2>2, LastInIs
<1>5. LastImport' = LastIn(log')
  BY DEF LastImport, LastIn, ImportPositions
<1>6. LastImport \in 0..Len(log)
  BY LastImportOf
<1> QED
  BY <1>1, <1>4, <1>5, <1>6 DEF Retained

\* An import appended to the log is all that is retained.
LEMMA AppendedImport ==
  ASSUME Types, NEW op \in Op, IsImport(op), log' = Append(log, op)
  PROVE  LastImport' = Len(log) + 1 /\ Retained' = {Len(log) + 1}
<1>1. log \in Seq(Op) /\ log' \in Seq(Op) /\ Len(log') = Len(log) + 1 /\ Len(log) \in Nat
  BY DEF Types
<1>2. log'[Len(log) + 1] = op
  BY <1>1
<1>3. LastIn(log') = Len(log) + 1
  <2>1. Len(log) + 1 \in 0..Len(log') /\ IsImport(log'[Len(log) + 1])
    BY <1>1, <1>2
  <2>2. \A i \in 1..Len(log') : i <= Len(log) + 1
    BY <1>1
  <2> QED
    BY <1>1, <2>1, <2>2, LastInIs
<1>4. LastImport' = LastIn(log')
  BY DEF LastImport, LastIn, ImportPositions
<1> QED
  BY <1>1, <1>3, <1>4 DEF Retained

\* The latest retained edit on an entity, when there is one.
LEMMA LatestOnOf ==
  ASSUME Types, NEW e, OnEntity(e) # {}
  PROVE  LatestOn(e) \in OnEntity(e) /\ \A j \in OnEntity(e) : j <= LatestOn(e)
<1>1. OnEntity(e) \in SUBSET Int
  BY DEF OnEntity, Retained
<1>2. IsFiniteSet(OnEntity(e))
  <2>1. OnEntity(e) \subseteq 1..Len(log)
    BY DEF OnEntity, Retained
  <2>2. Len(log) \in Nat
    BY DEF Types
  <2> QED
    <3>1. IsFiniteSet(1..Len(log))
      BY <2>2, FS_Interval
    <3> QED
      BY <2>1, <3>1, FS_Subset
<1>3. \E i \in OnEntity(e) : \A j \in OnEntity(e) : j <= i
  BY <1>1, <1>2, FiniteMax
<1> QED
  BY <1>3 DEF LatestOn

-----------------------------------------------------------------------------
(* Every step keeps the types. *)

LEMMA NewOpType ==
  ASSUME Types, NEW own \in Client, NEW kind \in ImportKinds \cup {"UPDATE"},
         NEW e \in Entity, NEW v \in Clock, NEW P \in SUBSET Nat
  PROVE  /\ NewOp(own, kind, e, v, P) \in Op
         /\ NewKey \in Nat
BY BoundsAssumption DEF NewOp, Op, NewKey, Types

LEMMA EntryType ==
  ASSUME NEW op \in Op
  PROVE  Entry(op) \in LocalEntry
BY DEF Entry, LocalEntry, IsImport, Op

LEMMA IncrementType ==
  ASSUME NEW v \in Clock, NEW c \in Client
  PROVE  /\ Increment(v, c) \in Clock
         /\ Increment(v, c)[c] = v[c] + 1
         /\ \A b \in Client \ {c} : Increment(v, c)[b] = v[b]
BY DEF Increment, Clock

LEMMA BoundType ==
  ASSUME NEW v \in Clock, NEW own, NEW importAuthor
  PROVE  BoundOwnClock(v, own, importAuthor) \in Clock
BY LimitClockType DEF BoundOwnClock

LEMMA ResetType ==
  ASSUME NEW v \in Clock, NEW w \in Clock, NEW own \in Client, NEW a \in Client
  PROVE  /\ ResetByImport(v, own, a, w) \in Clock
         /\ ResetByImport(v, own, a, w)[own] = Larger(v[own], w[own])
         /\ own # a => ResetByImport(v, own, a, w)[a] = w[a]
         /\ \A c \in Client \ {own, a} : ResetByImport(v, own, a, w)[c] = 0
<1> DEFINE r == ResetByImport(v, own, a, w)
<1>1. Larger(v[own], w[own]) \in Nat /\ w[a] \in Nat
  BY DEF Larger, Clock
<1>2. ASSUME NEW c \in Client
      PROVE  r[c] = CASE c = own               -> Larger(v[own], w[own])
                      [] c = a /\ c # own      -> w[a]
                      [] OTHER                 -> 0
  BY DEF ResetByImport
<1>3. r = [c \in Client |-> r[c]]
  BY DEF ResetByImport
<1>4. r[own] = Larger(v[own], w[own])
  BY <1>2
<1>5. own # a => r[a] = w[a]
  BY <1>2
<1>6. \A c \in Client \ {own, a} : r[c] = 0
  BY <1>2
<1> HIDE DEF r
<1>7. \A c \in Client : r[c] \in Nat
  BY <1>1, <1>4, <1>5, <1>6
<1>8. r \in Clock
  BY <1>3, <1>7 DEF Clock
<1> QED
  BY <1>4, <1>5, <1>6, <1>8 DEF r

LEMMA LocalClockType ==
  ASSUME Types, NEW d \in Device
  PROVE  LocalClock(d) \in Clock
<1> DEFINE S == {e.clock : e \in stored[d]}
<1>1. S \in SUBSET Clock /\ clock[d] \in Clock
  BY DEF Types, LocalEntry
<1>2. IsFiniteSet(S)
  <2> DEFINE f == [e \in stored[d] |-> e.clock]
  <2>1. f \in Surjection(stored[d], S)
    BY DEF Surjection
  <2> QED
    BY <2>1, FS_Surjection DEF Types
<1>3. IsFiniteSet({clock[d]} \cup S)
  BY <1>2, FS_Singleton, FS_Union
<1> QED
  BY <1>1, <1>3, MergeAllOf DEF LocalClock

LEMMA InitTypes == Init => TypeInv
<1> SUFFICES ASSUME Init PROVE TypeInv
  OBVIOUS
<1>1. \A d \in Device : pending[d] = <<>> /\ known[d] = {} /\ stored[d] = {} /\ cursor[d] = 0
  BY DEF Init
<1>2. Types
  <2>1. EmptyClock \in Clock
    BY DEF EmptyClock, Clock
  <2>2. \A d \in Device : IsFiniteSet(stored[d])
    BY <1>1, FS_EmptySet
  <2> QED
    BY <2>1, <2>2, FirstIdAssumption, BoundsAssumption DEF Init, Types
<1>3. Len(log) = 0
  BY DEF Init
<1> QED
  BY <1>1, <1>2, <1>3 DEF TypeInv, Names, Cursors, Queues, Waiting

LEMMA CaptureTypes ==
  ASSUME Types, NEW d \in Device, NEW e \in Entity, Capture(d, e)
  PROVE  Types'
<1> DEFINE op == NewOp(ident[d], "UPDATE", e, Increment(clock[d], ident[d]), known[d])
<1>1. op \in Op /\ NewKey \in Nat /\ op.clock \in Clock /\ op.key \in Nat
  <2>1. Increment(clock[d], ident[d]) \in Clock
    BY IncrementType DEF Types
  <2>2. op \in Op /\ NewKey \in Nat
    BY <2>1, NewOpType DEF Types
  <2> QED
    BY <2>2 DEF Op
<1>2. Entry(op) \in LocalEntry
  BY <1>1, EntryType
<1>3. issued' \in 0..MaxOps
  BY BoundsAssumption DEF Types, Capture, HasRoom, NewKey
<1> HIDE DEF op
<1>4. /\ pending' = [pending EXCEPT ![d] = <<op>>]
      /\ clock' = [clock EXCEPT ![d] = op.clock]
      /\ known' = [known EXCEPT ![d] = @ \cup {op.key}]
      /\ stored' = [stored EXCEPT ![d] = @ \cup {Entry(op)}]
      /\ UNCHANGED <<ident, minted, author, cursor, log>>
  BY DEF Capture, op
<1>5. \A b \in Device : IsFiniteSet(stored'[b])
  <2>1. IsFiniteSet(stored[d] \cup {Entry(op)})
    BY FS_AddElement DEF Types
  <2> QED
    BY <1>4, <2>1 DEF Types
<1>6. pending' \in [Device -> Seq(Op)]
  BY <1>1, <1>4 DEF Types
<1>7. known' \in [Device -> SUBSET Nat] /\ stored' \in [Device -> SUBSET LocalEntry]
  BY <1>1, <1>2, <1>4 DEF Types
<1> QED
  BY <1>1, <1>3, <1>4, <1>5, <1>6, <1>7 DEF Types

LEMMA SyncImportTypes ==
  ASSUME Types, NEW d \in Device, SyncImport(d)
  PROVE  Types'
<1> DEFINE importClock == BoundOwnClock(Increment(LocalClock(d), ident[d]), ident[d], author[d])
           op == NewOp(ident[d], "SYNC_IMPORT", CHOOSE e \in Entity : TRUE, importClock, known[d])
<1>1. op \in Op /\ NewKey \in Nat /\ op.key \in Nat
  <2>1. importClock \in Clock
    BY LocalClockType, IncrementType, BoundType DEF Types
  <2>2. (CHOOSE e \in Entity : TRUE) \in Entity
    BY EntityAssumption
  <2> HIDE DEF importClock
  <2>3. op \in Op /\ NewKey \in Nat
    BY <2>1, <2>2, NewOpType DEF Types, ImportKinds
  <2> QED
    BY <2>3 DEF Op
<1>2. Entry(op) \in LocalEntry
  BY <1>1, EntryType
<1>3. issued' \in 0..MaxOps
  BY BoundsAssumption DEF Types, SyncImport, HasImportRoom, HasRoom, NewKey
<1> HIDE DEF op
<1>4. /\ pending' = [pending EXCEPT ![d] = QueueAfterImport(d, op)]
      /\ known' = [known EXCEPT ![d] = @ \cup {op.key}]
      /\ stored' = [stored EXCEPT ![d] = @ \cup {Entry(op)}]
      /\ author' = [author EXCEPT ![d] = <<ident[d]>>]
      /\ UNCHANGED <<ident, minted, clock, cursor, log>>
  BY DEF SyncImport, op
<1>5. \A b \in Device : IsFiniteSet(stored'[b])
  <2>1. IsFiniteSet(stored[d] \cup {Entry(op)})
    BY FS_AddElement DEF Types
  <2> QED
    BY <1>4, <2>1 DEF Types
<1>6. QueueAfterImport(d, op) \in Seq(Op)
  BY <1>1 DEF QueueAfterImport, Types
<1>7. known' \in [Device -> SUBSET Nat] /\ stored' \in [Device -> SUBSET LocalEntry]
  BY <1>1, <1>2, <1>4 DEF Types
<1>8. author' \in [Device -> {<<>>} \cup {<<c>> : c \in Client}]
  BY <1>4 DEF Types
<1> QED
  BY <1>3, <1>4, <1>5, <1>6, <1>7, <1>8 DEF Types

LEMMA BackupImportTypes ==
  ASSUME Types, NEW d \in Device, NEW id \in Client, BackupImport(d, id)
  PROVE  Types'
<1> DEFINE op == NewOp(id, "BACKUP_IMPORT", CHOOSE e \in Entity : TRUE,
                       Increment(EmptyClock, id), {})
<1>1. op \in Op /\ NewKey \in Nat /\ op.key \in Nat /\ op.clock \in Clock
  <2>1. Increment(EmptyClock, id) \in Clock
    BY BaselineClock
  <2>2. (CHOOSE e \in Entity : TRUE) \in Entity
    BY EntityAssumption
  <2>3. op \in Op /\ NewKey \in Nat
    BY <2>1, <2>2, NewOpType DEF ImportKinds
  <2> QED
    BY <2>3 DEF Op
<1>2. Entry(op) \in LocalEntry
  BY <1>1, EntryType
<1>3. issued' \in 0..MaxOps
  BY BoundsAssumption DEF Types, BackupImport, HasImportRoom, HasRoom, NewKey
<1> HIDE DEF op
<1>4. /\ ident' = [ident EXCEPT ![d] = id]
      /\ minted' = minted \cup {id}
      /\ pending' = [pending EXCEPT ![d] = <<op>>]
      /\ clock' = [clock EXCEPT ![d] = op.clock]
      /\ known' = [known EXCEPT ![d] = {op.key}]
      /\ stored' = [stored EXCEPT ![d] = {Entry(op)}]
      /\ author' = [author EXCEPT ![d] = <<id>>]
      /\ UNCHANGED <<cursor, log>>
  BY DEF BackupImport, op
<1>5. \A b \in Device : IsFiniteSet(stored'[b])
  BY <1>4, FS_Singleton DEF Types
<1>6. pending' \in [Device -> Seq(Op)]
  BY <1>1, <1>4 DEF Types
<1>7. known' \in [Device -> SUBSET Nat] /\ stored' \in [Device -> SUBSET LocalEntry]
  BY <1>1, <1>2, <1>4 DEF Types
<1>8. author' \in [Device -> {<<>>} \cup {<<c>> : c \in Client}]
  BY <1>4 DEF Types
<1> QED
  BY <1>1, <1>3, <1>4, <1>5, <1>6, <1>7, <1>8 DEF Types

LEMMA StoredClockType ==
  ASSUME Types, NEW op \in Op
  PROVE  /\ StoredClock(op) \in Clock
         /\ [op EXCEPT !.clock = StoredClock(op)] \in Op
<1>1. StoredClock(op) \in Clock
  BY LimitClockType DEF StoredClock, Op
<1> QED
  BY <1>1 DEF Op

LEMMA HeadOf ==
  ASSUME Types, NEW d \in Device, pending[d] # <<>>
  PROVE  /\ Head(pending[d]) \in Op
         /\ Head(pending[d]) = pending[d][1]
         /\ 1 \in 1..Len(pending[d])
         /\ Head(pending[d]) \in Waiting(d)
<1>1. pending[d] \in Seq(Op)
  BY DEF Types
<1>2. /\ Head(pending[d]) = pending[d][1]
      /\ 1 \in 1..Len(pending[d])
      /\ pending[d][1] \in Op
  BY <1>1
<1> QED
  BY <1>2 DEF Waiting

LEMMA UploadTypes ==
  ASSUME Types, NEW d \in Device, Upload(d)
  PROVE  Types' /\ Len(log') = Len(log) + 1
<1> DEFINE op == Head(pending[d])
<1>1. op \in Op /\ pending[d] # <<>>
  BY HeadOf DEF Upload
<1>2. [op EXCEPT !.clock = StoredClock(op)] \in Op
  BY <1>1, StoredClockType
<1>3. /\ log' = Append(log, [op EXCEPT !.clock = StoredClock(op)])
      /\ pending' = [pending EXCEPT ![d] = Tail(@)]
      /\ cursor' = [cursor EXCEPT ![d] = IF IsImport(op) THEN Len(log') ELSE @]
      /\ UNCHANGED <<issued, ident, minted, clock, author, known, stored>>
  BY DEF Upload
<1> HIDE DEF op
<1>4. log' \in Seq(Op) /\ Len(log') = Len(log) + 1 /\ Len(log') \in Nat
  BY <1>2, <1>3 DEF Types
<1>5. pending' \in [Device -> Seq(Op)]
  <2>1. Tail(pending[d]) \in Seq(Op)
    BY <1>1 DEF Types
  <2> QED
    BY <1>3, <2>1 DEF Types
<1>6. cursor' \in [Device -> Nat]
  BY <1>3, <1>4 DEF Types
<1> QED
  BY <1>3, <1>4, <1>5, <1>6 DEF Types

\* The operation an upload is rejected for.
LEMMA LatestOf ==
  ASSUME Types, NEW op \in Op, Conflicts(op)
  PROVE  LET i == LatestOn(op.entity)
         IN  /\ i \in Retained /\ i \in 1..Len(log)
             /\ log[i] \in Op
             /\ ~IsImport(log[i]) /\ log[i].entity = op.entity
<1>1. LatestOn(op.entity) \in OnEntity(op.entity)
  BY LatestOnOf DEF Conflicts
<1> QED
  BY <1>1 DEF OnEntity, Retained, Types

LEMMA RejectedUploadTypes ==
  ASSUME Types, NEW d \in Device, RejectedUpload(d)
  PROVE  Types'
<1> DEFINE own == ident[d]
           op  == Head(pending[d])
           latest == log[LatestOn(op.entity)]
           merged == Increment(Merge(Merge(clock[d], op.clock), latest.clock), own)
           again  == NewOp(own, "UPDATE", op.entity, merged, known[d] \cup op.past)
<1>1. pending[d] # <<>> /\ op \in Op
  BY HeadOf DEF RejectedUpload
<1>2. latest \in Op
  <2>1. Conflicts(op)
    BY DEF RejectedUpload
  <2> QED
    BY <1>1, <2>1, LatestOf
<1>3. merged \in Clock /\ own \in Client
  <2>1. clock[d] \in Clock /\ op.clock \in Clock /\ latest.clock \in Clock /\ own \in Client
    BY <1>1, <1>2 DEF Types, Op
  <2>2. Merge(clock[d], op.clock) \in Clock
    BY <2>1, MergeCovers
  <2>3. Merge(Merge(clock[d], op.clock), latest.clock) \in Clock
    BY <2>1, <2>2, MergeCovers
  <2> QED
    BY <2>1, <2>3, IncrementType
<1>4. again \in Op /\ again.key \in Nat /\ again.clock \in Clock
  <2>1. op.entity \in Entity /\ known[d] \cup op.past \in SUBSET Nat
    BY <1>1 DEF Types, Op
  <2> HIDE DEF merged, op
  <2>2. again \in Op
    BY <1>3, <2>1, NewOpType
  <2> QED
    BY <2>2 DEF Op
<1>5. Entry(again) \in LocalEntry
  BY <1>4, EntryType
<1>6. UNCHANGED <<ident, minted, author, cursor, log>>
  BY DEF RejectedUpload
<1>7. CASE latest.key \in known[d]
  <2>1. /\ HasRoom /\ issued' = NewKey
        /\ pending' = [pending EXCEPT ![d] = <<again>>]
        /\ clock' = [clock EXCEPT ![d] = again.clock]
        /\ known' = [known EXCEPT ![d] = @ \cup {again.key}]
        /\ stored' = [stored EXCEPT ![d] = @ \cup {Entry(again)}]
    BY <1>7 DEF RejectedUpload
  <2> HIDE DEF again
  <2>2. issued' \in 0..MaxOps
    BY <2>1, BoundsAssumption DEF Types, HasRoom, NewKey
  <2>3. \A b \in Device : IsFiniteSet(stored'[b])
    <3>1. IsFiniteSet(stored[d] \cup {Entry(again)})
      BY FS_AddElement DEF Types
    <3> QED
      BY <2>1, <3>1 DEF Types
  <2>4. pending' \in [Device -> Seq(Op)]
    BY <1>4, <2>1 DEF Types
  <2>5. known' \in [Device -> SUBSET Nat] /\ stored' \in [Device -> SUBSET LocalEntry]
    BY <1>4, <1>5, <2>1 DEF Types
  <2>6. clock' \in [Device -> Clock]
    BY <1>4, <2>1 DEF Types
  <2> QED
    BY <1>6, <2>2, <2>3, <2>4, <2>5, <2>6 DEF Types
<1>8. CASE latest.key \notin known[d]
  <2>1. pending' = [pending EXCEPT ![d] = <<>>] /\ UNCHANGED <<issued, clock, known, stored>>
    BY <1>8 DEF RejectedUpload
  <2>2. pending' \in [Device -> Seq(Op)]
    BY <2>1 DEF Types
  <2> QED
    BY <1>6, <2>1, <2>2 DEF Types
<1> QED
  BY <1>7, <1>8

\* The position a download reads.
LEMMA PositionOf ==
  ASSUME Types, NEW d \in Device, NextPosition(d) <= Len(log)
  PROVE  /\ NextPosition(d) \in 1..Len(log)
         /\ NextPosition(d) \in Retained
         /\ NextPosition(d) >= LastImport
         /\ log[NextPosition(d)] \in Op
<1>1. LastImport \in 0..Len(log) /\ cursor[d] \in Nat /\ log \in Seq(Op)
  BY LastImportOf DEF Types
<1> QED
  BY <1>1 DEF NextPosition, Retained

LEMMA DownloadTypes ==
  ASSUME Types, NEW d \in Device, Download(d)
  PROVE  Types'
<1> DEFINE i == NextPosition(d)
           op == log[i]
<1>1. op \in Op /\ i \in 1..Len(log)
  BY PositionOf DEF Download
<1>2. /\ cursor' = [cursor EXCEPT ![d] = i]
      /\ UNCHANGED <<issued, ident, minted, pending, log>>
  BY DEF Download
<1>3. Entry(op) \in LocalEntry /\ op.clock \in Clock /\ op.past \in SUBSET Nat /\ op.client \in Client
  BY <1>1, EntryType DEF Op
<1>4. ident[d] \in Client /\ clock[d] \in Clock /\ cursor' \in [Device -> Nat]
  <2>1. i \in Nat
    BY <1>1
  <2> HIDE DEF i
  <2> QED
    BY <1>2, <2>1 DEF Types
<1>5. CASE ReceiveImport(d, i)
  <2>1. ResetByImport(clock[d], ident[d], op.client, op.clock) \in Clock
    BY <1>3, <1>4, ResetType
  <2> DEFINE v == BoundOwnClock(ResetByImport(clock[d], ident[d], op.client, op.clock),
                                ident[d], <<op.client>>)
             S == {e \in stored[d] : ~e.import} \cup {Entry(op)}
  <2>2. v \in Clock
    BY <2>1, BoundType
  <2>3. IsFiniteSet(S)
    <3>1. IsFiniteSet({e \in stored[d] : ~e.import})
      BY FS_Subset DEF Types
    <3> QED
      BY <3>1, FS_AddElement
  <2>4. S \in SUBSET LocalEntry
    BY <1>3 DEF Types
  <2>5. /\ clock' = [clock EXCEPT ![d] = v]
        /\ author' = [author EXCEPT ![d] = <<op.client>>]
        /\ known' = [known EXCEPT ![d] = op.past]
        /\ stored' = [stored EXCEPT ![d] = S]
    BY <1>5 DEF ReceiveImport
  <2> HIDE DEF v, S
  <2>6. \A b \in Device : IsFiniteSet(stored'[b])
    BY <2>3, <2>5 DEF Types
  <2>7. /\ clock' \in [Device -> Clock] /\ known' \in [Device -> SUBSET Nat]
        /\ stored' \in [Device -> SUBSET LocalEntry]
    BY <1>3, <2>2, <2>4, <2>5 DEF Types
  <2>8. author' \in [Device -> {<<>>} \cup {<<c>> : c \in Client}]
    BY <1>3, <2>5 DEF Types
  <2> QED
    BY <1>2, <1>4, <2>6, <2>7, <2>8 DEF Types
<1>6. CASE ReceiveUpdate(d, i)
  <2> DEFINE v == BoundOwnClock(Merge(clock[d], op.clock), ident[d], author[d])
             S == stored[d] \cup {Entry(op)}
  <2>1. v \in Clock
    BY <1>3, <1>4, MergeCovers, BoundType
  <2>2. IsFiniteSet(S)
    BY FS_AddElement DEF Types
  <2>3. S \in SUBSET LocalEntry
    BY <1>3 DEF Types
  <2>4. /\ clock' = [clock EXCEPT ![d] = v]
        /\ known' = [known EXCEPT ![d] = @ \cup op.past]
        /\ stored' = [stored EXCEPT ![d] = S]
        /\ UNCHANGED author
    BY <1>6 DEF ReceiveUpdate
  <2> HIDE DEF v, S
  <2>5. \A b \in Device : IsFiniteSet(stored'[b])
    BY <2>2, <2>4 DEF Types
  <2>6. /\ clock' \in [Device -> Clock] /\ known' \in [Device -> SUBSET Nat]
        /\ stored' \in [Device -> SUBSET LocalEntry]
    BY <1>3, <2>1, <2>3, <2>4 DEF Types
  <2> QED
    BY <1>2, <1>4, <2>4, <2>5, <2>6 DEF Types
<1>7. CASE UNCHANGED <<clock, author, known, stored>>
  BY <1>2, <1>4, <1>7 DEF Types
<1> QED
  BY <1>5, <1>6, <1>7 DEF Download, SkipOwn, DropFiltered

\* The clocks of operations at positions of the log, to be merged.
LEMMA ClocksAt ==
  ASSUME Types, NEW P \in SUBSET (1..Len(log))
  PROVE  /\ {log[i].clock : i \in P} \in SUBSET Clock
         /\ IsFiniteSet({log[i].clock : i \in P})
         /\ {Entry(log[i]) : i \in P} \in SUBSET LocalEntry
         /\ IsFiniteSet({Entry(log[i]) : i \in P})
         /\ UNION {log[i].past : i \in P} \in SUBSET Nat
<1>1. \A i \in P : log[i] \in Op
  BY DEF Types
<1>2. IsFiniteSet(P)
  <2>1. Len(log) \in Nat
    BY DEF Types
  <2>2. IsFiniteSet(1..Len(log))
    BY <2>1, FS_Interval
  <2> QED
    BY <2>2, FS_Subset
<1>3. IsFiniteSet({log[i].clock : i \in P})
  <2> DEFINE f == [i \in P |-> log[i].clock]
  <2>1. f \in Surjection(P, {log[i].clock : i \in P})
    BY DEF Surjection
  <2> QED
    BY <1>2, <2>1, FS_Surjection
<1>4. IsFiniteSet({Entry(log[i]) : i \in P})
  <2> DEFINE f == [i \in P |-> Entry(log[i])]
  <2>1. f \in Surjection(P, {Entry(log[i]) : i \in P})
    BY DEF Surjection
  <2> QED
    BY <1>2, <2>1, FS_Surjection
<1>5. {Entry(log[i]) : i \in P} \in SUBSET LocalEntry
  <2>1. \A i \in P : Entry(log[i]) \in LocalEntry
    BY <1>1, EntryType
  <2> QED
    BY <2>1
<1>6. {log[i].clock : i \in P} \in SUBSET Clock
  BY <1>1 DEF Op
<1>7. UNION {log[i].past : i \in P} \in SUBSET Nat
  BY <1>1 DEF Op
<1> QED
  BY <1>3, <1>4, <1>5, <1>6, <1>7

\* What USE_REMOTE replays and rebuilds, as sets and clocks of their own.
Rebuilt == MergeAll({log[i].clock : i \in Retained})
SurvivesLatest(i) ==
  \A j \in {LastImport} \ {0} :
     SurvivesImport(log[i].client, log[i].clock, log[j].client, log[j].clock)
Replayed == {i \in Retained : SurvivesLatest(i)}
RebuiltBaseline(d) ==
  IF LastImport = 0 THEN Rebuilt
  ELSE ResetByImport(Rebuilt, ident[d], log[LastImport].client, log[LastImport].clock)
RebuiltClock(d) ==
  MergeAll({RebuiltBaseline(d)} \cup {log[i].clock : i \in Replayed \ {LastImport}})

LEMMA UseRemoteOf ==
  ASSUME NEW d \in Device, UseRemote(d)
  PROVE  /\ pending[d] # <<>> /\ Retained # {}
         /\ HoldsImport(d) \/ cursor[d] < LastImport
         /\ clock' = [clock EXCEPT ![d] =
                        BoundOwnClock(RebuiltClock(d), ident[d], ServerAuthor)]
         /\ author' = [author EXCEPT ![d] = ServerAuthor]
         /\ known' = [known EXCEPT ![d] = UNION {log[i].past : i \in Replayed}]
         /\ stored' = [stored EXCEPT ![d] = {Entry(log[i]) : i \in Replayed}]
         /\ pending' = [pending EXCEPT ![d] = <<>>]
         /\ cursor' = [cursor EXCEPT ![d] = Len(log)]
         /\ UNCHANGED <<issued, ident, minted, log>>
BY Zenon DEF UseRemote, RebuiltClock, RebuiltBaseline, Replayed, SurvivesLatest, Rebuilt

LEMMA RebuiltTypes ==
  ASSUME Types, NEW d \in Device, Retained # {}
  PROVE  /\ Rebuilt \in Clock
         /\ \A c \in Client : \E i \in Retained : Rebuilt[c] = log[i].clock[c]
         /\ \A c \in Client : \A i \in Retained : log[i].clock[c] <= Rebuilt[c]
         /\ RebuiltBaseline(d) \in Clock
         /\ RebuiltClock(d) \in Clock
         /\ \A c \in Client :
              \/ RebuiltClock(d)[c] = RebuiltBaseline(d)[c]
              \/ \E i \in Replayed \ {LastImport} : RebuiltClock(d)[c] = log[i].clock[c]
         /\ \A c \in Client : RebuiltBaseline(d)[c] <= RebuiltClock(d)[c]
         /\ \A c \in Client : \A i \in Replayed \ {LastImport} :
              log[i].clock[c] <= RebuiltClock(d)[c]
<1>1. Retained \in SUBSET (1..Len(log)) /\ (Replayed \ {LastImport}) \in SUBSET (1..Len(log))
  BY DEF Retained, Replayed
<1>2. /\ Rebuilt \in Clock
      /\ \A c \in Client : \E v \in {log[i].clock : i \in Retained} : Rebuilt[c] = v[c]
      /\ \A c \in Client : \A v \in {log[i].clock : i \in Retained} : v[c] <= Rebuilt[c]
  <2> DEFINE S == {log[i].clock : i \in Retained}
  <2>1. S \in SUBSET Clock /\ IsFiniteSet(S)
    BY <1>1, ClocksAt
  <2>2. S # {}
    OBVIOUS
  <2> QED
    BY <2>1, <2>2, MergeAllOf DEF Rebuilt
<1>3. RebuiltBaseline(d) \in Clock
  <2>1. CASE LastImport = 0
    BY <1>2, <2>1 DEF RebuiltBaseline
  <2>2. CASE LastImport # 0
    <3>1. log[LastImport] \in Op /\ ident[d] \in Client
      BY <2>2, LastImportOf DEF Types
    <3>2. log[LastImport].client \in Client /\ log[LastImport].clock \in Clock
      BY <3>1 DEF Op
    <3> QED
      BY <1>2, <2>2, <3>1, <3>2, ResetType DEF RebuiltBaseline
  <2> QED
    BY <2>1, <2>2
<1>4. /\ RebuiltClock(d) \in Clock
      /\ \A c \in Client : \E v \in {RebuiltBaseline(d)} \cup {log[i].clock : i \in Replayed \ {LastImport}} :
           RebuiltClock(d)[c] = v[c]
      /\ \A c \in Client : \A v \in {RebuiltBaseline(d)} \cup {log[i].clock : i \in Replayed \ {LastImport}} :
           v[c] <= RebuiltClock(d)[c]
  <2> DEFINE R == {log[i].clock : i \in Replayed \ {LastImport}}
             S == {RebuiltBaseline(d)} \cup R
  <2>1. R \in SUBSET Clock /\ IsFiniteSet(R)
    BY <1>1, ClocksAt
  <2>2. S \in SUBSET Clock /\ S # {}
    BY <1>3, <2>1
  <2>3. IsFiniteSet(S)
    BY <2>1, FS_Singleton, FS_Union
  <2> QED
    BY <2>2, <2>3, MergeAllOf DEF RebuiltClock
<1> QED
  BY <1>2, <1>3, <1>4

LEMMA ServerAuthorType ==
  ASSUME Types
  PROVE  ServerAuthor \in {<<>>} \cup {<<c>> : c \in Client}
<1>1. LastImport # 0 => log[LastImport] \in Op
  BY LastImportOf DEF Types
<1> QED
  BY <1>1 DEF ServerAuthor, Op

LEMMA UseRemoteTypes ==
  ASSUME Types, NEW d \in Device, UseRemote(d)
  PROVE  Types'
<1> DEFINE v == BoundOwnClock(RebuiltClock(d), ident[d], ServerAuthor)
           P == UNION {log[i].past : i \in Replayed}
           S == {Entry(log[i]) : i \in Replayed}
<1>1. /\ Retained # {}
      /\ clock' = [clock EXCEPT ![d] = v]
      /\ author' = [author EXCEPT ![d] = ServerAuthor]
      /\ known' = [known EXCEPT ![d] = P]
      /\ stored' = [stored EXCEPT ![d] = S]
      /\ pending' = [pending EXCEPT ![d] = <<>>]
      /\ cursor' = [cursor EXCEPT ![d] = Len(log)]
      /\ UNCHANGED <<issued, ident, minted, log>>
  BY UseRemoteOf
<1>2. v \in Clock
  BY <1>1, RebuiltTypes, BoundType
<1>3. P \in SUBSET Nat /\ S \in SUBSET LocalEntry /\ IsFiniteSet(S)
  <2>1. Replayed \in SUBSET (1..Len(log))
    BY DEF Replayed, Retained
  <2> QED
    BY <2>1, ClocksAt
<1> HIDE DEF v, P, S
<1>4. \A b \in Device : IsFiniteSet(stored'[b])
  BY <1>1, <1>3 DEF Types
<1>5. /\ clock' \in [Device -> Clock] /\ known' \in [Device -> SUBSET Nat]
      /\ stored' \in [Device -> SUBSET LocalEntry]
  BY <1>1, <1>2, <1>3 DEF Types
<1>6. author' \in [Device -> {<<>>} \cup {<<c>> : c \in Client}]
  BY <1>1, ServerAuthorType DEF Types
<1>7. pending' \in [Device -> Seq(Op)] /\ cursor' \in [Device -> Nat]
  BY <1>1 DEF Types
<1> QED
  BY <1>1, <1>4, <1>5, <1>6, <1>7 DEF Types

-----------------------------------------------------------------------------
(* Every step keeps operation ids apart. *)

\* A new operation enters one queue, alone or beside what waits there.
LEMMA NewNames ==
  ASSUME TypeInv, NEW d \in Device, NEW op \in Op, NEW q \in Seq(Op),
         op.key = NewKey, op.past \subseteq (1..issued) \cup {NewKey}, NewKey \in op.past,
         issued' = NewKey, log' = log, pending' = [pending EXCEPT ![d] = q],
         \A k \in 1..Len(q) : q[k] = op \/ q[k] \in Waiting(d),
         \A j, k \in 1..Len(q) : q[j].key = q[k].key => j = k,
         \A e \in Device : known'[e] \subseteq known[e] \cup {NewKey},
         \A e \in Device : \A s \in stored'[e] : s \in stored[e] \/ s.key = NewKey
  PROVE  Names'
<1>1. issued \in Nat /\ NewKey = issued + 1 /\ (1..issued) \cup {NewKey} = 1..issued'
  BY BoundsAssumption DEF TypeInv, Types, NewKey
<1>2. \A i \in 1..issued : i \in 1..issued' /\ i # NewKey
  BY <1>1
<1>3. pending'[d] = q /\ \A e \in Device \ {d} : pending'[e] = pending[e]
  BY DEF TypeInv, Types
<1>4. \A p \in Waiting(d)' : p = op \/ p \in Waiting(d)
  BY <1>3 DEF Waiting
<1>5. \A e \in Device \ {d} : Waiting(e)' = Waiting(e)
  BY <1>3 DEF Waiting
<1>6. \A e \in Device : \A p \in Waiting(e)' : (e = d /\ p = op) \/ p \in Waiting(e)
  BY <1>4, <1>5
<1>7. IssuedOp(op)'
  BY <1>1 DEF IssuedOp
<1>8. \A p : IssuedOp(p) => IssuedOp(p)' /\ p.key # NewKey
  BY <1>1, <1>2 DEF IssuedOp
<1>9. \A i \in 1..Len(log) : IssuedOp(log[i])' /\ log[i].key # NewKey
  BY <1>8 DEF TypeInv, Names
<1>10. \A e \in Device : \A p \in Waiting(e)' : IssuedOp(p)'
  BY <1>6, <1>7, <1>8 DEF TypeInv, Names
<1>11. \A e \in Device : known'[e] \subseteq 1..issued'
  BY <1>1 DEF TypeInv, Names
<1>12. \A e \in Device : \A s \in stored'[e] : s.key \in 1..issued'
  BY <1>1 DEF TypeInv, Names
<1>13. \A e \in Device : \A p \in Waiting(e)' : \A i \in 1..Len(log) : p.key # log[i].key
  BY <1>6, <1>9 DEF TypeInv, Names
<1>14. \A e, f \in Device : \A p \in Waiting(e)', r \in Waiting(f)' : p.key = r.key => e = f
  <2>1. \A e \in Device : \A p \in Waiting(e) : p.key # NewKey
    BY <1>8 DEF TypeInv, Names
  <2> QED
    BY <1>6, <2>1 DEF TypeInv, Names
<1>15. \A e \in Device : \A j, k \in 1..Len(pending'[e]) :
         pending'[e][j].key = pending'[e][k].key => j = k
  BY <1>3 DEF TypeInv, Names
<1>16. \A i, j \in 1..Len(log) : log[i].key = log[j].key => i = j
  BY DEF TypeInv, Names
<1> QED
  BY <1>9, <1>10, <1>11, <1>12, <1>13, <1>14, <1>15, <1>16 DEF Names

LEMMA NewNamesAlone ==
  ASSUME TypeInv, NEW d \in Device, NEW op \in Op,
         op.key = NewKey, op.past \subseteq (1..issued) \cup {NewKey}, NewKey \in op.past,
         issued' = NewKey, log' = log, pending' = [pending EXCEPT ![d] = <<op>>],
         \A e \in Device : known'[e] \subseteq known[e] \cup {NewKey},
         \A e \in Device : \A s \in stored'[e] : s \in stored[e] \/ s.key = NewKey
  PROVE  Names'
<1> DEFINE q == <<op>>
<1>1. q \in Seq(Op) /\ Len(q) = 1 /\ q[1] = op
  OBVIOUS
<1>2. pending' = [pending EXCEPT ![d] = q]
  OBVIOUS
<1> HIDE DEF q
<1>3. \A k \in 1..Len(q) : q[k] = op \/ q[k] \in Waiting(d)
  BY <1>1
<1>4. \A j, k \in 1..Len(q) : q[j].key = q[k].key => j = k
  BY <1>1
<1> QED
  BY <1>1, <1>2, <1>3, <1>4, NewNames

\* Queues only lose operations, and a device learns of operations there are.
LEMMA FewerNames ==
  ASSUME TypeInv, issued' = issued, log' = log,
         \A e \in Device : pending'[e] \in {pending[e], <<>>},
         \A e \in Device : known'[e] \subseteq 1..issued,
         \A e \in Device : \A s \in stored'[e] : s.key \in 1..issued
  PROVE  Names'
<1>1. \A e \in Device : Waiting(e)' \subseteq Waiting(e)
  BY DEF Waiting
<1>2. \A p : IssuedOp(p)' <=> IssuedOp(p)
  BY DEF IssuedOp
<1>3. \A i \in 1..Len(log) : IssuedOp(log[i])'
  BY <1>2 DEF TypeInv, Names
<1>4. \A e \in Device : \A p \in Waiting(e)' : IssuedOp(p)'
  BY <1>1, <1>2 DEF TypeInv, Names
<1>5. \A e \in Device : \A p \in Waiting(e)' : \A i \in 1..Len(log) : p.key # log[i].key
  BY <1>1 DEF TypeInv, Names
<1>6. \A e, f \in Device : \A p \in Waiting(e)', r \in Waiting(f)' : p.key = r.key => e = f
  BY <1>1 DEF TypeInv, Names
<1>7. \A e \in Device : \A j, k \in 1..Len(pending'[e]) :
         pending'[e][j].key = pending'[e][k].key => j = k
  BY DEF TypeInv, Names
<1>8. \A i, j \in 1..Len(log) : log[i].key = log[j].key => i = j
  BY DEF TypeInv, Names
<1> QED
  BY <1>3, <1>4, <1>5, <1>6, <1>7, <1>8 DEF Names

LEMMA NewOpFields ==
  ASSUME NEW own, NEW kind, NEW e, NEW v, NEW P
  PROVE  LET op == NewOp(own, kind, e, v, P)
         IN  /\ op.key = NewKey /\ op.client = own /\ op.kind = kind
             /\ op.entity = e /\ op.clock = v /\ op.past = P \cup {NewKey}
             /\ Entry(op) = [key |-> NewKey, import |-> kind \in ImportKinds, clock |-> v]
BY DEF NewOp, Entry, IsImport

LEMMA CaptureTypeInv ==
  ASSUME TypeInv, NEW d \in Device, NEW e \in Entity, Capture(d, e)
  PROVE  TypeInv'
<1> DEFINE op == NewOp(ident[d], "UPDATE", e, Increment(clock[d], ident[d]), known[d])
<1>1. Types'
  BY CaptureTypes DEF TypeInv
<1>2. /\ pending' = [pending EXCEPT ![d] = <<op>>]
      /\ known' = [known EXCEPT ![d] = @ \cup {op.key}]
      /\ stored' = [stored EXCEPT ![d] = @ \cup {Entry(op)}]
      /\ issued' = NewKey
      /\ UNCHANGED <<cursor, log>>
  BY DEF Capture
<1>3. op \in Op
  BY IncrementType, NewOpType DEF TypeInv, Types
<1>4. op.key = NewKey /\ op.past = known[d] \cup {NewKey} /\ Entry(op).key = NewKey
  BY NewOpFields
<1>5. known[d] \subseteq 1..issued
  BY DEF TypeInv, Names
<1> HIDE DEF op
<1>6. pending'[d] = <<op>> /\ \A b \in Device \ {d} : pending'[b] = pending[b]
  BY <1>2 DEF TypeInv, Types
<1>7. Names'
  <2>1. \A b \in Device : known'[b] \subseteq known[b] \cup {NewKey}
    BY <1>2, <1>4 DEF TypeInv, Types
  <2>2. \A b \in Device : \A s \in stored'[b] : s \in stored[b] \/ s.key = NewKey
    BY <1>2, <1>4 DEF TypeInv, Types
  <2>3. op.past \subseteq (1..issued) \cup {NewKey} /\ NewKey \in op.past
    BY <1>4, <1>5
  <2> QED
    BY <1>2, <1>3, <1>4, <2>1, <2>2, <2>3, NewNamesAlone
<1>8. Cursors' /\ Queues'
  BY <1>2, <1>6 DEF TypeInv, Cursors, Queues
<1> QED
  BY <1>1, <1>7, <1>8 DEF TypeInv

LEMMA SyncImportTypeInv ==
  ASSUME TypeInv, NEW d \in Device, SyncImport(d)
  PROVE  TypeInv'
<1> DEFINE importClock == BoundOwnClock(Increment(LocalClock(d), ident[d]), ident[d], author[d])
           op == NewOp(ident[d], "SYNC_IMPORT", CHOOSE e \in Entity : TRUE, importClock, known[d])
           q == QueueAfterImport(d, op)
<1>1. Types'
  BY SyncImportTypes DEF TypeInv
<1>2. /\ pending' = [pending EXCEPT ![d] = q]
      /\ known' = [known EXCEPT ![d] = @ \cup {op.key}]
      /\ stored' = [stored EXCEPT ![d] = @ \cup {Entry(op)}]
      /\ issued' = NewKey
      /\ UNCHANGED <<cursor, log>>
  BY DEF SyncImport
<1>3. op \in Op
  <2>1. importClock \in Clock
    BY LocalClockType, IncrementType, BoundType DEF TypeInv, Types
  <2>2. (CHOOSE e \in Entity : TRUE) \in Entity
    BY EntityAssumption
  <2> HIDE DEF importClock
  <2> QED
    BY <2>1, <2>2, NewOpType DEF TypeInv, Types, ImportKinds
<1>4. op.key = NewKey /\ op.past = known[d] \cup {NewKey} /\ Entry(op).key = NewKey /\ IsImport(op)
  BY NewOpFields DEF IsImport, ImportKinds
<1>5. known[d] \subseteq 1..issued
  BY DEF TypeInv, Names
<1> HIDE DEF op
<1>6. pending[d] \in Seq(Op)
  BY DEF TypeInv, Types
<1>7. /\ q \in Seq(Op)
      /\ Len(q) \in 1..(Len(pending[d]) + 1) /\ q[Len(q)] = op
      /\ \A k \in 1..Len(q) : k < Len(q) =>
            k \in 1..Len(pending[d]) /\ q[k] = pending[d][k] /\ IsImport(pending[d][k])
  <2>1. CASE pending[d] # <<>> /\ ~IsImport(pending[d][Len(pending[d])])
    <3>1. q = [pending[d] EXCEPT ![Len(pending[d])] = op]
      BY <2>1 DEF QueueAfterImport
    <3>2. q \in Seq(Op) /\ Len(q) = Len(pending[d]) /\ Len(q) \in Nat \ {0} /\ q[Len(q)] = op
      BY <1>3, <1>6, <2>1, <3>1
    <3>3. \A k \in 1..Len(q) : k < Len(q) => q[k] = pending[d][k]
      BY <1>6, <3>1, <3>2
    <3> QED
      BY <3>2, <3>3 DEF TypeInv, Queues
  <2>2. CASE ~(pending[d] # <<>> /\ ~IsImport(pending[d][Len(pending[d])]))
    <3>1. q = Append(pending[d], op)
      BY <2>2 DEF QueueAfterImport
    <3>2. q \in Seq(Op) /\ Len(q) = Len(pending[d]) + 1 /\ Len(pending[d]) \in Nat /\ q[Len(q)] = op
      BY <1>3, <1>6, <3>1
    <3>3. \A k \in 1..Len(pending[d]) : q[k] = pending[d][k]
      BY <1>3, <1>6, <3>1
    <3>4. \A k \in 1..Len(pending[d]) : IsImport(pending[d][k])
      <4>1. pending[d] # <<>> => IsImport(pending[d][Len(pending[d])])
        BY <2>2
      <4> QED
        BY <1>6, <4>1 DEF TypeInv, Queues
    <3> QED
      BY <3>2, <3>3, <3>4
  <2> QED
    BY <2>1, <2>2
<1> HIDE DEF q
<1>8. pending'[d] = q /\ \A b \in Device \ {d} : pending'[b] = pending[b]
  BY <1>2 DEF TypeInv, Types
<1>9. Names'
  <2>1. \A b \in Device : known'[b] \subseteq known[b] \cup {NewKey}
    BY <1>2, <1>4 DEF TypeInv, Types
  <2>2. \A b \in Device : \A s \in stored'[b] : s \in stored[b] \/ s.key = NewKey
    BY <1>2, <1>4 DEF TypeInv, Types
  <2>3. \A k \in 1..Len(pending[d]) : pending[d][k].key # NewKey /\ pending[d][k] \in Waiting(d)
    <3>1. issued \in Nat
      BY BoundsAssumption DEF TypeInv, Types
    <3>2. \A k \in 1..Len(pending[d]) : pending[d][k] \in Waiting(d)
      BY DEF Waiting
    <3>3. \A k \in 1..Len(pending[d]) : pending[d][k].key \in 1..issued
      BY <3>2 DEF TypeInv, Names, IssuedOp
    <3> QED
      BY <3>1, <3>2, <3>3 DEF NewKey
  <2>4. \A k \in 1..Len(q) : q[k] = op \/ q[k] \in Waiting(d)
    BY <1>7, <2>3
  <2>5. \A j, k \in 1..Len(q) : q[j].key = q[k].key => j = k
    <3>1. \A j, k \in 1..Len(pending[d]) : pending[d][j].key = pending[d][k].key => j = k
      BY DEF TypeInv, Names
    <3> QED
      BY <1>4, <1>7, <2>3, <3>1
  <2> QED
    BY <1>2, <1>3, <1>4, <1>5, <1>7, <2>1, <2>2, <2>4, <2>5, NewNames
<1>10. Cursors' /\ Queues'
  BY <1>2, <1>7, <1>8 DEF TypeInv, Cursors, Queues
<1> QED
  BY <1>1, <1>9, <1>10 DEF TypeInv

LEMMA BackupImportTypeInv ==
  ASSUME TypeInv, NEW d \in Device, NEW id \in Client, BackupImport(d, id)
  PROVE  TypeInv'
<1> DEFINE op == NewOp(id, "BACKUP_IMPORT", CHOOSE e \in Entity : TRUE,
                       Increment(EmptyClock, id), {})
<1>1. Types'
  BY BackupImportTypes DEF TypeInv
<1>2. /\ pending' = [pending EXCEPT ![d] = <<op>>]
      /\ known' = [known EXCEPT ![d] = {op.key}]
      /\ stored' = [stored EXCEPT ![d] = {Entry(op)}]
      /\ issued' = NewKey
      /\ UNCHANGED <<cursor, log>>
  BY DEF BackupImport
<1>3. op \in Op
  <2>1. Increment(EmptyClock, id) \in Clock
    BY BaselineClock
  <2>2. (CHOOSE e \in Entity : TRUE) \in Entity
    BY EntityAssumption
  <2> QED
    BY <2>1, <2>2, NewOpType DEF TypeInv, ImportKinds
<1>4. op.key = NewKey /\ op.past = {NewKey} /\ Entry(op).key = NewKey
  BY NewOpFields
<1> HIDE DEF op
<1>5. pending'[d] = <<op>> /\ \A b \in Device \ {d} : pending'[b] = pending[b]
  BY <1>2 DEF TypeInv, Types
<1>6. Names'
  <2>1. \A b \in Device : known'[b] \subseteq known[b] \cup {NewKey}
    BY <1>2, <1>4 DEF TypeInv, Types
  <2>2. \A b \in Device : \A s \in stored'[b] : s \in stored[b] \/ s.key = NewKey
    BY <1>2, <1>4 DEF TypeInv, Types
  <2>3. op.past \subseteq (1..issued) \cup {NewKey} /\ NewKey \in op.past
    BY <1>4
  <2> QED
    BY <1>2, <1>3, <1>4, <2>1, <2>2, <2>3, NewNamesAlone
<1>7. Cursors' /\ Queues'
  BY <1>2, <1>5 DEF TypeInv, Cursors, Queues
<1> QED
  BY <1>1, <1>6, <1>7 DEF TypeInv

\* What an upload leaves in the queue, and what it appends to the log.
LEMMA UploadOf ==
  ASSUME TypeInv, NEW d \in Device, Upload(d)
  PROVE  LET op  == Head(pending[d])
             row == [op EXCEPT !.clock = StoredClock(op)]
         IN  /\ op \in Op /\ op \in Waiting(d) /\ row \in Op
             /\ row.key = op.key /\ row.past = op.past /\ row.client = op.client
             /\ row.kind = op.kind /\ row.entity = op.entity /\ row.clock = StoredClock(op)
             /\ log' = Append(log, row) /\ Len(log') = Len(log) + 1 /\ Len(log) \in Nat
             /\ log'[Len(log) + 1] = row
             /\ \A i \in 1..Len(log) : log'[i] = log[i]
             /\ pending'[d] = Tail(pending[d])
             /\ \A p \in Waiting(d)' : p \in Waiting(d) /\ p.key # op.key
             /\ \A e \in Device \ {d} : pending'[e] = pending[e] /\ Waiting(e)' = Waiting(e)
             /\ \A e \in Device \ {d} : cursor'[e] = cursor[e]
             /\ cursor'[d] = IF IsImport(op) THEN Len(log) + 1 ELSE cursor[d]
             /\ PassesFence(d, op) /\ ~Conflicts(op)
             /\ UNCHANGED <<issued, ident, minted, clock, author, known, stored>>
<1> DEFINE op == Head(pending[d])
           row == [op EXCEPT !.clock = StoredClock(op)]
<1>1. pending[d] # <<>> /\ pending[d] \in Seq(Op) /\ log \in Seq(Op) /\ op = pending[d][1]
  BY DEF Upload, TypeInv, Types
<1>2. op \in Op /\ op \in Waiting(d)
  BY <1>1, HeadOf DEF TypeInv
<1>3. row \in Op
  BY <1>2, StoredClockType DEF TypeInv
<1>4. /\ row.key = op.key /\ row.past = op.past /\ row.client = op.client
      /\ row.kind = op.kind /\ row.entity = op.entity /\ row.clock = StoredClock(op)
  BY <1>2 DEF Op
<1>5. /\ log' = Append(log, row)
      /\ pending' = [pending EXCEPT ![d] = Tail(@)]
      /\ cursor' = [cursor EXCEPT ![d] = IF IsImport(op) THEN Len(log') ELSE @]
      /\ PassesFence(d, op) /\ ~Conflicts(op)
      /\ UNCHANGED <<issued, ident, minted, clock, author, known, stored>>
  BY DEF Upload
<1> HIDE DEF row, op
<1>6. /\ Len(log') = Len(log) + 1 /\ Len(log) \in Nat
      /\ log'[Len(log) + 1] = row
      /\ \A i \in 1..Len(log) : log'[i] = log[i]
  BY <1>1, <1>3, <1>5
<1>7. /\ pending'[d] = Tail(pending[d])
      /\ \A e \in Device \ {d} : pending'[e] = pending[e] /\ cursor'[e] = cursor[e]
      /\ cursor'[d] = IF IsImport(op) THEN Len(log) + 1 ELSE cursor[d]
  BY <1>5, <1>6 DEF TypeInv, Types
<1>8. \A e \in Device \ {d} : Waiting(e)' = Waiting(e)
  BY <1>7 DEF Waiting
<1>9. /\ Len(Tail(pending[d])) = Len(pending[d]) - 1
      /\ \A k \in 1..Len(Tail(pending[d])) :
           k + 1 \in 1..Len(pending[d]) /\ k + 1 # 1 /\ Tail(pending[d])[k] = pending[d][k + 1]
  BY <1>1
<1>10. \A p \in Waiting(d)' : p \in Waiting(d) /\ p.key # op.key
  <2>1. \A k \in 1..Len(pending[d]) : k # 1 => pending[d][k].key # op.key
    BY <1>1 DEF TypeInv, Names
  <2> QED
    BY <1>7, <1>9, <2>1 DEF Waiting
<1> QED
  BY <1>2, <1>3, <1>4, <1>5, <1>6, <1>7, <1>8, <1>10 DEF row, op

LEMMA UploadTypeInv ==
  ASSUME TypeInv, NEW d \in Device, Upload(d)
  PROVE  TypeInv'
<1> DEFINE op  == Head(pending[d])
           row == [op EXCEPT !.clock = StoredClock(op)]
<1>1. Types'
  BY UploadTypes DEF TypeInv
<1>2. /\ op \in Op /\ op \in Waiting(d) /\ row \in Op
      /\ row.key = op.key /\ row.past = op.past
      /\ log' = Append(log, row) /\ Len(log') = Len(log) + 1 /\ Len(log) \in Nat
      /\ log'[Len(log) + 1] = row
      /\ \A i \in 1..Len(log) : log'[i] = log[i]
      /\ pending'[d] = Tail(pending[d])
      /\ \A p \in Waiting(d)' : p \in Waiting(d) /\ p.key # op.key
      /\ \A e \in Device \ {d} : pending'[e] = pending[e] /\ Waiting(e)' = Waiting(e)
      /\ \A e \in Device \ {d} : cursor'[e] = cursor[e]
      /\ cursor'[d] = (IF IsImport(op) THEN Len(log) + 1 ELSE cursor[d])
      /\ UNCHANGED <<issued, known, stored>>
  BY UploadOf
<1> HIDE DEF row, op
<1>3. \A e \in Device : Waiting(e)' \subseteq Waiting(e)
  BY <1>2
<1>4. \A p : IssuedOp(p)' <=> IssuedOp(p)
  BY <1>2 DEF IssuedOp
<1>5. \A i \in 1..Len(log') : IssuedOp(log[i])'
  <2>1. IssuedOp(row)
    BY <1>2 DEF TypeInv, Names, IssuedOp
  <2>2. \A i \in 1..Len(log') : i = Len(log) + 1 \/ i \in 1..Len(log)
    BY <1>2
  <2>3. \A i \in 1..Len(log) : IssuedOp(log[i])
    BY DEF TypeInv, Names
  <2> QED
    BY <1>2, <1>4, <2>1, <2>2, <2>3
<1>6. \A e \in Device : \A p \in Waiting(e)' : IssuedOp(p)'
  BY <1>3, <1>4 DEF TypeInv, Names
<1>7. \A i \in 1..Len(log) : log[i].key # row.key
  BY <1>2 DEF TypeInv, Names
<1>8. \A i, j \in 1..Len(log') : log'[i].key = log'[j].key => i = j
  <2>1. \A i \in 1..Len(log') : i = Len(log) + 1 \/ i \in 1..Len(log)
    BY <1>2
  <2> QED
    BY <1>2, <1>7, <2>1 DEF TypeInv, Names
<1>9. \A e \in Device : \A p \in Waiting(e)' : \A i \in 1..Len(log') : p.key # log'[i].key
  <2>1. \A e \in Device : \A p \in Waiting(e)' : p.key # row.key
    BY <1>2 DEF TypeInv, Names
  <2>2. \A i \in 1..Len(log') : i = Len(log) + 1 \/ i \in 1..Len(log)
    BY <1>2
  <2> QED
    BY <1>2, <1>3, <2>1, <2>2 DEF TypeInv, Names
<1>10. \A e, f \in Device : \A p \in Waiting(e)', r \in Waiting(f)' : p.key = r.key => e = f
  BY <1>3 DEF TypeInv, Names
<1>11. /\ Len(Tail(pending[d])) = Len(pending[d]) - 1 /\ Len(pending[d]) \in Nat
       /\ \A k \in 1..Len(Tail(pending[d])) :
           k + 1 \in 1..Len(pending[d]) /\ Tail(pending[d])[k] = pending[d][k + 1]
  <2>1. pending[d] # <<>> /\ pending[d] \in Seq(Op)
    BY DEF Upload, TypeInv, Types
  <2> QED
    BY <2>1
<1>12. \A e \in Device : \A j, k \in 1..Len(pending'[e]) :
         pending'[e][j].key = pending'[e][k].key => j = k
  <2>1. \A j, k \in 1..Len(Tail(pending[d])) :
          Tail(pending[d])[j].key = Tail(pending[d])[k].key => j = k
    <3>1. \A j, k \in 1..Len(pending[d]) : pending[d][j].key = pending[d][k].key => j = k
      BY DEF TypeInv, Names
    <3>2. ASSUME NEW j \in 1..Len(Tail(pending[d])), NEW k \in 1..Len(Tail(pending[d])),
                 Tail(pending[d])[j].key = Tail(pending[d])[k].key
          PROVE  j = k
      <4> DEFINE a == j + 1
                 b == k + 1
      <4>1. /\ a \in 1..Len(pending[d]) /\ Tail(pending[d])[j] = pending[d][a]
            /\ b \in 1..Len(pending[d]) /\ Tail(pending[d])[k] = pending[d][b]
        BY <1>11
      <4>2. a = b => j = k
        OBVIOUS
      <4> HIDE DEF a, b
      <4>3. pending[d][a].key = pending[d][b].key
        BY <3>2, <4>1
      <4> QED
        BY <3>1, <4>1, <4>2, <4>3
    <3> QED
      BY <3>2
  <2>2. \A e \in Device \ {d} : \A j, k \in 1..Len(pending[e]) :
          pending[e][j].key = pending[e][k].key => j = k
    BY DEF TypeInv, Names
  <2>3. ASSUME NEW e \in Device \ {d}
        PROVE  \A j, k \in 1..Len(pending'[e]) :
                 pending'[e][j].key = pending'[e][k].key => j = k
    <3>1. pending'[e] = pending[e]
      BY <1>2
    <3> QED
      BY <2>2, <3>1
  <2>4. \A j, k \in 1..Len(pending'[d]) :
          pending'[d][j].key = pending'[d][k].key => j = k
    <3>1. pending'[d] = Tail(pending[d])
      BY <1>2
    <3> QED
      BY <2>1, <3>1
  <2> QED
    BY <2>3, <2>4
<1>13. Queues'
  <2>1. \A k \in 1..Len(Tail(pending[d])) :
          k < Len(Tail(pending[d])) => IsImport(Tail(pending[d])[k])
    BY <1>11 DEF TypeInv, Queues
  <2> QED
    BY <1>2, <2>1 DEF TypeInv, Queues
<1>14. Cursors'
  <2>1. \A e \in Device : cursor[e] <= Len(log) /\ cursor[e] \in Nat
    BY DEF TypeInv, Cursors, Types
  <2> QED
    BY <1>2, <2>1 DEF Cursors
<1>15. /\ \A e \in Device : known'[e] \subseteq 1..issued'
       /\ \A e \in Device : \A s \in stored'[e] : s.key \in 1..issued'
  BY <1>2 DEF TypeInv, Names
<1>16. Names'
  BY <1>5, <1>6, <1>8, <1>9, <1>10, <1>12, <1>15 DEF Names
<1> QED
  BY <1>1, <1>13, <1>14, <1>16 DEF TypeInv

LEMMA RejectedUploadTypeInv ==
  ASSUME TypeInv, NEW d \in Device, RejectedUpload(d)
  PROVE  TypeInv'
<1> DEFINE own == ident[d]
           op  == Head(pending[d])
           latest == log[LatestOn(op.entity)]
           merged == Increment(Merge(Merge(clock[d], op.clock), latest.clock), own)
           again  == NewOp(own, "UPDATE", op.entity, merged, known[d] \cup op.past)
<1>1. Types'
  BY RejectedUploadTypes DEF TypeInv
<1>2. UNCHANGED <<ident, minted, author, cursor, log>>
  BY DEF RejectedUpload
<1>3. op \in Op /\ op \in Waiting(d)
  BY HeadOf DEF RejectedUpload, TypeInv
<1>4. CASE latest.key \in known[d]
  <2>1. /\ issued' = NewKey
        /\ pending' = [pending EXCEPT ![d] = <<again>>]
        /\ known' = [known EXCEPT ![d] = @ \cup {again.key}]
        /\ stored' = [stored EXCEPT ![d] = @ \cup {Entry(again)}]
    BY <1>4 DEF RejectedUpload
  <2>2. /\ again.key = NewKey /\ again.past = (known[d] \cup op.past) \cup {NewKey}
        /\ Entry(again).key = NewKey
    BY NewOpFields
  <2>3. /\ \A b \in Device : known'[b] \subseteq known[b] \cup {NewKey}
        /\ \A b \in Device : \A s \in stored'[b] : s \in stored[b] \/ s.key = NewKey
    BY <2>1, <2>2 DEF TypeInv, Types
  <2>4. again.past \subseteq (1..issued) \cup {NewKey} /\ NewKey \in again.past
    BY <1>3, <2>2 DEF TypeInv, Names, IssuedOp
  <2>5. again \in Op
    <3>1. latest \in Op
      BY <1>3, LatestOf DEF RejectedUpload, TypeInv
    <3>2. clock[d] \in Clock /\ op.clock \in Clock /\ latest.clock \in Clock /\ own \in Client
      BY <1>3, <3>1 DEF TypeInv, Types, Op
    <3>3. merged \in Clock
      BY <3>2, MergeCovers, IncrementType
    <3>4. op.entity \in Entity /\ known[d] \cup op.past \in SUBSET Nat
      BY <1>3 DEF TypeInv, Types, Op
    <3> HIDE DEF merged, op
    <3> QED
      BY <3>2, <3>3, <3>4, NewOpType DEF TypeInv
  <2> HIDE DEF again
  <2>6. Names'
    BY <1>2, <2>1, <2>2, <2>3, <2>4, <2>5, NewNamesAlone
  <2>7. pending'[d] = <<again>> /\ \A b \in Device \ {d} : pending'[b] = pending[b]
    BY <2>1 DEF TypeInv, Types
  <2>8. Cursors'
    BY <1>2 DEF TypeInv, Cursors
  <2>9. Queues'
    <3>1. Len(pending'[d]) = 1
      BY <2>5, <2>7
    <3>2. \A k \in 1..Len(pending'[d]) : ~(k < Len(pending'[d]))
      BY <3>1
    <3>3. \A b \in Device \ {d} : pending'[b] = pending[b]
      BY <2>7
    <3> QED
      BY <3>2, <3>3 DEF TypeInv, Queues
  <2> QED
    BY <1>1, <2>6, <2>8, <2>9 DEF TypeInv
<1>5. CASE latest.key \notin known[d]
  <2>1. pending' = [pending EXCEPT ![d] = <<>>] /\ UNCHANGED <<issued, clock, known, stored>>
    BY <1>5 DEF RejectedUpload
  <2>2. \A b \in Device : pending'[b] \in {pending[b], <<>>}
    BY <2>1 DEF TypeInv, Types
  <2>3. /\ \A b \in Device : known'[b] \subseteq 1..issued
        /\ \A b \in Device : \A s \in stored'[b] : s.key \in 1..issued
    BY <2>1 DEF TypeInv, Names
  <2>4. Names'
    BY <1>2, <2>1, <2>2, <2>3, FewerNames
  <2>5. Cursors' /\ Queues'
    BY <1>2, <2>2 DEF TypeInv, Cursors, Queues
  <2> QED
    BY <1>1, <2>4, <2>5 DEF TypeInv
<1> QED
  BY <1>4, <1>5

LEMMA DownloadTypeInv ==
  ASSUME TypeInv, NEW d \in Device, Download(d)
  PROVE  TypeInv'
<1> DEFINE i == NextPosition(d)
           op == log[i]
<1>1. Types'
  BY DownloadTypes DEF TypeInv
<1>2. op \in Op /\ i \in 1..Len(log) /\ IssuedOp(op)
  BY PositionOf DEF Download, TypeInv, Names
<1>3. /\ cursor' = [cursor EXCEPT ![d] = i]
      /\ UNCHANGED <<issued, ident, minted, pending, log>>
  BY DEF Download
<1>4. op.past \subseteq 1..issued /\ Entry(op).key \in 1..issued
  BY <1>2 DEF IssuedOp, Entry
<1>5. /\ \A b \in Device : known'[b] \subseteq known[b] \cup op.past
      /\ \A b \in Device : \A s \in stored'[b] : s \in stored[b] \/ s = Entry(op)
  <2>1. CASE ReceiveImport(d, i)
    BY <2>1 DEF ReceiveImport, TypeInv, Types
  <2>2. CASE ReceiveUpdate(d, i)
    BY <2>2 DEF ReceiveUpdate, TypeInv, Types
  <2>3. CASE UNCHANGED <<clock, author, known, stored>>
    BY <2>3
  <2> QED
    BY <2>1, <2>2, <2>3 DEF Download, SkipOwn, DropFiltered
<1>6. /\ \A b \in Device : known'[b] \subseteq 1..issued
      /\ \A b \in Device : \A s \in stored'[b] : s.key \in 1..issued
  BY <1>4, <1>5 DEF TypeInv, Names
<1>7. Names'
  BY <1>3, <1>6, FewerNames
<1> HIDE DEF i
<1>8. Cursors' /\ Queues'
  BY <1>2, <1>3 DEF TypeInv, Types, Cursors, Queues
<1> QED
  BY <1>1, <1>7, <1>8 DEF TypeInv

LEMMA UseRemoteTypeInv ==
  ASSUME TypeInv, NEW d \in Device, UseRemote(d)
  PROVE  TypeInv'
<1>1. Types'
  BY UseRemoteTypes DEF TypeInv
<1>2. /\ known' = [known EXCEPT ![d] = UNION {log[i].past : i \in Replayed}]
      /\ stored' = [stored EXCEPT ![d] = {Entry(log[i]) : i \in Replayed}]
      /\ pending' = [pending EXCEPT ![d] = <<>>]
      /\ cursor' = [cursor EXCEPT ![d] = Len(log)]
      /\ UNCHANGED <<issued, ident, minted, log>>
  BY UseRemoteOf
<1>3. \A i \in Replayed : i \in 1..Len(log) /\ log[i].past \subseteq 1..issued /\ Entry(log[i]).key \in 1..issued
  BY DEF Replayed, Retained, Entry, TypeInv, Names, IssuedOp
<1>4. \A b \in Device : pending'[b] \in {pending[b], <<>>}
  BY <1>2 DEF TypeInv, Types
<1>5. UNION {log[i].past : i \in Replayed} \subseteq 1..issued
  BY <1>3
<1>6. /\ \A b \in Device : known'[b] \subseteq 1..issued
      /\ \A b \in Device : \A s \in stored'[b] : s.key \in 1..issued
  BY <1>2, <1>3, <1>5 DEF TypeInv, Types, Names
<1>7. Names'
  BY <1>2, <1>4, <1>6, FewerNames
<1>8. Len(log) \in Nat
  BY DEF TypeInv, Types
<1>9. Cursors' /\ Queues'
  BY <1>2, <1>4, <1>8 DEF TypeInv, Types, Cursors, Queues
<1> QED
  BY <1>1, <1>7, <1>9 DEF TypeInv

LEMMA StutterTypeInv == TypeInv /\ UNCHANGED vars => TypeInv'
<1> SUFFICES ASSUME TypeInv, UNCHANGED vars PROVE TypeInv'
  OBVIOUS
<1>1. Types'
  BY DEF vars, TypeInv, Types
<1>2. Names'
  BY FewerNames DEF vars, TypeInv, Names
<1>3. Cursors' /\ Queues'
  BY DEF vars, TypeInv, Cursors, Queues
<1> QED
  BY <1>1, <1>2, <1>3 DEF TypeInv

LEMMA NextTypeInv == TypeInv /\ [Next]_vars => TypeInv'
<1> SUFFICES ASSUME TypeInv, [Next]_vars PROVE TypeInv'
  OBVIOUS
<1>1. CASE UNCHANGED vars
  BY <1>1, StutterTypeInv
<1>2. CASE Next
  BY <1>2, CaptureTypeInv, SyncImportTypeInv, BackupImportTypeInv, UploadTypeInv,
     RejectedUploadTypeInv, DownloadTypeInv, UseRemoteTypeInv DEF Next
<1> QED
  BY <1>1, <1>2

LEMMA TypesHold == Spec => []TypeInv
<1> QED
  BY InitTypes, NextTypeInv, PTL DEF Spec

(***************************************************************************)
(* Type correctness, for any number of devices, client ids, imports and    *)
(* operations: no operation is stored twice, and only imports wait in      *)
(* front of another operation.                                             *)
(***************************************************************************)
THEOREM TypeCorrectClocks == Spec => []TypeOK
<1>1. TypeInv => TypeOK
  <2> SUFFICES ASSUME TypeInv PROVE TypeOK
    OBVIOUS
  <2>1. \A d \in Device : \A e \in stored[d] : e.key \in 1..issued /\ e.clock \in Clock
    BY DEF TypeInv, Types, Names, LocalEntry
  <2>2. \A d \in Device : Len(author[d]) <= 1
    <3>1. ASSUME NEW d \in Device PROVE Len(author[d]) <= 1
      <4>1. author[d] = <<>> \/ \E c \in Client : author[d] = <<c>>
        BY DEF TypeInv, Types
      <4>2. CASE author[d] = <<>>
        BY <4>2
      <4>3. CASE \E c \in Client : author[d] = <<c>>
        <5>1. PICK c \in Client : author[d] = <<c>>
          BY <4>3
        <5>2. Len(<<c>>) = 1
          OBVIOUS
        <5> QED
          BY <5>1, <5>2
      <4> QED
        BY <4>1, <4>2, <4>3
    <3> QED
      BY <3>1
  <2>3. \A d \in Device : known[d] \subseteq 1..issued /\ cursor[d] \in 0..Len(log)
    BY DEF TypeInv, Types, Names, Cursors
  <2>4. /\ issued \in 0..MaxOps /\ ident \in [Device -> Client] /\ minted \subseteq Client
        /\ clock \in [Device -> Clock]
    BY DEF TypeInv, Types
  <2>5. \A i, j \in 1..Len(log) : log[i].key = log[j].key => i = j
    BY DEF TypeInv, Names
  <2> QED
    BY <2>1, <2>2, <2>3, <2>4, <2>5 DEF TypeOK, TypeInv, Queues
<1> QED
  BY <1>1, TypesHold, PTL

-----------------------------------------------------------------------------
(* Rejected uploads *)

\* A clock that covers another and is ahead of it compares as newer.
LEMMA CoversAndAhead ==
  ASSUME NEW v \in Clock, NEW w \in Clock, NEW c \in Client, v[c] > w[c],
         \A b \in Client : v[b] >= w[b]
  PROVE  Compare(v, w) = "GREATER_THAN"
<1>1. AheadOf(v, w) /\ ~AheadOf(w, v)
  BY DEF AheadOf, Clock
<1> QED
  BY <1>1 DEF Compare

(***************************************************************************)
(* No rejection loop, for every bound on clocks: the operation re-created  *)
(* with the merged clocks is accepted over the one it was rejected for.    *)
(***************************************************************************)
THEOREM RejectedOnce == Spec => NoRejectionLoop
<1>1. TypeInv /\ [Next]_vars =>
        [\A d \in Device :
           RejectedUpload(d) /\ pending'[d] # <<>> => ~Conflicts(pending'[d][1])]_vars
  <2> SUFFICES ASSUME TypeInv, NEW d \in Device, RejectedUpload(d), pending'[d] # <<>>
               PROVE  ~Conflicts(pending'[d][1])
    BY DEF vars
  <2> DEFINE own == ident[d]
             op  == Head(pending[d])
             latest == log[LatestOn(op.entity)]
             merged == Increment(Merge(Merge(clock[d], op.clock), latest.clock), own)
             again  == NewOp(own, "UPDATE", op.entity, merged, known[d] \cup op.past)
  <2>1. op \in Op /\ Conflicts(op)
    BY HeadOf DEF RejectedUpload, TypeInv
  <2>2. latest \in Op
    BY <2>1, LatestOf DEF TypeInv
  <2>3. clock[d] \in Clock /\ op.clock \in Clock /\ latest.clock \in Clock /\ own \in Client
    BY <2>1, <2>2 DEF TypeInv, Types, Op
  <2>4. pending'[d][1] = again
    <3>1. \/ pending' = [pending EXCEPT ![d] = <<again>>]
          \/ pending' = [pending EXCEPT ![d] = <<>>]
      BY DEF RejectedUpload
    <3> HIDE DEF again
    <3>2. pending'[d] = <<again>>
      BY <3>1 DEF TypeInv, Types
    <3> QED
      BY <3>2
  <2>5. again.entity = op.entity /\ again.clock = merged
    BY NewOpFields
  <2>6. Compare(merged, latest.clock) = "GREATER_THAN"
    <3> DEFINE both == Merge(Merge(clock[d], op.clock), latest.clock)
    <3>1. /\ both \in Clock
          /\ \A b \in Client : both[b] >= latest.clock[b]
      BY <2>3, MergeCovers
    <3> HIDE DEF both
    <3>2. /\ Increment(both, own) \in Clock
          /\ Increment(both, own)[own] = both[own] + 1
          /\ \A b \in Client \ {own} : Increment(both, own)[b] = both[b]
      BY <2>3, <3>1, IncrementType
    <3>3. Increment(both, own)[own] > latest.clock[own]
      BY <2>3, <3>1, <3>2 DEF Clock
    <3>4. \A b \in Client : Increment(both, own)[b] >= latest.clock[b]
      <4>1. ASSUME NEW b \in Client, b # own PROVE Increment(both, own)[b] >= latest.clock[b]
        BY <3>1, <3>2, <4>1
      <4>2. both[own] \in Nat /\ latest.clock[own] \in Nat
        BY <2>3, <3>1 DEF Clock
      <4>3. Increment(both, own)[own] >= latest.clock[own]
        BY <3>2, <3>3, <4>2
      <4> QED
        BY <4>1, <4>3
    <3>5. Compare(Increment(both, own), latest.clock) = "GREATER_THAN"
      BY <2>3, <3>2, <3>3, <3>4, CoversAndAhead
    <3> QED
      BY <3>5 DEF both
  <2> HIDE DEF again, merged, latest
  <2>7. ~Conflicts(again)
    BY <2>5, <2>6 DEF Conflicts, latest
  <2> QED
    BY <2>4, <2>7
<1> QED
  BY <1>1, TypesHold, PTL DEF Spec, NoRejectionLoop

-----------------------------------------------------------------------------
(***************************************************************************)
(* The import filter.  From here on full-state operations are restored     *)
(* backups (~Migrates): a SYNC_IMPORT leaves the durable clock behind it,  *)
(* and what follows does not hold.                                         *)
(*                                                                         *)
(* The latest import is compared with the causal past of everything that   *)
(* is around: the clock of a device, of a waiting operation or of a        *)
(* retained one has an entry of the import's author exactly when its past  *)
(* holds the import.  The id of an import that is still waiting is unseen  *)
(* elsewhere, so that the same holds again when it is uploaded.            *)
(***************************************************************************)

IsBackup(op) ==
  /\ op.kind = "BACKUP_IMPORT"
  /\ op.clock = Increment(EmptyClock, op.client)
  /\ op.past = {op.key}

Holding(d) == \E p \in Waiting(d) : IsImport(p)

Identities ==
  /\ \A d \in Device : ident[d] \in minted
  /\ \A d, e \in Device : ident[d] = ident[e] => d = e
  /\ \A d \in Device : \A p, q \in Waiting(d) : p = q
  /\ \A d \in Device : \A p \in Waiting(d) : p.client = ident[d]
  /\ \A d \in Device : \A p \in Waiting(d) : IsImport(p) => IsBackup(p)
  /\ \A i \in 1..Len(log) : log[i].client \in minted
  /\ \A i \in 1..Len(log) : IsImport(log[i]) => IsBackup(log[i])

\* Nothing knows of an operation that waits, except its device.
Private(d) ==
  \A p \in Waiting(d) :
    /\ p.past \subseteq known[d]
    /\ \A i \in 1..Len(log) : p.key \notin log[i].past
    /\ \A e \in Device \ {d} : p.key \notin known[e]
    /\ \A e \in Device \ {d} : \A q \in Waiting(e) : p.key \notin q.past

Privacy == \A d \in Device : Private(d)

\* Causal pasts are closed.
Closed(P) == \A j \in Retained : log[j].key \in P => log[j].past \subseteq P

Closure ==
  /\ \A d \in Device : Closed(known[d])
  /\ \A d \in Device : \A p \in Waiting(d) : Closed(p.past)
  /\ \A i \in Retained : Closed(log[i].past)

\* No clock has an entry of c, but the one of the device that is c.
Unseen(c) ==
  /\ \A d \in Device : ident[d] # c => clock[d][c] = 0
  /\ \A d \in Device : ident[d] # c => \A p \in Waiting(d) : p.clock[c] = 0
  /\ \A i \in Retained : log[i].clock[c] = 0

Fresh ==
  /\ \A c \in Client \ minted : Unseen(c)
  /\ \A d \in Device : Holding(d) =>
       Unseen(ident[d]) /\ \A i \in 1..Len(log) : log[i].client # ident[d]

\* A device that restored a backup starts over from it.
Holders ==
  \A d \in Device : \A p \in Waiting(d) : IsImport(p) =>
    /\ clock[d] = p.clock
    /\ known[d] = {p.key}
    /\ author[d] = <<p.client>>
    /\ \E s \in stored[d] : s.key = p.key

\* The latest import, against a clock v and a causal past P.
Baseline == log[LastImport]
Exact(v, P) == v[Baseline.client] >= 1 <=> Baseline.key \in P

ExactAt(d) ==
  /\ Exact(clock[d], known[d])
  /\ Baseline.key \in known[d] =>
       author[d] = <<Baseline.client>> /\ \E s \in stored[d] : s.key = Baseline.key
  /\ ident[d] = Baseline.client => Baseline.key \in known[d]
  /\ cursor[d] >= LastImport /\ ~Holding(d) => Baseline.key \in known[d]
  /\ \A p \in Waiting(d) : Exact(p.clock, p.past)

Exactness ==
  LastImport # 0 =>
    /\ \A d \in Device : ExactAt(d)
    /\ \A i \in Retained : Exact(log[i].clock, log[i].past)

FilterInv == Identities /\ Privacy /\ Closure /\ Fresh /\ Holders /\ Exactness

-----------------------------------------------------------------------------
(* The steps, in these terms. *)

\* Nothing of the devices other than d changes.
OthersStay(d) ==
  \A e \in Device \ {d} :
    /\ Waiting(e)' = Waiting(e) /\ clock'[e] = clock[e] /\ known'[e] = known[e]
    /\ author'[e] = author[e] /\ stored'[e] = stored[e] /\ cursor'[e] = cursor[e]
    /\ ident'[e] = ident[e] /\ (Holding(e)' <=> Holding(e))

\* Device d makes the edit op, in the place of what waited.
Edits(d, op) ==
  /\ op \in Op /\ op.key = NewKey /\ op.client = ident[d] /\ ~IsImport(op)
  /\ op.past = known[d] \cup {NewKey}
  /\ ~Holding(d) /\ ~Holding(d)' /\ Waiting(d)' = {op}
  /\ clock'[d] = op.clock /\ known'[d] = known[d] \cup {NewKey}
  /\ \A s \in stored[d] : s \in stored'[d]
  /\ OthersStay(d)
  /\ UNCHANGED <<ident, minted, author, cursor, log>>
  /\ op.clock[ident[d]] > clock[d][ident[d]]
  /\ \A p \in Waiting(d) : op.clock[ident[d]] > p.clock[ident[d]]
  /\ \A c \in Client : op.clock[c] >= clock[d][c]
  /\ \A c \in Client \ {ident[d]} :
       \/ op.clock[c] = clock[d][c]
       \/ \E p \in Waiting(d) : op.clock[c] = p.clock[c]
       \/ \E j \in Retained : log[j].key \in known[d] /\ op.clock[c] = log[j].clock[c]

LEMMA HoldsIs ==
  ASSUME NEW d
  PROVE  (HoldsImport(d) <=> Holding(d)) /\ (pending[d] = <<>> => Waiting(d) = {})
BY DEF HoldsImport, Holding, Waiting

\* What a queue of one holds.
LEMMA AloneWaits ==
  ASSUME TypeInv, NEW d \in Device, NEW op, pending' = [pending EXCEPT ![d] = <<op>>]
  PROVE  /\ Waiting(d)' = {op}
         /\ \A e \in Device \ {d} : Waiting(e)' = Waiting(e)
<1>1. pending'[d] = <<op>> /\ \A e \in Device \ {d} : pending'[e] = pending[e]
  BY DEF TypeInv, Types
<1>2. Len(<<op>>) = 1 /\ <<op>>[1] = op
  OBVIOUS
<1> QED
  BY <1>1, <1>2 DEF Waiting

LEMMA CaptureEdits ==
  ASSUME TypeInv, NEW d \in Device, NEW e \in Entity, Capture(d, e)
  PROVE  \E op : Edits(d, op)
<1> DEFINE op == NewOp(ident[d], "UPDATE", e, Increment(clock[d], ident[d]), known[d])
<1>1. /\ pending' = [pending EXCEPT ![d] = <<op>>]
      /\ clock' = [clock EXCEPT ![d] = op.clock]
      /\ known' = [known EXCEPT ![d] = @ \cup {op.key}]
      /\ stored' = [stored EXCEPT ![d] = @ \cup {Entry(op)}]
      /\ pending[d] = <<>>
      /\ UNCHANGED <<ident, minted, author, cursor, log>>
  BY DEF Capture
<1>2. op \in Op
  BY IncrementType, NewOpType DEF TypeInv, Types
<1>3. /\ op.key = NewKey /\ op.past = known[d] \cup {NewKey} /\ op.client = ident[d]
      /\ ~IsImport(op) /\ op.clock = Increment(clock[d], ident[d])
  BY NewOpFields DEF IsImport, ImportKinds
<1>4. /\ op.clock[ident[d]] = clock[d][ident[d]] + 1 /\ clock[d][ident[d]] \in Nat
      /\ \A c \in Client \ {ident[d]} : op.clock[c] = clock[d][c]
      /\ \A c \in Client : clock[d][c] \in Nat
  <2>1. clock[d] \in Clock /\ ident[d] \in Client
    BY DEF TypeInv, Types
  <2>2. \A c \in Client : clock[d][c] \in Nat
    BY <2>1 DEF Clock
  <2> HIDE DEF op
  <2> QED
    BY <1>3, <2>1, <2>2, IncrementType
<1> HIDE DEF op
<1>5. Waiting(d)' = {op} /\ \A b \in Device \ {d} : Waiting(b)' = Waiting(b)
  BY <1>1, AloneWaits
<1>6. Waiting(d) = {}
  BY <1>1, HoldsIs
<1>7. ~Holding(d) /\ ~Holding(d)' /\ \A b \in Device \ {d} : Holding(b)' <=> Holding(b)
  BY <1>3, <1>5, <1>6 DEF Holding
<1>8. OthersStay(d) /\ clock'[d] = op.clock /\ known'[d] = known[d] \cup {NewKey}
      /\ \A s \in stored[d] : s \in stored'[d]
  BY <1>1, <1>3, <1>5, <1>7 DEF OthersStay, TypeInv, Types
<1>9. \A c \in Client : op.clock[c] >= clock[d][c]
  BY <1>4
<1> QED
  BY <1>1, <1>2, <1>3, <1>4, <1>5, <1>6, <1>7, <1>8, <1>9 DEF Edits

\* What waits is given up, and nothing else changes.
Drops(d) ==
  /\ Waiting(d)' = {} /\ ~Holding(d)
  /\ OthersStay(d)
  /\ UNCHANGED <<issued, ident, minted, clock, author, known, stored, cursor, log>>

LEMMA RejectedEdits ==
  ASSUME TypeInv, FilterInv, NEW d \in Device, RejectedUpload(d)
  PROVE  Drops(d) \/ \E op : Edits(d, op)
<1> DEFINE own == ident[d]
           op  == Head(pending[d])
           latest == log[LatestOn(op.entity)]
           both == Merge(Merge(clock[d], op.clock), latest.clock)
           again  == NewOp(own, "UPDATE", op.entity, Increment(both, own), known[d] \cup op.past)
<1>1. op \in Op /\ op \in Waiting(d) /\ Conflicts(op) /\ ~IsImport(op)
  BY HeadOf DEF RejectedUpload, TypeInv, Conflicts
<1>2. ~Holding(d) /\ op.past \subseteq known[d]
  BY <1>1 DEF FilterInv, Identities, Privacy, Private, Holding
<1>3. CASE latest.key \notin known[d]
  <2>1. pending' = [pending EXCEPT ![d] = <<>>]
        /\ UNCHANGED <<issued, ident, minted, clock, author, known, stored, cursor, log>>
    BY <1>3 DEF RejectedUpload
  <2>2. pending'[d] = <<>> /\ \A e \in Device \ {d} : pending'[e] = pending[e]
    BY <2>1 DEF TypeInv, Types
  <2>3. Waiting(d)' = {} /\ \A e \in Device \ {d} : Waiting(e)' = Waiting(e)
    BY <2>2 DEF Waiting
  <2>4. OthersStay(d)
    BY <2>1, <2>3 DEF OthersStay, Holding
  <2> QED
    BY <1>2, <2>1, <2>3, <2>4 DEF Drops
<1>4. CASE latest.key \in known[d]
  <2>1. /\ pending' = [pending EXCEPT ![d] = <<again>>]
        /\ clock' = [clock EXCEPT ![d] = again.clock]
        /\ known' = [known EXCEPT ![d] = @ \cup {again.key}]
        /\ stored' = [stored EXCEPT ![d] = @ \cup {Entry(again)}]
        /\ UNCHANGED <<ident, minted, author, cursor, log>>
    BY <1>4 DEF RejectedUpload
  <2>2. latest \in Op /\ LatestOn(op.entity) \in Retained
    BY <1>1, LatestOf DEF TypeInv
  <2>3. clock[d] \in Clock /\ op.clock \in Clock /\ latest.clock \in Clock /\ own \in Client
    BY <1>1, <2>2 DEF TypeInv, Types, Op
  <2>4. /\ again.key = NewKey /\ again.client = own /\ ~IsImport(again)
        /\ again.past = known[d] \cup {NewKey}
        /\ again.clock = Increment(both, own)
    BY <1>2, NewOpFields DEF IsImport, ImportKinds
  <2>5. both \in Clock
    BY <2>3, MergeCovers
  <2>6. again \in Op
    <3>1. op.entity \in Entity /\ known[d] \cup op.past \in SUBSET Nat
      BY <1>1 DEF TypeInv, Types, Op
    <3>2. Increment(both, own) \in Clock
      BY <2>3, <2>5, IncrementType
    <3> HIDE DEF both, op
    <3> QED
      BY <2>3, <3>1, <3>2, NewOpType DEF TypeInv
  <2>7. \A c \in Client :
          /\ both[c] >= clock[d][c] /\ both[c] >= op.clock[c] /\ both[c] >= latest.clock[c]
          /\ both[c] \in {clock[d][c], op.clock[c], latest.clock[c]}
          /\ both[c] \in Nat /\ clock[d][c] \in Nat /\ op.clock[c] \in Nat
    <3>1. ASSUME NEW c \in Client
          PROVE  both[c] = Larger(Larger(clock[d][c], op.clock[c]), latest.clock[c])
      BY DEF Merge
    <3>2. ASSUME NEW c \in Client
          PROVE  clock[d][c] \in Nat /\ op.clock[c] \in Nat /\ latest.clock[c] \in Nat
      BY <2>3 DEF Clock
    <3> HIDE DEF both, op, latest
    <3> QED
      BY <3>1, <3>2 DEF Larger
  <2> HIDE DEF both, again
  <2>8. /\ again.clock[own] = both[own] + 1
        /\ \A c \in Client \ {own} : again.clock[c] = both[c]
    BY <2>3, <2>4, <2>5, IncrementType
  <2>9. Waiting(d)' = {again} /\ \A b \in Device \ {d} : Waiting(b)' = Waiting(b)
    BY <2>1, AloneWaits
  <2>10. ~Holding(d)' /\ \A b \in Device \ {d} : Holding(b)' <=> Holding(b)
    BY <2>4, <2>9 DEF Holding
  <2>11. OthersStay(d) /\ clock'[d] = again.clock /\ known'[d] = known[d] \cup {NewKey}
        /\ \A s \in stored[d] : s \in stored'[d]
    BY <2>1, <2>4, <2>9, <2>10 DEF OthersStay, TypeInv, Types
  <2>12. \A p \in Waiting(d) : p = op
    BY <1>1 DEF FilterInv, Identities
  <2>13. /\ again.clock[own] > clock[d][own]
         /\ \A p \in Waiting(d) : again.clock[own] > p.clock[own]
         /\ \A c \in Client : again.clock[c] >= clock[d][c]
    <3>1. /\ again.clock[own] > clock[d][own]
          /\ \A p \in Waiting(d) : again.clock[own] > p.clock[own]
      BY <2>3, <2>7, <2>8, <2>12
    <3>2. ASSUME NEW c \in Client PROVE again.clock[c] >= clock[d][c]
      <4>1. CASE c = own
        BY <2>3, <2>7, <2>8, <4>1
      <4>2. CASE c # own
        BY <2>7, <2>8, <4>2
      <4> QED
        BY <4>1, <4>2
    <3> QED
      BY <3>1, <3>2
  <2>14. \A c \in Client \ {own} :
       \/ again.clock[c] = clock[d][c]
       \/ \E p \in Waiting(d) : again.clock[c] = p.clock[c]
       \/ \E j \in Retained : log[j].key \in known[d] /\ again.clock[c] = log[j].clock[c]
    BY <1>1, <1>4, <2>2, <2>7, <2>8
  <2>15. Edits(d, again)
    BY <1>2, <2>1, <2>4, <2>6, <2>9, <2>10, <2>11, <2>13, <2>14 DEF Edits
  <2> QED
    BY <2>15
<1> QED
  BY <1>3, <1>4

-----------------------------------------------------------------------------
(* An edit keeps the invariant. *)

\* No operation has the id that is handed out next.
LEMMA NewKeyIsNew ==
  ASSUME TypeInv
  PROVE  /\ NewKey \in Nat
         /\ \A d \in Device : NewKey \notin known[d]
         /\ \A d \in Device : \A p \in Waiting(d) : p.key # NewKey /\ NewKey \notin p.past
         /\ \A i \in 1..Len(log) : log[i].key # NewKey /\ NewKey \notin log[i].past
         /\ \A d \in Device : \A s \in stored[d] : s.key # NewKey
<1>1. issued \in Nat /\ NewKey = issued + 1 /\ NewKey \notin 1..issued
  BY BoundsAssumption DEF TypeInv, Types, NewKey
<1> QED
  BY <1>1 DEF TypeInv, Names, IssuedOp

\* Everything the invariants speak of has its type.
LEMMA WaitingType ==
  ASSUME TypeInv
  PROVE  /\ \A d \in Device : \A p \in Waiting(d) : p \in Op /\ p.clock \in Clock /\ p.key \in p.past
         /\ \A i \in 1..Len(log) : log[i] \in Op /\ log[i].clock \in Clock /\ log[i].key \in log[i].past
         /\ \A d \in Device : clock[d] \in Clock /\ ident[d] \in Client
         /\ Retained \subseteq 1..Len(log)
<1>1. \A d \in Device : \A p \in Waiting(d) : p \in Op
  BY DEF Waiting, TypeInv, Types
<1>2. \A i \in 1..Len(log) : log[i] \in Op
  BY DEF TypeInv, Types
<1>3. \A op \in Op : op.clock \in Clock
  BY DEF Op
<1> QED
  BY <1>1, <1>2, <1>3 DEF TypeInv, Types, Names, IssuedOp, Retained

LEMMA BaselineOf ==
  ASSUME TypeInv, FilterInv, LastImport # 0
  PROVE  /\ LastImport \in Retained /\ LastImport \in 1..Len(log)
         /\ Baseline \in Op /\ IsImport(Baseline) /\ IsBackup(Baseline)
         /\ Baseline.client \in minted /\ Baseline.client \in Client
         /\ Baseline.past = {Baseline.key}
         /\ Baseline.clock \in Clock /\ Baseline.clock[Baseline.client] = 1
         /\ \A c \in Client \ {Baseline.client} : Baseline.clock[c] = 0
         /\ \A i \in Retained : i >= LastImport /\ (IsImport(log[i]) => i = LastImport)
<1>1. LastImport \in Retained /\ LastImport \in 1..Len(log) /\ IsImport(Baseline)
  BY LastImportOf DEF Retained, TypeInv, Baseline
<1>2. Baseline \in Op /\ IsBackup(Baseline) /\ Baseline.client \in minted
  BY <1>1, WaitingType DEF Baseline, FilterInv, Identities
<1>3. Baseline.client \in Client
  BY <1>2 DEF TypeInv, Types
<1>4. Baseline.clock = Increment(EmptyClock, Baseline.client) /\ Baseline.past = {Baseline.key}
  BY <1>2 DEF IsBackup
<1>5. \A i \in Retained : i >= LastImport /\ (IsImport(log[i]) => i = LastImport)
  <2>1. \A i \in 1..Len(log) : IsImport(log[i]) => i <= LastImport
    BY LastImportOf DEF TypeInv
  <2> QED
    BY <1>1, <2>1 DEF Retained
<1> QED
  BY <1>1, <1>2, <1>3, <1>4, <1>5, BaselineClock

LEMMA EditsIdentities ==
  ASSUME TypeInv, FilterInv, NEW d \in Device, NEW op, Edits(d, op)
  PROVE  Identities' /\ Holders'
<1>1. \A e \in Device : ident'[e] = ident[e]
  BY DEF Edits
<1>2. minted' = minted /\ log' = log
  BY DEF Edits
<1>3. \A p \in Waiting(d)' : p = op /\ ~IsImport(op) /\ op.client = ident[d]
  BY DEF Edits
<1>4. \A e \in Device \ {d} : Waiting(e)' = Waiting(e)
  BY DEF Edits, OthersStay
<1>5. Identities'
  BY <1>1, <1>2, <1>3, <1>4 DEF FilterInv, Identities
<1>6. \A e \in Device \ {d} :
        clock'[e] = clock[e] /\ known'[e] = known[e] /\ author'[e] = author[e] /\ stored'[e] = stored[e]
  BY DEF Edits, OthersStay
<1>7. Holders'
  BY <1>3, <1>4, <1>6 DEF FilterInv, Holders
<1> QED
  BY <1>5, <1>7

LEMMA EditsClosure ==
  ASSUME TypeInv, FilterInv, NEW d \in Device, NEW op, Edits(d, op)
  PROVE  Privacy' /\ Closure'
<1>1. /\ Waiting(d)' = {op} /\ op.key = NewKey /\ op.past = known[d] \cup {NewKey}
      /\ known'[d] = known[d] \cup {NewKey} /\ log' = log
      /\ \A e \in Device \ {d} : Waiting(e)' = Waiting(e) /\ known'[e] = known[e]
  BY DEF Edits, OthersStay
<1>2. Private(d)'
  BY <1>1, NewKeyIsNew DEF Private
<1>3. ASSUME NEW e \in Device \ {d} PROVE Private(e)'
  <2>1. \A p \in Waiting(e) : p.key # NewKey /\ p.key \notin known[d]
    BY NewKeyIsNew DEF FilterInv, Privacy, Private
  <2>2. \A p \in Waiting(e) : \A f \in Device \ {e} : p.key \notin known'[f]
    BY <1>1, <2>1 DEF FilterInv, Privacy, Private
  <2>3. \A p \in Waiting(e) : \A f \in Device \ {e} : \A q \in Waiting(f)' : p.key \notin q.past
    BY <1>1, <2>1 DEF FilterInv, Privacy, Private
  <2> QED
    BY <1>1, <2>2, <2>3 DEF FilterInv, Privacy, Private
<1>4. \A i \in Retained : log[i].key # NewKey
  BY NewKeyIsNew, WaitingType
<1>5. \A P : Closed(P)' <=> Closed(P)
  BY <1>1 DEF Closed, Retained, LastImport, ImportPositions
<1>6. Closed(known[d] \cup {NewKey})
  BY <1>4 DEF FilterInv, Closure, Closed
<1>7. Retained' = Retained
  BY <1>1 DEF Retained, LastImport, ImportPositions
<1>8. Closure'
  <2>1. \A e \in Device : Closed(known'[e])
    BY <1>1, <1>6 DEF FilterInv, Closure
  <2>2. \A e \in Device : \A p \in Waiting(e)' : Closed(p.past)
    BY <1>1, <1>6 DEF FilterInv, Closure
  <2>3. \A i \in Retained : Closed(log[i].past)
    BY DEF FilterInv, Closure
  <2> QED
    BY <1>1, <1>5, <1>7, <2>1, <2>2, <2>3 DEF Closure
<1> QED
  BY <1>2, <1>3, <1>8 DEF Privacy

\* An id that nobody has seen stays unseen when another device edits.
LEMMA EditsUnseen ==
  ASSUME TypeInv, FilterInv, NEW d \in Device, NEW op, Edits(d, op),
         NEW c \in Client, Unseen(c), ident[d] # c
  PROVE  Unseen(c)'
<1>1. op.clock[c] = 0
  <2>1. clock[d][c] = 0 /\ (\A p \in Waiting(d) : p.clock[c] = 0)
        /\ \A i \in Retained : log[i].clock[c] = 0
    BY DEF Unseen
  <2> QED
    BY <2>1 DEF Edits
<1>2. Retained' = Retained /\ log' = log /\ ident' = ident
  BY DEF Edits, Retained, LastImport, ImportPositions
<1>3. /\ clock'[d] = op.clock /\ Waiting(d)' = {op}
      /\ \A e \in Device \ {d} : clock'[e] = clock[e] /\ Waiting(e)' = Waiting(e)
  BY DEF Edits, OthersStay
<1> QED
  BY <1>1, <1>2, <1>3 DEF Unseen

LEMMA EditsFresh ==
  ASSUME TypeInv, FilterInv, NEW d \in Device, NEW op, Edits(d, op)
  PROVE  Fresh'
<1>1. minted' = minted /\ ident' = ident /\ log' = log /\ ~Holding(d)'
      /\ \A e \in Device \ {d} : Holding(e)' <=> Holding(e)
  BY DEF Edits, OthersStay
<1>2. \A c \in Client \ minted : Unseen(c)'
  BY EditsUnseen DEF FilterInv, Fresh, Identities
<1>3. ASSUME NEW e \in Device, NEW c, c = ident[e], Holding(e)'
      PROVE  Unseen(c)' /\ \A i \in 1..Len(log) : log[i].client # c
  <2>1. e # d /\ Holding(e)
    BY <1>1, <1>3
  <2>2. ident[d] # c /\ c \in Client
    BY <1>3, <2>1, WaitingType DEF FilterInv, Identities
  <2>3. Unseen(c)
    BY <1>3, <2>1 DEF FilterInv, Fresh
  <2>4. Unseen(c)'
    BY <2>2, <2>3, EditsUnseen
  <2> QED
    BY <1>3, <2>1, <2>4 DEF FilterInv, Fresh
<1> QED
  BY <1>1, <1>2, <1>3 DEF Fresh, Unseen

LEMMA EditsExact ==
  ASSUME TypeInv, FilterInv, NEW d \in Device, NEW op, Edits(d, op)
  PROVE  Exactness'
<1>1. /\ LastImport' = LastImport /\ Retained' = Retained /\ Baseline' = Baseline
      /\ log' = log /\ ident' = ident /\ cursor' = cursor /\ author' = author
  BY DEF Edits, Retained, LastImport, ImportPositions, Baseline
<1> SUFFICES ASSUME LastImport # 0
             PROVE  /\ \A e \in Device : ExactAt(e)'
                    /\ \A i \in Retained : Exact(log[i].clock, log[i].past)'
  BY <1>1 DEF Exactness
<1> DEFINE a == Baseline.client
           k == Baseline.key
<1>2. /\ a \in Client /\ k # NewKey /\ Baseline \in Op
  BY BaselineOf, NewKeyIsNew DEF Baseline
<1>3. \A v, P : Exact(v, P)' <=> Exact(v, P)
  BY <1>1 DEF Exact
<1>4. Exact(op.clock, op.past)
  <2>1. op.past = known[d] \cup {NewKey} /\ op.clock[a] >= clock[d][a] /\ op \in Op
    BY <1>2 DEF Edits
  <2>2. ASSUME k \in op.past PROVE op.clock[a] >= 1
    <3>1. clock[d][a] >= 1
      BY <1>2, <2>1, <2>2 DEF FilterInv, Exactness, ExactAt, Exact
    <3>2. clock[d][a] \in Nat /\ op.clock[a] \in Nat
      BY <1>2, <2>1, WaitingType DEF Op, Clock
    <3> HIDE DEF a
    <3> QED
      BY <2>1, <3>1, <3>2
  <2>3. ASSUME op.clock[a] >= 1 PROVE k \in known[d]
    <3>1. CASE ident[d] = a
      BY <3>1 DEF FilterInv, Exactness, ExactAt
    <3>2. CASE op.clock[a] = clock[d][a]
      BY <2>3, <3>2 DEF FilterInv, Exactness, ExactAt, Exact
    <3>3. CASE \E p \in Waiting(d) : op.clock[a] = p.clock[a]
      BY <2>3, <3>3 DEF FilterInv, Exactness, ExactAt, Exact, Privacy, Private
    <3>4. CASE \E j \in Retained : log[j].key \in known[d] /\ op.clock[a] = log[j].clock[a]
      <4>1. PICK j \in Retained : log[j].key \in known[d] /\ op.clock[a] = log[j].clock[a]
        BY <3>4
      <4>2. k \in log[j].past
        BY <2>3, <4>1 DEF FilterInv, Exactness, Exact
      <4> QED
        BY <4>1, <4>2 DEF FilterInv, Closure, Closed
    <3> QED
      BY <1>2, <3>1, <3>2, <3>3, <3>4 DEF Edits
  <2> QED
    BY <2>1, <2>2, <2>3 DEF Exact
<1>5. ExactAt(d)'
  <2>1. /\ clock'[d] = op.clock /\ known'[d] = op.past /\ Waiting(d)' = {op}
        /\ ~Holding(d) /\ known'[d] = known[d] \cup {NewKey}
        /\ \A s \in stored[d] : s \in stored'[d]
    BY DEF Edits
  <2>2. k \in known'[d] <=> k \in known[d]
    BY <1>2, <2>1
  <2>3. /\ k \in known[d] => author[d] = <<a>> /\ \E s \in stored[d] : s.key = k
        /\ ident[d] = a => k \in known[d]
        /\ cursor[d] >= LastImport => k \in known[d]
    BY <2>1 DEF FilterInv, Exactness, ExactAt
  <2> QED
    BY <1>1, <1>3, <1>4, <2>1, <2>2, <2>3 DEF ExactAt
<1>6. ASSUME NEW e \in Device \ {d} PROVE ExactAt(e)'
  <2>1. /\ clock'[e] = clock[e] /\ known'[e] = known[e] /\ Waiting(e)' = Waiting(e)
        /\ stored'[e] = stored[e] /\ (Holding(e)' <=> Holding(e))
    BY DEF Edits, OthersStay
  <2>2. ExactAt(e)
    BY DEF FilterInv, Exactness
  <2> QED
    BY <1>1, <1>3, <2>1, <2>2 DEF ExactAt
<1>7. \A i \in Retained : Exact(log[i].clock, log[i].past)'
  BY <1>1 DEF FilterInv, Exactness, Exact
<1> QED
  BY <1>5, <1>6, <1>7

-----------------------------------------------------------------------------
(* The steps that leave the log and the client ids alone. *)

LEMMA SameLog ==
  ASSUME log' = log
  PROVE  /\ LastImport' = LastImport /\ Retained' = Retained /\ Baseline' = Baseline
         /\ \A P : Closed(P)' <=> Closed(P)
         /\ \A v, P : Exact(v, P)' <=> Exact(v, P)
<1>1. LastImport' = LastImport /\ Retained' = Retained /\ Baseline' = Baseline
  BY DEF Retained, LastImport, ImportPositions, Baseline
<1> QED
  BY <1>1 DEF Closed, Exact

\* What a device may do with what it reads from the log: a client id that none of
\* it mentions stays unseen, and the latest import is taken in with its author.
Learns(d) ==
  /\ OthersStay(d)
  /\ UNCHANGED <<ident, minted, log>>
  /\ \A p \in Waiting(d)' : p \in Waiting(d) /\ p.past \subseteq known'[d]
  /\ ~Holding(d)'
  /\ Closed(known'[d])
  /\ \A x \in known'[d] : x \in known[d] \/ \E i \in 1..Len(log) : x \in log[i].past
  /\ \A c \in Client :
       (/\ c # ident[d] /\ clock[d][c] = 0
        /\ \A i \in Retained : log[i].clock[c] = 0) => clock'[d][c] = 0
  /\ LastImport # 0 =>
       /\ Exact(clock'[d], known'[d])
       /\ Baseline.key \in known'[d] =>
            author'[d] = <<Baseline.client>> /\ \E s \in stored'[d] : s.key = Baseline.key
       /\ ident[d] = Baseline.client => Baseline.key \in known'[d]
       /\ cursor'[d] >= LastImport => Baseline.key \in known'[d]

LEMMA LearnsKeeps ==
  ASSUME TypeInv, FilterInv, NEW d \in Device, Learns(d)
  PROVE  FilterInv'
<1>1. /\ ident' = ident /\ minted' = minted /\ log' = log
      /\ \A p \in Waiting(d)' : p \in Waiting(d) /\ p.past \subseteq known'[d]
      /\ ~Holding(d)' /\ Closed(known'[d])
      /\ \A p \in Waiting(d)' : ~IsImport(p)
  BY DEF Learns, Holding
<1>2. /\ LastImport' = LastImport /\ Retained' = Retained /\ Baseline' = Baseline
      /\ \A P : Closed(P)' <=> Closed(P)
      /\ \A v, P : Exact(v, P)' <=> Exact(v, P)
  BY <1>1, SameLog
<1>3. ASSUME NEW e \in Device \ {d}
      PROVE  /\ Waiting(e)' = Waiting(e) /\ clock'[e] = clock[e] /\ known'[e] = known[e]
             /\ author'[e] = author[e] /\ stored'[e] = stored[e] /\ cursor'[e] = cursor[e]
             /\ Holding(e)' <=> Holding(e)
  BY DEF Learns, OthersStay
<1>4. Identities'
  BY <1>1, <1>3 DEF FilterInv, Identities
<1>5. Privacy'
  <2>1. Private(d)'
    <3>1. ASSUME NEW p \in Waiting(d)', NEW e \in Device \ {d}
          PROVE  p.key \notin known'[e] /\ \A q \in Waiting(e)' : p.key \notin q.past
      BY <1>1, <1>3 DEF FilterInv, Privacy, Private
    <3> QED
      BY <1>1, <3>1 DEF FilterInv, Privacy, Private
  <2>2. ASSUME NEW e \in Device \ {d} PROVE Private(e)'
    <3>1. ASSUME NEW p \in Waiting(e), NEW f \in Device \ {e}
          PROVE  p.key \notin known'[f] /\ \A q \in Waiting(f)' : p.key \notin q.past
      <4>1. /\ p.key \notin known[f] /\ (\A q \in Waiting(f) : p.key \notin q.past)
            /\ \A i \in 1..Len(log) : p.key \notin log[i].past
        BY DEF FilterInv, Privacy, Private
      <4>2. CASE f = d
        BY <1>1, <4>1, <4>2 DEF Learns
      <4>3. CASE f # d
        BY <1>3, <4>1, <4>3
      <4> QED
        BY <4>2, <4>3
    <3> QED
      BY <1>1, <1>3, <3>1 DEF FilterInv, Privacy, Private
  <2> QED
    BY <2>1, <2>2 DEF Privacy
<1>6. Closure'
  <2>1. ASSUME NEW e \in Device PROVE Closed(known'[e]) /\ \A p \in Waiting(e)' : Closed(p.past)
    BY <1>1, <1>3 DEF FilterInv, Closure
  <2>2. \A i \in Retained : Closed(log[i].past)
    BY DEF FilterInv, Closure
  <2> QED
    BY <1>1, <1>2, <2>1, <2>2 DEF Closure
<1>7. ASSUME NEW c \in Client, Unseen(c), ident[d] # c
      PROVE  Unseen(c)'
  <2>1. clock'[d][c] = 0
    BY <1>7 DEF Unseen, Learns
  <2>2. \A p \in Waiting(d)' : p.clock[c] = 0
    BY <1>1, <1>7 DEF Unseen
  <2> QED
    BY <1>1, <1>2, <1>3, <1>7, <2>1, <2>2 DEF Unseen
<1>8. Fresh'
  <2>1. \A c \in Client \ minted : Unseen(c)'
    BY <1>7 DEF FilterInv, Fresh, Identities
  <2>2. ASSUME NEW e \in Device, NEW c, c = ident[e], Holding(e)'
        PROVE  Unseen(c)' /\ \A i \in 1..Len(log) : log[i].client # c
    <3>1. e # d /\ Holding(e)
      BY <1>1, <1>3, <2>2
    <3>2. ident[d] # c /\ c \in Client
      BY <2>2, <3>1, WaitingType DEF FilterInv, Identities
    <3>3. Unseen(c) /\ \A i \in 1..Len(log) : log[i].client # c
      BY <2>2, <3>1 DEF FilterInv, Fresh
    <3> QED
      BY <1>7, <3>2, <3>3
  <2> QED
    BY <1>1, <2>1, <2>2 DEF Fresh, Unseen
<1>9. Holders'
  BY <1>1, <1>3 DEF FilterInv, Holders
<1>10. Exactness'
  <2> SUFFICES ASSUME LastImport # 0
               PROVE  /\ \A e \in Device : ExactAt(e)'
                      /\ \A i \in Retained : Exact(log[i].clock, log[i].past)'
    BY <1>2 DEF Exactness
  <2>1. \A e \in Device : ExactAt(e)
    BY DEF FilterInv, Exactness
  <2>2. ExactAt(d)'
    <3>1. \A p \in Waiting(d)' : Exact(p.clock, p.past)
      BY <1>1, <2>1 DEF ExactAt
    <3> QED
      BY <1>1, <1>2, <3>1 DEF ExactAt, Learns, Exact
  <2>3. ASSUME NEW e \in Device \ {d} PROVE ExactAt(e)'
    BY <1>1, <1>2, <1>3, <2>1 DEF ExactAt, Exact
  <2>4. \A i \in Retained : Exact(log[i].clock, log[i].past)'
    BY <1>1, <1>2 DEF FilterInv, Exactness, Exact
  <2> QED
    BY <2>2, <2>3, <2>4
<1> QED
  BY <1>4, <1>5, <1>6, <1>8, <1>9, <1>10 DEF FilterInv

LEMMA DropsLearns ==
  ASSUME TypeInv, FilterInv, NEW d \in Device, Drops(d)
  PROVE  Learns(d)
<1>1. /\ Waiting(d)' = {} /\ ~Holding(d) /\ OthersStay(d)
      /\ UNCHANGED <<ident, minted, clock, author, known, stored, cursor, log>>
  BY DEF Drops
<1>2. ~Holding(d)'
  BY <1>1 DEF Holding
<1> QED
  BY <1>1, <1>2 DEF Learns, FilterInv, Closure, Exactness, ExactAt

\* An operation of the device's own, and one that its import filters out, only
\* move the cursor.
LEMMA SkipLearns ==
  ASSUME TypeInv, FilterInv, NEW d \in Device, Download(d),
         log[NextPosition(d)].client = ident[d] \/ ~IsImport(log[NextPosition(d)]),
         UNCHANGED <<clock, author, known, stored>>
  PROVE  Learns(d)
<1> DEFINE i == NextPosition(d)
<1>1. /\ i \in Retained /\ i \in 1..Len(log) /\ cursor' = [cursor EXCEPT ![d] = i]
      /\ UNCHANGED <<issued, ident, minted, pending, log>> /\ ~HoldsImport(d)
  BY PositionOf DEF Download, TypeInv
<1>2. /\ \A e \in Device : (Waiting(e)' = Waiting(e)) /\ (Holding(e)' <=> Holding(e))
      /\ ~Holding(d) /\ cursor'[d] = i /\ \A e \in Device \ {d} : cursor'[e] = cursor[e]
  BY <1>1, HoldsIs DEF Waiting, Holding, TypeInv, Types
<1>3. OthersStay(d)
  BY <1>1, <1>2 DEF OthersStay
<1>4. ASSUME LastImport # 0 PROVE Baseline.key \in known[d]
  <2>1. CASE cursor[d] >= LastImport
    BY <1>2, <1>4, <2>1 DEF FilterInv, Exactness, ExactAt
  <2>2. CASE cursor[d] < LastImport
    <3>1. i = LastImport
      BY <2>2 DEF NextPosition
    <3>2. ident[d] = Baseline.client
      BY <1>4, <3>1, BaselineOf DEF Baseline
    <3> QED
      BY <1>4, <3>2 DEF FilterInv, Exactness, ExactAt
  <2>3. cursor[d] \in Nat /\ LastImport \in Nat
    BY LastImportOf DEF TypeInv, Types
  <2> QED
    BY <2>1, <2>2, <2>3
<1>5. \A p \in Waiting(d)' : p \in Waiting(d) /\ p.past \subseteq known'[d]
  BY <1>2 DEF FilterInv, Privacy, Private
<1> QED
  BY <1>1, <1>2, <1>3, <1>4, <1>5 DEF Learns, FilterInv, Closure, Exactness, ExactAt

\* A reset by the import of another client keeps its author's counter and the own.
LEMMA ResetByOther ==
  ASSUME NEW v \in Clock, NEW w \in Clock, NEW own \in Client, NEW a \in Client
  PROVE  /\ ResetByImport(v, own, a, w) \in Clock
         /\ own # a => ResetByImport(v, own, a, w)[a] = w[a]
         /\ ResetByImport(v, own, a, w)[own] >= w[own]
         /\ \A c \in Client : c # own /\ c # a => ResetByImport(v, own, a, w)[c] = 0
<1>1. Larger(v[own], w[own]) >= w[own]
  BY DEF Larger, Clock
<1> QED
  BY <1>1, ResetType

\* What a download step changes, besides what it does with the operation.
LEMMA DownloadOf ==
  ASSUME TypeInv, NEW d \in Device, Download(d)
  PROVE  LET i == NextPosition(d)
         IN  /\ i \in Retained /\ i \in 1..Len(log) /\ log[i] \in Op /\ log[i].clock \in Clock
             /\ log[i].client \in Client
             /\ cursor'[d] = i /\ \A e \in Device \ {d} : cursor'[e] = cursor[e]
             /\ \A e \in Device : (Waiting(e)' = Waiting(e)) /\ (Holding(e)' <=> Holding(e))
             /\ ~Holding(d) /\ i >= LastImport /\ (i # LastImport => cursor[d] >= LastImport)
             /\ UNCHANGED <<issued, ident, minted, pending, log>>
<1> DEFINE i == NextPosition(d)
<1>1. /\ i \in Retained /\ i \in 1..Len(log) /\ log[i] \in Op /\ i >= LastImport
      /\ cursor' = [cursor EXCEPT ![d] = i]
      /\ UNCHANGED <<issued, ident, minted, pending, log>> /\ ~HoldsImport(d)
  BY PositionOf DEF Download, TypeInv
<1>2. log[i].clock \in Clock /\ log[i].client \in Client
  BY <1>1 DEF Op
<1>3. /\ \A e \in Device : (Waiting(e)' = Waiting(e)) /\ (Holding(e)' <=> Holding(e))
      /\ ~Holding(d) /\ cursor'[d] = i /\ \A e \in Device \ {d} : cursor'[e] = cursor[e]
  BY <1>1, HoldsIs DEF Waiting, Holding, TypeInv, Types
<1>4. i # LastImport => cursor[d] >= LastImport
  <2>1. cursor[d] \in Nat /\ LastImport \in Nat
    BY LastImportOf DEF TypeInv, Types
  <2> QED
    BY <2>1 DEF NextPosition
<1> QED
  BY <1>1, <1>2, <1>3, <1>4

LEMMA ReceiveImportLearns ==
  ASSUME TypeInv, FilterInv, MaxClockSize > 1, NEW d \in Device, Download(d),
         ReceiveImport(d, NextPosition(d)), log[NextPosition(d)].client # ident[d]
  PROVE  Learns(d)
<1> DEFINE i == NextPosition(d)
           a == Baseline.client
           reset == ResetByImport(clock[d], ident[d], a, Baseline.clock)
<1>1. /\ i \in Retained /\ i \in 1..Len(log) /\ IsImport(log[i]) /\ pending[d] = <<>>
      /\ \A e \in Device : (Waiting(e)' = Waiting(e)) /\ (Holding(e)' <=> Holding(e))
      /\ ~Holding(d) /\ \A e \in Device \ {d} : cursor'[e] = cursor[e]
      /\ UNCHANGED <<issued, ident, minted, pending, log>>
  BY DownloadOf DEF ReceiveImport
<1>2. LastImport # 0 /\ i = LastImport
  <2>1. LastImport \in 0..Len(log) /\ i <= LastImport
    BY <1>1, LastImportOf DEF TypeInv
  <2>2. i >= LastImport /\ LastImport # 0
    BY <1>1, <2>1 DEF Retained
  <2> QED
    BY <1>1, <2>1, <2>2
<1>3. /\ Baseline \in Op /\ a \in Client /\ Baseline.past = {Baseline.key}
      /\ Baseline.clock \in Clock /\ Baseline.clock[a] = 1
      /\ \A c \in Client \ {a} : Baseline.clock[c] = 0
      /\ a # ident[d] /\ log[i] = Baseline /\ ident[d] \in Client /\ clock[d] \in Clock
  BY <1>2, BaselineOf, WaitingType DEF Baseline
<1>4. /\ clock' = [clock EXCEPT ![d] = BoundOwnClock(reset, ident[d], <<a>>)]
      /\ author' = [author EXCEPT ![d] = <<a>>]
      /\ known' = [known EXCEPT ![d] = Baseline.past]
      /\ stored' = [stored EXCEPT ![d] = {e \in @ : ~e.import} \cup {Entry(Baseline)}]
  BY <1>3 DEF ReceiveImport
<1>5. /\ clock'[d] = LimitClock(reset, <<ident[d]>> \o <<a>>) /\ author'[d] = <<a>>
      /\ known'[d] = {Baseline.key} /\ Entry(Baseline) \in stored'[d]
      /\ \A e \in Device \ {d} : /\ clock'[e] = clock[e] /\ author'[e] = author[e]
                                 /\ known'[e] = known[e] /\ stored'[e] = stored[e]
  BY <1>3, <1>4 DEF TypeInv, Types, BoundOwnClock
<1>6. OthersStay(d)
  BY <1>1, <1>5 DEF OthersStay
<1>7. /\ reset \in Clock /\ reset[a] = 1
      /\ \A c \in Client : c # ident[d] /\ c # a => reset[c] = 0
  <2>1. /\ reset \in Clock
        /\ ident[d] # a => reset[a] = Baseline.clock[a]
        /\ \A c \in Client : c # ident[d] /\ c # a => reset[c] = 0
    <3> DEFINE v == clock[d]
               w == Baseline.clock
               o == ident[d]
    <3>1. v \in Clock /\ w \in Clock /\ o \in Client /\ a \in Client
      BY <1>3
    <3> HIDE DEF v, w, o, a
    <3>2. ResetByImport(v, o, a, w) \in Clock
      BY <3>1, ResetByOther
    <3>3. o # a => ResetByImport(v, o, a, w)[a] = w[a]
      BY <3>1, ResetByOther
    <3>4. \A c \in Client : c # o /\ c # a => ResetByImport(v, o, a, w)[c] = 0
      BY <3>1, ResetByOther
    <3> QED
      BY <3>2, <3>3, <3>4 DEF v, w, o
  <2> HIDE DEF a, reset
  <2> QED
    BY <1>3, <2>1
<1>8. clock'[d][a] = 1
  <2> HIDE DEF reset, a
  <2> QED
    BY <1>3, <1>5, <1>7, LimitClockKeepsSecond
<1>9. ASSUME NEW c \in Client, c # ident[d], \A j \in Retained : log[j].clock[c] = 0
      PROVE  clock'[d][c] = 0
  <2>1. c # a
    BY <1>1, <1>3, <1>9
  <2>2. reset[c] = 0
    BY <1>7, <1>9, <2>1
  <2>3. clock'[d][c] <= reset[c] /\ clock'[d][c] \in Nat
    <3>1. LimitClock(reset, <<ident[d]>> \o <<a>>) \in Clock
      BY <1>7, LimitClockType
    <3>2. \A b \in Client : LimitClock(reset, <<ident[d]>> \o <<a>>)[b] \in {0, reset[b]}
      BY <1>7, LimitClockOnlyRemoves
    <3> QED
      BY <1>5, <2>2, <3>2
  <2> QED
    BY <2>2, <2>3
<1>10. Entry(Baseline).key = Baseline.key
  BY DEF Entry
<1>11. Closed({Baseline.key})
  BY <1>1, <1>2, <1>3 DEF FilterInv, Closure
<1>12. Baseline.key \in log[i].past
  BY <1>3
<1>13. Exact(clock'[d], known'[d])
  BY <1>5, <1>8 DEF Exact
<1>14. Waiting(d) = {}
  BY <1>1, HoldsIs
<1> HIDE DEF i, a
<1> QED
  BY <1>1, <1>5, <1>6, <1>9, <1>10, <1>11, <1>12, <1>13, <1>14 DEF Learns, a

LEMMA ReceiveUpdateLearns ==
  ASSUME TypeInv, FilterInv, MaxClockSize > 1, NEW d \in Device, Download(d),
         ReceiveUpdate(d, NextPosition(d))
  PROVE  Learns(d)
<1> DEFINE i == NextPosition(d)
           op == log[i]
           merged == Merge(clock[d], op.clock)
<1>1. /\ i \in Retained /\ i \in 1..Len(log) /\ op \in Op /\ op.clock \in Clock
      /\ op.client \in Client
      /\ \A e \in Device : (Waiting(e)' = Waiting(e)) /\ (Holding(e)' <=> Holding(e))
      /\ ~Holding(d) /\ \A e \in Device \ {d} : cursor'[e] = cursor[e]
      /\ i # LastImport => cursor[d] >= LastImport
      /\ UNCHANGED <<issued, ident, minted, pending, log>>
  BY DownloadOf
<1>2. /\ ~IsImport(op)
      /\ clock' = [clock EXCEPT ![d] = BoundOwnClock(merged, ident[d], author[d])]
      /\ known' = [known EXCEPT ![d] = @ \cup op.past]
      /\ stored' = [stored EXCEPT ![d] = @ \cup {Entry(op)}]
      /\ UNCHANGED author
  BY DEF ReceiveUpdate
<1>3. /\ clock'[d] = LimitClock(merged, <<ident[d]>> \o author[d]) /\ author'[d] = author[d]
      /\ known'[d] = known[d] \cup op.past /\ \A s \in stored[d] : s \in stored'[d]
      /\ \A e \in Device \ {d} : /\ clock'[e] = clock[e] /\ author'[e] = author[e]
                                 /\ known'[e] = known[e] /\ stored'[e] = stored[e]
  BY <1>2 DEF TypeInv, Types, BoundOwnClock
<1>4. OthersStay(d)
  BY <1>1, <1>3 DEF OthersStay
<1>5. /\ merged \in Clock /\ clock[d] \in Clock /\ ident[d] \in Client
      /\ \A c \in Client : merged[c] >= clock[d][c] /\ merged[c] \in {clock[d][c], op.clock[c]}
  <2>1. clock[d] \in Clock /\ ident[d] \in Client
    BY WaitingType
  <2>2. \A c \in Client : merged[c] \in {clock[d][c], op.clock[c]}
    BY DEF Merge, Larger
  <2> QED
    BY <1>1, <2>1, <2>2, MergeCovers
<1>6. ASSUME NEW c \in Client, clock[d][c] = 0, \A j \in Retained : log[j].clock[c] = 0
      PROVE  clock'[d][c] = 0
  <2>1. merged[c] = 0
    BY <1>1, <1>5, <1>6
  <2> HIDE DEF merged, op
  <2>2. LimitClock(merged, <<ident[d]>> \o author[d])[c] \in {0, merged[c]}
    BY <1>5, LimitClockOnlyRemoves
  <2> QED
    BY <1>3, <2>1, <2>2
<1>7. ASSUME LastImport # 0
      PROVE  /\ Baseline.key \in known[d] /\ clock'[d][Baseline.client] >= 1
             /\ author[d] = <<Baseline.client>> /\ \E s \in stored[d] : s.key = Baseline.key
  <2> DEFINE a == Baseline.client
  <2>1. IsImport(Baseline) /\ a \in Client
    BY <1>7, BaselineOf
  <2>2. cursor[d] >= LastImport
    BY <1>1, <1>2, <2>1 DEF Baseline
  <2>3. /\ Baseline.key \in known[d] /\ author[d] = <<a>>
        /\ \E s \in stored[d] : s.key = Baseline.key
        /\ clock[d][a] >= 1
    BY <1>1, <1>7, <2>2 DEF FilterInv, Exactness, ExactAt, Exact
  <2>4. clock'[d][a] = merged[a]
    <3> HIDE DEF merged, a
    <3> QED
      BY <1>3, <1>5, <2>1, <2>3, LimitClockKeepsSecond
  <2>5. merged[a] >= 1
    <3>1. merged[a] >= clock[d][a] /\ clock[d][a] >= 1 /\ clock[d][a] \in Nat /\ merged[a] \in Nat
      BY <1>5, <2>1, <2>3 DEF Clock
    <3> HIDE DEF merged, a
    <3> QED
      BY <3>1
  <2> QED
    BY <2>3, <2>4, <2>5
<1>8. Closed(known'[d])
  <2>1. Closed(known[d]) /\ Closed(op.past)
    BY <1>1 DEF FilterInv, Closure
  <2> QED
    BY <1>3, <2>1 DEF Closed
<1>9. \A p \in Waiting(d)' : p \in Waiting(d) /\ p.past \subseteq known'[d]
  BY <1>1, <1>3 DEF FilterInv, Privacy, Private
<1>10. LastImport # 0 => Exact(clock'[d], known'[d])
  BY <1>3, <1>7 DEF Exact
<1>11. \A x \in known'[d] : x \in known[d] \/ \E j \in 1..Len(log) : x \in log[j].past
  BY <1>1, <1>3
<1> HIDE DEF i, op, merged
<1> QED
  BY <1>1, <1>3, <1>4, <1>6, <1>7, <1>8, <1>9, <1>10, <1>11 DEF Learns

LEMMA UseRemoteLearns ==
  ASSUME TypeInv, FilterInv, MaxClockSize > 1, NEW d \in Device, UseRemote(d)
  PROVE  Learns(d)
<1> DEFINE own == ident[d]
           a == Baseline.client
<1>1. /\ Retained # {}
      /\ clock' = [clock EXCEPT ![d] = BoundOwnClock(RebuiltClock(d), own, ServerAuthor)]
      /\ author' = [author EXCEPT ![d] = ServerAuthor]
      /\ known' = [known EXCEPT ![d] = UNION {log[i].past : i \in Replayed}]
      /\ stored' = [stored EXCEPT ![d] = {Entry(log[i]) : i \in Replayed}]
      /\ pending' = [pending EXCEPT ![d] = <<>>]
      /\ cursor' = [cursor EXCEPT ![d] = Len(log)]
      /\ UNCHANGED <<issued, ident, minted, log>>
  BY UseRemoteOf
<1>2. /\ clock'[d] = LimitClock(RebuiltClock(d), <<own>> \o ServerAuthor)
      /\ author'[d] = ServerAuthor
      /\ known'[d] = UNION {log[i].past : i \in Replayed}
      /\ stored'[d] = {Entry(log[i]) : i \in Replayed} /\ pending'[d] = <<>>
      /\ \A e \in Device \ {d} :
           /\ clock'[e] = clock[e] /\ author'[e] = author[e] /\ known'[e] = known[e]
           /\ stored'[e] = stored[e] /\ pending'[e] = pending[e] /\ cursor'[e] = cursor[e]
  BY <1>1 DEF TypeInv, Types, BoundOwnClock
<1>3. /\ Waiting(d)' = {} /\ ~Holding(d)'
      /\ \A e \in Device \ {d} : (Waiting(e)' = Waiting(e)) /\ (Holding(e)' <=> Holding(e))
  BY <1>2 DEF Waiting, Holding
<1>4. OthersStay(d)
  BY <1>1, <1>2, <1>3 DEF OthersStay
<1>5. /\ Rebuilt \in Clock /\ RebuiltBaseline(d) \in Clock /\ RebuiltClock(d) \in Clock
      /\ \A c \in Client : \E i \in Retained : Rebuilt[c] = log[i].clock[c]
      /\ \A c \in Client : RebuiltBaseline(d)[c] <= RebuiltClock(d)[c]
      /\ \A c \in Client : \/ RebuiltClock(d)[c] = RebuiltBaseline(d)[c]
                           \/ \E i \in Replayed \ {LastImport} : RebuiltClock(d)[c] = log[i].clock[c]
      /\ own \in Client /\ Replayed \subseteq Retained /\ Retained \subseteq 1..Len(log)
  BY <1>1, RebuiltTypes, WaitingType DEF TypeInv, Replayed
<1>6. ASSUME LastImport # 0
      PROVE  /\ LastImport \in Replayed /\ ServerAuthor = <<a>> /\ a \in Client
             /\ Baseline.clock \in Clock /\ Baseline.clock[a] = 1
             /\ \A c \in Client \ {a} : Baseline.clock[c] = 0
             /\ Baseline.key \in known'[d] /\ \E s \in stored'[d] : s.key = Baseline.key
             /\ RebuiltBaseline(d) = ResetByImport(Rebuilt, own, a, Baseline.clock)
             /\ log[LastImport] = Baseline /\ LastImport \in Retained
  <2>1. /\ LastImport \in Retained /\ IsBackup(Baseline) /\ a \in Client
        /\ Baseline.past = {Baseline.key} /\ Baseline.clock \in Clock /\ Baseline.clock[a] = 1
        /\ \A c \in Client \ {a} : Baseline.clock[c] = 0
    BY <1>6, BaselineOf
  <2>2. SurvivesImport(a, Baseline.clock, a, Increment(EmptyClock, a))
    <3> HIDE DEF a
    <3> QED
      BY <2>1, SurvivesBaseline
  <2>3. LastImport \in Replayed
    BY <2>1, <2>2 DEF Replayed, SurvivesLatest, Baseline, IsBackup
  <2>4. Baseline.key \in known'[d] /\ \E s \in stored'[d] : s.key = Baseline.key
    <3>1. Baseline.key \in Baseline.past /\ Baseline = log[LastImport]
      BY <2>1 DEF Baseline
    <3>2. Entry(log[LastImport]).key = Baseline.key
      BY <3>1 DEF Entry
    <3>3. Entry(log[LastImport]) \in stored'[d]
      BY <1>2, <2>3
    <3> QED
      BY <1>2, <2>3, <3>1, <3>2, <3>3
  <2> QED
    BY <1>6, <2>1, <2>3, <2>4 DEF ServerAuthor, RebuiltBaseline, Baseline
<1>7. ASSUME LastImport # 0
      PROVE  /\ own # a => RebuiltBaseline(d)[a] = 1
             /\ own = a => RebuiltBaseline(d)[a] >= 1
             /\ \A c \in Client : c # own /\ c # a => RebuiltBaseline(d)[c] = 0
  <2> DEFINE reset == ResetByImport(Rebuilt, own, a, Baseline.clock)
  <2>1. Baseline.clock \in Clock /\ a \in Client /\ own \in Client /\ Rebuilt \in Clock
        /\ Baseline.clock[a] = 1 /\ RebuiltBaseline(d) = reset
    BY <1>5, <1>6, <1>7
  <2>2. /\ own # a => reset[a] = Baseline.clock[a]
        /\ reset[own] >= Baseline.clock[own]
        /\ \A c \in Client : c # own /\ c # a => reset[c] = 0
    <3> DEFINE w == Baseline.clock
    <3> HIDE DEF w, a, own
    <3>1. w \in Clock /\ a \in Client /\ own \in Client /\ Rebuilt \in Clock
      BY <2>1 DEF w
    <3>2. own # a => ResetByImport(Rebuilt, own, a, w)[a] = w[a]
      BY <3>1, ResetByOther
    <3>3. ResetByImport(Rebuilt, own, a, w)[own] >= w[own]
      BY <3>1, ResetByOther
    <3>4. \A c \in Client : c # own /\ c # a => ResetByImport(Rebuilt, own, a, w)[c] = 0
      BY <3>1, ResetByOther
    <3> QED
      BY <3>2, <3>3, <3>4 DEF w
  <2> HIDE DEF a, own, reset
  <2> QED
    BY <2>1, <2>2
<1>8. ASSUME NEW c \in Client, c # own, \A j \in Retained : log[j].clock[c] = 0
      PROVE  clock'[d][c] = 0
  <2>1. RebuiltBaseline(d)[c] = 0
    <3>1. CASE LastImport = 0
      BY <1>5, <1>8, <3>1 DEF RebuiltBaseline
    <3>2. CASE LastImport # 0
      <4>1. c # a
        BY <1>6, <1>8, <3>2
      <4> QED
        BY <1>7, <1>8, <3>2, <4>1
    <3> QED
      BY <3>1, <3>2
  <2>2. RebuiltClock(d)[c] = 0
    BY <1>5, <1>8, <2>1
  <2>3. LimitClock(RebuiltClock(d), <<own>> \o ServerAuthor)[c] \in {0, RebuiltClock(d)[c]}
    BY <1>5, LimitClockOnlyRemoves
  <2> QED
    BY <1>2, <2>2, <2>3
<1>9. ASSUME LastImport # 0 PROVE clock'[d][a] >= 1
  <2>1. RebuiltBaseline(d)[a] >= 1
    BY <1>7, <1>9
  <2>2. RebuiltClock(d)[a] >= 1
    <3>1. /\ RebuiltBaseline(d)[a] <= RebuiltClock(d)[a]
          /\ RebuiltBaseline(d)[a] \in Nat /\ RebuiltClock(d)[a] \in Nat
      BY <1>5, <1>6, <1>9 DEF Clock
    <3> HIDE DEF a
    <3> QED
      BY <2>1, <3>1
  <2>3. LimitClock(RebuiltClock(d), <<own>> \o <<a>>)[a] = RebuiltClock(d)[a]
    <3> HIDE DEF a, own
    <3> QED
      BY <1>5, <1>6, <1>9, LimitClockKeepsSecond
  <2> QED
    BY <1>2, <1>6, <1>9, <2>2, <2>3
<1>10. Closed(known'[d])
  <2>1. \A i \in Replayed : Closed(log[i].past)
    BY <1>5 DEF FilterInv, Closure
  <2> QED
    BY <1>2, <2>1 DEF Closed
<1>11. LastImport # 0 => Exact(clock'[d], known'[d])
  BY <1>6, <1>9 DEF Exact
<1>12. \A x \in known'[d] : \E j \in 1..Len(log) : x \in log[j].past
  BY <1>2, <1>5
<1>13. LastImport # 0 => /\ author'[d] = <<Baseline.client>> /\ Baseline.key \in known'[d]
                         /\ \E s \in stored'[d] : s.key = Baseline.key
  BY <1>2, <1>6
<1> QED
  BY <1>1, <1>3, <1>4, <1>8, <1>10, <1>11, <1>12, <1>13 DEF Learns

-----------------------------------------------------------------------------
(* A restored backup *)

LEMMA BackupKeeps ==
  ASSUME TypeInv, FilterInv, NEW d \in Device, NEW id \in Client, BackupImport(d, id)
  PROVE  FilterInv'
<1> DEFINE op == NewOp(id, "BACKUP_IMPORT", CHOOSE e \in Entity : TRUE,
                       Increment(EmptyClock, id), {})
<1>1. /\ id \notin minted
      /\ ident' = [ident EXCEPT ![d] = id]
      /\ minted' = minted \cup {id}
      /\ pending' = [pending EXCEPT ![d] = <<op>>]
      /\ clock' = [clock EXCEPT ![d] = op.clock]
      /\ known' = [known EXCEPT ![d] = {op.key}]
      /\ stored' = [stored EXCEPT ![d] = {Entry(op)}]
      /\ author' = [author EXCEPT ![d] = <<id>>]
      /\ UNCHANGED <<cursor, log>>
  BY DEF BackupImport
<1>2. /\ op.key = NewKey /\ op.past = {NewKey} /\ Entry(op).key = NewKey /\ op.client = id
      /\ IsImport(op) /\ IsBackup(op) /\ op.clock = Increment(EmptyClock, id)
  BY NewOpFields DEF IsImport, ImportKinds, IsBackup
<1>3. op.clock[id] = 1 /\ \A c \in Client \ {id} : op.clock[c] = 0
  <2> HIDE DEF op
  <2> QED
    BY <1>2, BaselineClock
<1> HIDE DEF op
<1>4. Waiting(d)' = {op} /\ \A e \in Device \ {d} : Waiting(e)' = Waiting(e)
  BY <1>1, AloneWaits
<1>5. Holding(d)' /\ \A e \in Device \ {d} : Holding(e)' <=> Holding(e)
  BY <1>2, <1>4 DEF Holding
<1>6. /\ ident'[d] = id /\ clock'[d] = op.clock /\ known'[d] = {NewKey}
      /\ stored'[d] = {Entry(op)} /\ author'[d] = <<id>>
      /\ \A e \in Device \ {d} :
           /\ ident'[e] = ident[e] /\ clock'[e] = clock[e] /\ known'[e] = known[e]
           /\ stored'[e] = stored[e] /\ author'[e] = author[e]
  BY <1>1, <1>2 DEF TypeInv, Types
<1>7. /\ LastImport' = LastImport /\ Retained' = Retained /\ Baseline' = Baseline
      /\ \A P : Closed(P)' <=> Closed(P)
      /\ \A v, P : Exact(v, P)' <=> Exact(v, P)
  BY <1>1, SameLog
<1>8. \A e \in Device : ident[e] \in minted /\ ident[e] # id
  BY <1>1 DEF FilterInv, Identities
<1>9. Identities'
  <2>1. \A e \in Device : ident'[e] \in minted'
    BY <1>1, <1>6, <1>8
  <2>2. \A e, f \in Device : ident'[e] = ident'[f] => e = f
    BY <1>6, <1>8 DEF FilterInv, Identities
  <2>3. ASSUME NEW e \in Device
        PROVE  /\ \A p, q \in Waiting(e)' : p = q
               /\ \A p \in Waiting(e)' : p.client = ident'[e]
               /\ \A p \in Waiting(e)' : IsImport(p) => IsBackup(p)
    BY <1>2, <1>4, <1>6 DEF FilterInv, Identities
  <2>4. /\ \A i \in 1..Len(log) : log[i].client \in minted'
        /\ \A i \in 1..Len(log) : IsImport(log[i]) => IsBackup(log[i])
    BY <1>1 DEF FilterInv, Identities
  <2> QED
    BY <1>1, <2>1, <2>2, <2>3, <2>4 DEF Identities
<1>10. Privacy'
  <2>1. Private(d)'
    BY <1>1, <1>2, <1>4, <1>6, NewKeyIsNew DEF Private
  <2>2. ASSUME NEW e \in Device \ {d} PROVE Private(e)'
    <3>1. \A p \in Waiting(e) : p.key # NewKey
      BY NewKeyIsNew
    <3>2. ASSUME NEW p \in Waiting(e), NEW f \in Device \ {e}
          PROVE  p.key \notin known'[f] /\ \A q \in Waiting(f)' : p.key \notin q.past
      <4>1. CASE f = d
        BY <1>2, <1>4, <1>6, <3>1, <4>1
      <4>2. CASE f # d
        BY <1>4, <1>6, <4>2 DEF FilterInv, Privacy, Private
      <4> QED
        BY <4>1, <4>2
    <3> QED
      BY <1>1, <1>4, <1>6, <3>2 DEF FilterInv, Privacy, Private
  <2> QED
    BY <2>1, <2>2 DEF Privacy
<1>11. Closure'
  <2>1. Closed({NewKey})
    BY NewKeyIsNew, WaitingType DEF Closed
  <2>2. ASSUME NEW e \in Device PROVE Closed(known'[e]) /\ \A p \in Waiting(e)' : Closed(p.past)
    BY <1>2, <1>4, <1>6, <2>1 DEF FilterInv, Closure
  <2>3. \A i \in Retained : Closed(log[i].past)
    BY DEF FilterInv, Closure
  <2> QED
    BY <1>1, <1>7, <2>2, <2>3 DEF Closure
<1>12. Holders'
  BY <1>2, <1>4, <1>6 DEF FilterInv, Holders
<1>13. ASSUME NEW c \in Client, Unseen(c), c # id, ident[d] # c \/ c = id
       PROVE  Unseen(c)'
  <2>1. clock'[d][c] = 0 /\ \A p \in Waiting(d)' : p.clock[c] = 0
    BY <1>3, <1>4, <1>6, <1>13
  <2> QED
    BY <1>1, <1>4, <1>6, <1>7, <1>13, <2>1 DEF Unseen
<1>14. Fresh'
  <2>1. \A c \in Client \ minted' : Unseen(c)'
    BY <1>1, <1>8, <1>13 DEF FilterInv, Fresh
  <2>2. ASSUME NEW e \in Device, NEW c, c = ident'[e], Holding(e)'
        PROVE  Unseen(c)' /\ \A i \in 1..Len(log) : log[i].client # c
    <3>1. CASE e = d
      <4>1. c = id /\ Unseen(id)
        BY <1>1, <1>6, <2>2, <3>1 DEF FilterInv, Fresh
      <4>2. ASSUME NEW f \in Device, ident'[f] # id
            PROVE  clock'[f][id] = 0 /\ \A p \in Waiting(f)' : p.clock[id] = 0
        <5>1. f # d
          BY <1>6, <4>2
        <5> QED
          BY <1>4, <1>6, <1>8, <4>1, <5>1 DEF Unseen
      <4>3. \A i \in Retained : log[i].clock[id] = 0
        BY <4>1 DEF Unseen
      <4>4. Unseen(c)'
        BY <1>1, <1>7, <4>1, <4>2, <4>3 DEF Unseen
      <4> QED
        BY <1>1, <4>1, <4>4 DEF FilterInv, Identities
    <3>2. CASE e # d
      <4>1. c = ident[e] /\ Holding(e) /\ c # ident[d] /\ c # id /\ c \in Client
        BY <1>5, <1>6, <1>8, <2>2, <3>2, WaitingType DEF FilterInv, Identities
      <4>2. Unseen(c) /\ \A i \in 1..Len(log) : log[i].client # c
        BY <4>1 DEF FilterInv, Fresh
      <4> QED
        BY <1>13, <4>1, <4>2
    <3> QED
      BY <3>1, <3>2
  <2> QED
    BY <1>1, <2>1, <2>2 DEF Fresh, Unseen
<1>15. Exactness'
  <2> SUFFICES ASSUME LastImport # 0
               PROVE  /\ \A e \in Device : ExactAt(e)'
                      /\ \A i \in Retained : Exact(log[i].clock, log[i].past)'
    BY <1>7 DEF Exactness
  <2>1. /\ Baseline.client \in minted /\ Baseline.client \in Client
        /\ Baseline.client # id /\ Baseline.key # NewKey
    <3>1. LastImport \in 1..Len(log)
      BY BaselineOf
    <3> QED
      BY <1>1, <3>1, BaselineOf, NewKeyIsNew DEF Baseline
  <2>2. op.clock[Baseline.client] = 0 /\ Baseline.key \notin {NewKey}
    BY <1>3, <2>1
  <2>3. ExactAt(d)'
    <3>2. \A p \in Waiting(d)' : Exact(p.clock, p.past)
      BY <1>2, <1>4, <1>7, <2>2 DEF Exact
    <3> QED
      BY <1>2, <1>4, <1>5, <1>6, <1>7, <2>1, <2>2, <3>2 DEF ExactAt, Exact
  <2>4. \A e \in Device : ExactAt(e)
    BY DEF FilterInv, Exactness
  <2>5. ASSUME NEW e \in Device \ {d} PROVE ExactAt(e)'
    BY <1>1, <1>4, <1>5, <1>6, <1>7, <2>4 DEF ExactAt, Exact
  <2>6. \A i \in Retained : Exact(log[i].clock, log[i].past)'
    BY <1>1, <1>7 DEF FilterInv, Exactness, Exact
  <2> QED
    BY <2>3, <2>5, <2>6
<1> QED
  BY <1>9, <1>10, <1>11, <1>12, <1>14, <1>15 DEF FilterInv

-----------------------------------------------------------------------------
(* Uploads *)

\* What the server keeps of a clock: the uploader's entry, the entry of the latest
\* import's author, and never more than there was.
LEMMA StoredClockOf ==
  ASSUME Types, NEW op \in Op, ~IsImport(op)
  PROVE  /\ StoredClock(op) \in Clock
         /\ StoredClock(op)[op.client] = op.clock[op.client]
         /\ \A c \in Client : StoredClock(op)[c] \in {0, op.clock[c]}
         /\ (MaxClockSize > 1 /\ LastImport # 0) =>
              StoredClock(op)[Baseline.client] = op.clock[Baseline.client]
<1> DEFINE v == op.clock
           w == op.client
           a == Baseline.client
<1>1. v \in Clock /\ w \in Client /\ ServerAuthor \in Seq(Client)
  <2>1. v \in Clock /\ w \in Client
    BY DEF Op
  <2>2. ServerAuthor = <<>> \/ \E c \in Client : ServerAuthor = <<c>>
    BY ServerAuthorType
  <2>3. <<>> \in Seq(Client) /\ \A c \in Client : <<c>> \in Seq(Client)
    OBVIOUS
  <2>4. ServerAuthor \in Seq(Client)
    BY <2>2, <2>3
  <2> QED
    BY <2>1, <2>4
<1>2. StoredClock(op) = LimitClock(v, <<w>> \o ServerAuthor)
  BY DEF StoredClock
<1>3. LastImport # 0 => ServerAuthor = <<a>> /\ a \in Client
  <2>1. LastImport # 0 => log[LastImport] \in Op
    BY LastImportOf DEF Types
  <2> QED
    BY <2>1 DEF ServerAuthor, Baseline, Op
<1> HIDE DEF v, w, a
<1>4. LimitClock(v, <<w>> \o ServerAuthor) \in Clock
  BY <1>1, LimitClockType
<1>5. LimitClock(v, <<w>> \o ServerAuthor)[w] = v[w]
  BY <1>1, LimitClockKeepsFirst
<1>6. \A c \in Client : LimitClock(v, <<w>> \o ServerAuthor)[c] \in {0, v[c]}
  BY <1>1, LimitClockOnlyRemoves
<1>7. (MaxClockSize > 1 /\ LastImport # 0) => LimitClock(v, <<w>> \o ServerAuthor)[a] = v[a]
  BY <1>1, <1>3, LimitClockKeepsSecond
<1> QED
  BY <1>2, <1>4, <1>5, <1>6, <1>7 DEF v, w, a

LEMMA UploadUpdateKeeps ==
  ASSUME TypeInv, FilterInv, MaxClockSize > 1, NEW d \in Device, Upload(d),
         ~IsImport(Head(pending[d]))
  PROVE  FilterInv'
<1> DEFINE op == Head(pending[d])
           row == [op EXCEPT !.clock = StoredClock(op)]
           n == Len(log) + 1
<1>1. /\ op \in Op /\ op \in Waiting(d) /\ row \in Op
      /\ row.key = op.key /\ row.past = op.past /\ row.client = op.client
      /\ row.kind = op.kind /\ row.clock = StoredClock(op)
      /\ log' = Append(log, row) /\ Len(log') = n /\ Len(log) \in Nat
      /\ log'[n] = row
      /\ \A i \in 1..Len(log) : log'[i] = log[i]
      /\ \A p \in Waiting(d)' : p \in Waiting(d) /\ p.key # op.key
      /\ \A e \in Device \ {d} : (Waiting(e)' = Waiting(e)) /\ cursor'[e] = cursor[e]
      /\ cursor'[d] = cursor[d]
      /\ UNCHANGED <<issued, ident, minted, clock, author, known, stored>>
  BY UploadOf
<1>2. ~IsImport(op) /\ ~IsImport(row)
  BY <1>1 DEF IsImport
<1> HIDE DEF op, row
<1>3. /\ \A p \in Waiting(d) : p = op
      /\ Waiting(d)' = {} /\ ~Holding(d) /\ ~Holding(d)' /\ op.client = ident[d]
  <2>1. (\A p \in Waiting(d) : p = op) /\ op.client = ident[d]
    BY <1>1 DEF FilterInv, Identities
  <2>2. Waiting(d)' = {}
    BY <1>1, <2>1
  <2> QED
    BY <1>2, <2>1, <2>2 DEF Holding
<1>4. \A e \in Device \ {d} : Holding(e)' <=> Holding(e)
  BY <1>1 DEF Holding
<1>5. LastImport' = LastImport /\ Retained' = Retained \cup {n} /\ n \notin Retained
  BY <1>1, <1>2, AppendedUpdate DEF TypeInv
<1>6. /\ \A i \in 1..Len(log') : i = n \/ i \in 1..Len(log)
      /\ \A i \in Retained : i \in 1..Len(log) /\ log'[i] = log[i]
  BY <1>1 DEF Retained
<1>7. /\ row.clock \in Clock /\ \A c \in Client : row.clock[c] \in {0, op.clock[c]}
      /\ LastImport # 0 => row.clock[Baseline.client] = op.clock[Baseline.client]
  BY <1>1, <1>2, StoredClockOf DEF TypeInv
<1>8. Private(d)
  BY DEF FilterInv, Privacy
<1>9. Identities'
  <2>1. ASSUME NEW e \in Device
        PROVE  /\ \A p, q \in Waiting(e)' : p = q
               /\ \A p \in Waiting(e)' : p.client = ident[e]
               /\ \A p \in Waiting(e)' : IsImport(p) => IsBackup(p)
    BY <1>1, <1>3 DEF FilterInv, Identities
  <2>2. ASSUME NEW i \in 1..Len(log')
        PROVE  log'[i].client \in minted /\ (IsImport(log'[i]) => IsBackup(log'[i]))
    BY <1>1, <1>2, <1>3, <1>6 DEF FilterInv, Identities
  <2>3. /\ \A e \in Device : ident[e] \in minted
        /\ \A e, f \in Device : ident[e] = ident[f] => e = f
    BY DEF FilterInv, Identities
  <2> QED
    BY <1>1, <2>1, <2>2, <2>3 DEF Identities
<1>10. Privacy'
  <2>1. Private(d)'
    BY <1>3 DEF Private
  <2>2. ASSUME NEW e \in Device \ {d} PROVE Private(e)'
    <3>1. \A p \in Waiting(e) : p.key \notin op.past
      BY <1>1, <1>8 DEF FilterInv, Privacy, Private
    <3>2. \A p \in Waiting(e) : \A i \in 1..Len(log') : p.key \notin log'[i].past
      BY <1>1, <1>6, <3>1 DEF FilterInv, Privacy, Private
    <3>3. ASSUME NEW p \in Waiting(e), NEW f \in Device \ {e}
          PROVE  p.key \notin known[f] /\ \A q \in Waiting(f)' : p.key \notin q.past
      BY <1>1, <1>3 DEF FilterInv, Privacy, Private
    <3>4. \A p \in Waiting(e) : p.past \subseteq known[e]
      BY DEF FilterInv, Privacy, Private
    <3> QED
      BY <1>1, <3>2, <3>3, <3>4 DEF Private
  <2> QED
    BY <2>1, <2>2 DEF Privacy
<1>11. \A P : Closed(P)' <=> Closed(P) /\ (op.key \in P => op.past \subseteq P)
  <2>1. ASSUME NEW P
        PROVE  (\A j \in Retained' : log'[j].key \in P => log'[j].past \subseteq P)
                 <=> /\ \A j \in Retained : log[j].key \in P => log[j].past \subseteq P
                     /\ op.key \in P => op.past \subseteq P
    BY <1>1, <1>5, <1>6
  <2> QED
    BY <2>1 DEF Closed
<1>12. Closure'
  <2>1. ASSUME NEW e \in Device
        PROVE  Closed(known[e])' /\ \A p \in Waiting(e)' : Closed(p.past)'
    <3>1. CASE e = d
      <4>1. Closed(known[d]) /\ op.past \subseteq known[d]
        BY <1>1, <1>8 DEF FilterInv, Closure, Private
      <4> QED
        BY <1>1, <1>3, <1>11, <3>1, <4>1 DEF Closed
    <3>2. CASE e # d
      <4>1. op.key \notin known[e] /\ \A p \in Waiting(e) : op.key \notin p.past
        BY <1>1, <1>8, <3>2 DEF Private
      <4>2. Closed(known[e]) /\ \A p \in Waiting(e) : Closed(p.past)
        BY DEF FilterInv, Closure
      <4>3. \A P : Closed(P) /\ op.key \notin P => Closed(P)'
        BY <1>11
      <4>4. \A j \in Retained' : log'[j].key \in known[e] => log'[j].past \subseteq known[e]
        BY <4>1, <4>2, <4>3 DEF Closed
      <4> QED
        BY ZenonT(40), <1>1, <3>2, <4>1, <4>2, <4>3, <4>4 DEF Closed
    <3> QED
      BY <3>1, <3>2
  <2>2. ASSUME NEW i \in Retained', NEW P, P = log'[i].past PROVE Closed(P)'
    <3>1. CASE i = n
      <4>1. Closed(op.past)
        BY <1>1 DEF FilterInv, Closure
      <4> QED
        BY <1>1, <1>11, <2>2, <3>1, <4>1
    <3>2. CASE i \in Retained
      <4>1. P = log[i].past /\ Closed(P)
        BY <1>6, <2>2, <3>2 DEF FilterInv, Closure
      <4>2. op.key \notin P
        BY <1>1, <1>6, <1>8, <3>2, <4>1 DEF Private
      <4> QED
        BY <1>11, <4>1, <4>2
    <3> QED
      BY <1>5, <3>1, <3>2
  <2> QED
    BY <2>1, <2>2 DEF Closure, Closed
<1>13. ASSUME NEW c \in Client, Unseen(c), ident[d] # c
       PROVE  Unseen(c)'
  <2>1. row.clock[c] = 0
    BY <1>1, <1>7, <1>13 DEF Unseen
  <2>2. \A i \in Retained' : log'[i].clock[c] = 0
    BY <1>1, <1>5, <1>6, <1>13, <2>1 DEF Unseen
  <2>3. \A e \in Device : ident[e] # c => \A p \in Waiting(e)' : p.clock[c] = 0
    BY <1>1, <1>3, <1>13 DEF Unseen
  <2>4. \A e \in Device : ident[e] # c => clock[e][c] = 0
    BY <1>13 DEF Unseen
  <2> QED
    BY <1>1, <2>2, <2>3, <2>4 DEF Unseen
<1>14. Fresh'
  <2>1. \A c \in Client \ minted : Unseen(c)'
    BY <1>13 DEF FilterInv, Fresh, Identities
  <2>2. ASSUME NEW e \in Device, NEW c, c = ident[e], Holding(e)'
        PROVE  Unseen(c)' /\ \A i \in 1..Len(log') : log'[i].client # c
    <3>1. e # d /\ Holding(e)
      BY <1>3, <1>4, <2>2
    <3>2. ident[d] # c /\ c \in Client
      BY <2>2, <3>1, WaitingType DEF FilterInv, Identities
    <3>3. Unseen(c) /\ \A i \in 1..Len(log) : log[i].client # c
      BY <2>2, <3>1 DEF FilterInv, Fresh
    <3>4. \A i \in 1..Len(log') : log'[i].client # c
      BY <1>1, <1>3, <1>6, <3>2, <3>3
    <3> QED
      BY <1>13, <3>2, <3>3, <3>4
  <2> QED
    BY ZenonT(40), <1>1, <2>1, <2>2 DEF Fresh, Unseen
<1>15. Holders'
  BY <1>1, <1>3 DEF FilterInv, Holders
<1>16. Exactness'
  <2> SUFFICES ASSUME LastImport # 0
               PROVE  /\ \A e \in Device : ExactAt(e)'
                      /\ \A i \in Retained' : Exact(log[i].clock, log[i].past)'
    BY <1>5 DEF Exactness
  <2>1. Baseline' = Baseline
    BY <1>5, <1>6, BaselineOf DEF Baseline
  <2>2. \A v, P : Exact(v, P)' <=> Exact(v, P)
    BY <2>1 DEF Exact
  <2>3. (\A e \in Device : ExactAt(e)) /\ \A i \in Retained : Exact(log[i].clock, log[i].past)
    BY DEF FilterInv, Exactness
  <2>4. ASSUME NEW e \in Device PROVE ExactAt(e)'
    <3>1. /\ \A p \in Waiting(e)' : p \in Waiting(e)
          /\ cursor'[e] = cursor[e] /\ (~Holding(e)' => ~Holding(e))
      BY <1>1, <1>3, <1>4
    <3>2. \A p \in Waiting(e)' : Exact(p.clock, p.past)
      BY <2>3, <3>1 DEF ExactAt
    <3> QED
      BY <1>1, <1>5, <2>1, <2>2, <2>3, <3>1, <3>2 DEF ExactAt, Exact
  <2>5. Exact(row.clock, row.past)
    <3>1. Exact(op.clock, op.past)
      BY <1>1, <2>3 DEF ExactAt
    <3> QED
      BY <1>1, <1>7, <3>1 DEF Exact
  <2>6. \A i \in Retained' : Exact(log[i].clock, log[i].past)'
    BY <1>1, <1>5, <1>6, <2>1, <2>3, <2>5 DEF Exact
  <2> QED
    BY <2>4, <2>6
<1> QED
  BY <1>9, <1>10, <1>12, <1>14, <1>15, <1>16 DEF FilterInv

LEMMA UploadImportKeeps ==
  ASSUME TypeInv, FilterInv, NEW d \in Device, Upload(d), IsImport(Head(pending[d]))
  PROVE  FilterInv'
<1> DEFINE op == Head(pending[d])
           row == [op EXCEPT !.clock = StoredClock(op)]
           n == Len(log) + 1
<1>1. /\ op \in Op /\ op \in Waiting(d) /\ row \in Op
      /\ row.key = op.key /\ row.past = op.past /\ row.client = op.client
      /\ row.kind = op.kind /\ row.clock = StoredClock(op)
      /\ log' = Append(log, row) /\ Len(log') = n /\ Len(log) \in Nat
      /\ log'[n] = row
      /\ \A i \in 1..Len(log) : log'[i] = log[i]
      /\ \A p \in Waiting(d)' : p \in Waiting(d) /\ p.key # op.key
      /\ \A e \in Device \ {d} : (Waiting(e)' = Waiting(e)) /\ cursor'[e] = cursor[e]
      /\ cursor'[d] = n
      /\ UNCHANGED <<issued, ident, minted, clock, author, known, stored>>
  BY UploadOf
<1>2. IsImport(op) /\ IsImport(row)
  BY <1>1 DEF IsImport
<1>3. StoredClock(op) = LimitClock(op.clock, <<op.client>> \o <<>>)
  BY <1>2 DEF StoredClock
<1> HIDE DEF op, row
<1>4. /\ \A p \in Waiting(d) : p = op
      /\ Waiting(d)' = {} /\ Holding(d) /\ ~Holding(d)'
      /\ op.client = ident[d] /\ IsBackup(op)
  <2>1. (\A p \in Waiting(d) : p = op) /\ op.client = ident[d] /\ IsBackup(op)
    BY <1>1, <1>2 DEF FilterInv, Identities
  <2>2. Waiting(d)' = {}
    BY <1>1, <2>1
  <2> QED
    BY <1>1, <1>2, <2>1, <2>2 DEF Holding
<1>5. \A e \in Device \ {d} : Holding(e)' <=> Holding(e)
  BY <1>1 DEF Holding
<1>6. LastImport' = n /\ Retained' = {n} /\ Baseline' = row /\ n # 0
  <2>1. LastImport' = n /\ Retained' = {n}
    BY <1>1, <1>2, AppendedImport DEF TypeInv
  <2> QED
    BY <1>1, <2>1 DEF Baseline
<1>7. \A i \in 1..Len(log') : i = n \/ i \in 1..Len(log)
  BY <1>1
<1>8. /\ row.clock = op.clock /\ op.clock[op.client] = 1
      /\ \A c \in Client \ {op.client} : op.clock[c] = 0
      /\ op.past = {op.key} /\ IsBackup(row) /\ op.client \in Client
  <2>1. op.client \in Client /\ op.past = {op.key} /\ op.clock = Increment(EmptyClock, op.client)
    BY <1>1, <1>4 DEF IsBackup, Op
  <2>2. /\ op.clock[op.client] = 1
        /\ \A c \in Client \ {op.client} : op.clock[c] = 0
        /\ row.clock = op.clock
    BY <1>1, <1>3, <2>1, BaselineClock
  <2> QED
    BY <1>1, <1>4, <2>1, <2>2 DEF IsBackup
<1>9. Private(d)
  BY DEF FilterInv, Privacy
<1>10. Identities'
  <2>1. ASSUME NEW e \in Device
        PROVE  /\ \A p, q \in Waiting(e)' : p = q
               /\ \A p \in Waiting(e)' : p.client = ident[e]
               /\ \A p \in Waiting(e)' : IsImport(p) => IsBackup(p)
    BY <1>1, <1>4 DEF FilterInv, Identities
  <2>2. ASSUME NEW i \in 1..Len(log')
        PROVE  log'[i].client \in minted /\ (IsImport(log'[i]) => IsBackup(log'[i]))
    BY <1>1, <1>4, <1>7, <1>8 DEF FilterInv, Identities
  <2>3. /\ \A e \in Device : ident[e] \in minted
        /\ \A e, f \in Device : ident[e] = ident[f] => e = f
    BY DEF FilterInv, Identities
  <2> QED
    BY <1>1, <2>1, <2>2, <2>3 DEF Identities
<1>11. Privacy'
  <2>1. Private(d)'
    BY <1>4 DEF Private
  <2>2. ASSUME NEW e \in Device \ {d} PROVE Private(e)'
    <3>1. \A p \in Waiting(e) : p.key # op.key
      BY <1>1 DEF TypeInv, Names
    <3>2. \A p \in Waiting(e) : \A i \in 1..Len(log') : p.key \notin log'[i].past
      BY <1>1, <1>7, <1>8, <3>1 DEF FilterInv, Privacy, Private
    <3>3. ASSUME NEW p \in Waiting(e), NEW f \in Device \ {e}
          PROVE  p.key \notin known[f] /\ \A q \in Waiting(f)' : p.key \notin q.past
      BY <1>1, <1>4 DEF FilterInv, Privacy, Private
    <3>4. \A p \in Waiting(e) : p.past \subseteq known[e]
      BY DEF FilterInv, Privacy, Private
    <3> QED
      BY <1>1, <3>2, <3>3, <3>4 DEF Private
  <2> QED
    BY <2>1, <2>2 DEF Privacy
<1>12. Closure'
  <2>1. ASSUME NEW P PROVE \A j \in Retained' : log'[j].key \in P => log'[j].past \subseteq P
    BY <1>1, <1>6, <1>8
  <2> QED
    BY <2>1 DEF Closure, Closed
<1>13. ASSUME NEW c \in Client, Unseen(c), ident[d] # c
       PROVE  Unseen(c)'
  <2>1. \A i \in Retained' : log'[i].clock[c] = 0
    BY <1>1, <1>4, <1>6, <1>8, <1>13
  <2>2. \A e \in Device : ident[e] # c => \A p \in Waiting(e)' : p.clock[c] = 0
    BY <1>1, <1>4, <1>13 DEF Unseen
  <2>3. \A e \in Device : ident[e] # c => clock[e][c] = 0
    BY <1>13 DEF Unseen
  <2> QED
    BY <1>1, <2>1, <2>2, <2>3 DEF Unseen
<1>14. Fresh'
  <2>1. \A c \in Client \ minted : Unseen(c)'
    BY <1>13 DEF FilterInv, Fresh, Identities
  <2>2. ASSUME NEW e \in Device, NEW c, c = ident[e], Holding(e)'
        PROVE  Unseen(c)' /\ \A i \in 1..Len(log') : log'[i].client # c
    <3>1. e # d /\ Holding(e)
      BY <1>4, <1>5, <2>2
    <3>2. ident[d] # c /\ c \in Client
      BY <2>2, <3>1, WaitingType DEF FilterInv, Identities
    <3>3. Unseen(c) /\ \A i \in 1..Len(log) : log[i].client # c
      BY <2>2, <3>1 DEF FilterInv, Fresh
    <3>4. \A i \in 1..Len(log') : log'[i].client # c
      BY <1>1, <1>4, <1>7, <3>2, <3>3
    <3> QED
      BY <1>13, <3>2, <3>3, <3>4
  <2> QED
    BY ZenonT(40), <1>1, <2>1, <2>2 DEF Fresh, Unseen
<1>15. Holders'
  BY <1>1, <1>4 DEF FilterInv, Holders
<1>16. Exactness'
  <2> DEFINE a == op.client
             k == op.key
  <2>1. \A v, P : Exact(v, P)' <=> (v[a] >= 1 <=> k \in P)
    BY <1>1, <1>6 DEF Exact
  <2>2. ExactAt(d)'
    <3>1. /\ clock[d] = op.clock /\ known[d] = {k} /\ author[d] = <<a>>
          /\ \E s \in stored[d] : s.key = k
      BY <1>1, <1>2 DEF FilterInv, Holders
    <3>2. clock[d][a] >= 1 /\ k \in known[d]
      BY <1>8, <3>1
    <3> QED
      BY <1>1, <1>4, <1>6, <3>1, <3>2 DEF ExactAt, Exact
  <2>3. ASSUME NEW e \in Device \ {d} PROVE ExactAt(e)'
    <3>1. Unseen(a) /\ ident[e] # a
      BY <1>4 DEF FilterInv, Fresh, Identities
    <3>2. clock[e][a] = 0 /\ \A p \in Waiting(e) : p.clock[a] = 0
      BY <3>1 DEF Unseen
    <3>3. k \notin known[e] /\ \A p \in Waiting(e) : k \notin p.past
      BY <1>1, <1>9 DEF Private
    <3>4. ~(cursor[e] >= n)
      BY <1>1 DEF TypeInv, Cursors, Types
    <3> QED
      BY <1>1, <1>6, <3>1, <3>2, <3>3, <3>4 DEF ExactAt, Exact
  <2>4. \A i \in Retained' : Exact(log[i].clock, log[i].past)'
    BY <1>1, <1>6, <1>8 DEF Exact
  <2> QED
    BY <2>2, <2>3, <2>4 DEF Exactness
<1> QED
  BY <1>10, <1>11, <1>12, <1>14, <1>15, <1>16 DEF FilterInv

-----------------------------------------------------------------------------
LEMMA InitFilter == Init => FilterInv
<1> SUFFICES ASSUME Init PROVE FilterInv
  OBVIOUS
<1>1. /\ \A d \in Device : Waiting(d) = {} /\ clock[d] = EmptyClock /\ known[d] = {}
      /\ Len(log) = 0 /\ ident = FirstId /\ minted = {FirstId[d] : d \in Device}
  BY DEF Init, Waiting
<1>2. LastImport = 0 /\ Retained = {}
  <2>1. LastImport \in 0..0
    BY <1>1, InitTypes, LastImportOf DEF TypeInv
  <2>2. Retained = {}
    BY <1>1 DEF Retained
  <2> QED
    BY <2>1, <2>2
<1>3. Identities
  BY <1>1, FirstIdAssumption DEF Identities
<1>4. Privacy /\ Closure /\ Holders /\ Exactness
  BY <1>1, <1>2 DEF Privacy, Private, Closure, Closed, Holders, Exactness
<1>5. \A c \in Client : Unseen(c)
  BY <1>1, <1>2 DEF Unseen, EmptyClock
<1>6. \A d \in Device : ~Holding(d)
  BY <1>1 DEF Holding
<1> QED
  BY <1>3, <1>4, <1>5, <1>6 DEF FilterInv, Fresh

LEMMA EditsKeeps ==
  ASSUME TypeInv, FilterInv, NEW d \in Device, NEW op, Edits(d, op)
  PROVE  FilterInv'
BY EditsIdentities, EditsClosure, EditsFresh, EditsExact DEF FilterInv

LEMMA DownloadKeeps ==
  ASSUME TypeInv, FilterInv, MaxClockSize > 1, NEW d \in Device, Download(d)
  PROVE  FilterInv'
<1> DEFINE i == NextPosition(d)
<1>1. CASE log[i].client = ident[d]
  <2>1. UNCHANGED <<clock, author, known, stored>>
    BY <1>1 DEF Download, SkipOwn
  <2> QED
    BY <1>1, <2>1, SkipLearns, LearnsKeeps
<1>2. CASE log[i].client # ident[d]
  <2>1. ReceiveImport(d, i) \/ ReceiveUpdate(d, i) \/ DropFiltered(d, i)
    BY <1>2 DEF Download
  <2>2. CASE ReceiveImport(d, i)
    BY <1>2, <2>2, ReceiveImportLearns, LearnsKeeps
  <2>3. CASE ReceiveUpdate(d, i)
    BY <2>3, ReceiveUpdateLearns, LearnsKeeps
  <2>4. CASE DropFiltered(d, i)
    <3>1. ~IsImport(log[i]) /\ UNCHANGED <<clock, author, known, stored>>
      BY <2>4 DEF DropFiltered
    <3> QED
      BY <3>1, SkipLearns, LearnsKeeps
  <2> QED
    BY <2>1, <2>2, <2>3, <2>4
<1> QED
  BY <1>1, <1>2

LEMMA NextFilter ==
  ASSUME ~Migrates, MaxClockSize > 1, TypeInv, FilterInv, [Next]_vars
  PROVE  FilterInv'
<1>1. CASE UNCHANGED vars
  <2>1. UNCHANGED <<issued, ident, minted, clock, author, known, stored, cursor, pending, log>>
    BY <1>1 DEF vars
  <2>2. /\ LastImport' = LastImport /\ Retained' = Retained /\ Baseline' = Baseline
        /\ \A d \in Device : (Waiting(d)' = Waiting(d)) /\ (Holding(d)' <=> Holding(d))
    BY <2>1, SameLog DEF Waiting, Holding
  <2>3. Identities' /\ Privacy' /\ Closure'
    BY <2>1, <2>2 DEF FilterInv, Identities, Privacy, Private, Closure, Closed
  <2>4. Fresh' /\ Holders'
    BY <2>1, <2>2 DEF FilterInv, Fresh, Unseen, Holders
  <2>5. Exactness'
    BY <2>1, <2>2 DEF FilterInv, Exactness, ExactAt, Exact
  <2> QED
    BY <2>3, <2>4, <2>5 DEF FilterInv
<1>2. ASSUME NEW d \in Device, NEW e \in Entity, Capture(d, e) PROVE FilterInv'
  BY <1>2, CaptureEdits, EditsKeeps
<1>3. ASSUME NEW d \in Device, SyncImport(d) PROVE FilterInv'
  BY <1>3 DEF SyncImport
<1>4. ASSUME NEW d \in Device, Upload(d) PROVE FilterInv'
  BY <1>4, UploadUpdateKeeps, UploadImportKeeps
<1>5. ASSUME NEW d \in Device, RejectedUpload(d) PROVE FilterInv'
  BY <1>5, RejectedEdits, EditsKeeps, DropsLearns, LearnsKeeps
<1>6. ASSUME NEW d \in Device, UseRemote(d) PROVE FilterInv'
  BY <1>6, UseRemoteLearns, LearnsKeeps
<1> QED
  BY <1>1, <1>2, <1>3, <1>4, <1>5, <1>6, BackupKeeps, DownloadKeeps DEF Next

(***************************************************************************)
(* The import filter is exact, for any number of devices, operations and   *)
(* restored backups, whether or not uploads are fenced, and however small  *)
(* the bound on clocks, from two entries on: what is stored after a backup *)
(* survives it on a device exactly when its author had the backup.         *)
(***************************************************************************)
THEOREM FilterIsExact ==
  ASSUME ~Migrates, MaxClockSize > 1
  PROVE  Spec => []FilterKeepsExactlyInformedOps
<1>1. TypeInv /\ FilterInv => FilterKeepsExactlyInformedOps
  <2> SUFFICES ASSUME TypeInv, FilterInv, LastImport # 0,
                      NEW j \in (LastImport + 1)..Len(log)
               PROVE  SurvivesImport(log[j].client, log[j].clock, Baseline.client, Baseline.clock)
                        <=> Baseline.key \in log[j].past
    BY DEF FilterKeepsExactlyInformedOps, Baseline
  <2>1. /\ Baseline.client \in Client /\ IsBackup(Baseline) /\ LastImport \in 1..Len(log)
    BY BaselineOf
  <2>2. j \in Retained /\ j \in 1..Len(log) /\ log[j] \in Op
    BY <2>1 DEF Retained, TypeInv, Types
  <2>3. log[j].client \in Client /\ log[j].clock \in Clock
    BY <2>2 DEF Op
  <2>4. Baseline.clock = Increment(EmptyClock, Baseline.client)
    BY <2>1 DEF IsBackup
  <2>5. SurvivesImport(log[j].client, log[j].clock, Baseline.client, Baseline.clock)
          <=> log[j].clock[Baseline.client] >= 1
    BY <2>1, <2>3, <2>4, SurvivesBaseline
  <2>6. log[j].clock[Baseline.client] >= 1 <=> Baseline.key \in log[j].past
    BY <2>2 DEF FilterInv, Exactness, Exact
  <2> QED
    BY <2>5, <2>6
<1>2. Init => FilterInv
  BY InitFilter
<1>3. TypeInv /\ FilterInv /\ [Next]_vars => FilterInv'
  BY NextFilter
<1>4. Spec => []FilterInv
  BY <1>2, <1>3, TypesHold, PTL DEF Spec
<1> QED
  BY <1>1, <1>4, TypesHold, PTL

-----------------------------------------------------------------------------
(***************************************************************************)
(* What the clocks of a fenced log say.  The counter of a retained         *)
(* operation is its author's entry in its clock; a counter in a clock of   *)
(* another client is vouched for by a retained operation of that client,   *)
(* and a clock that reaches the counter of a retained operation belongs to *)
(* a causal past that has the operation.  A device that has not read the   *)
(* latest import, or holds one of its own, may have a clock that says      *)
(* anything: the fence keeps its edits out of the log.                     *)
(***************************************************************************)

Current(d) == cursor[d] >= LastImport /\ ~Holding(d)

Counter(j) == log[j].clock[log[j].client]

Vouched(own, v) ==
  \A c \in Client \ {own} : v[c] > 0 =>
     \E j \in Retained : log[j].client = c /\ Counter(j) >= v[c]

Reads(v, P) == \A j \in Retained : v[log[j].client] >= Counter(j) => log[j].key \in P

View(d) ==
  /\ Vouched(ident[d], clock[d])
  /\ Reads(clock[d], known[d])
  /\ \A j \in Retained : log[j].client = ident[d] => Counter(j) <= clock[d][ident[d]]
  /\ \A p \in Waiting(d) :
       /\ Vouched(ident[d], p.clock)
       /\ Reads(p.clock, p.past)
       /\ p.clock[ident[d]] >= 1 /\ p.clock[ident[d]] <= clock[d][ident[d]]
       /\ \A j \in Retained : log[j].client = ident[d] => Counter(j) < p.clock[ident[d]]
       /\ LastImport # 0 => Baseline.key \in p.past

Views == \A d \in Device : Current(d) => View(d)

Told(i) ==
  /\ Vouched(log[i].client, log[i].clock)
  /\ Reads(log[i].clock, log[i].past)
  /\ Counter(i) >= 1
  /\ LastImport # 0 => Baseline.key \in log[i].past

History ==
  /\ \A i \in Retained : Told(i)
  /\ \A i, j \in Retained : i < j /\ log[i].client = log[j].client => Counter(i) < Counter(j)

\* Whose operations are retained has read the latest import.
Speakers == \A d \in Device : (\E j \in Retained : log[j].client = ident[d]) => Current(d)

EditInv == Views /\ History /\ Speakers /\ AcceptedEditsKnowEarlierOnes

LEMMA CounterType ==
  ASSUME TypeInv
  PROVE  \A j \in Retained : Counter(j) \in Nat /\ log[j].client \in Client /\ log[j].clock \in Clock
<1>1. \A op \in Op : op.client \in Client /\ op.clock \in Clock /\ op.clock[op.client] \in Nat
  BY DEF Op, Clock
<1> QED
  BY <1>1, WaitingType DEF Counter

LEMMA SameCounters ==
  ASSUME log' = log
  PROVE  /\ \A j : Counter(j)' = Counter(j)
         /\ \A own, v : Vouched(own, v)' <=> Vouched(own, v)
         /\ \A v, P : Reads(v, P)' <=> Reads(v, P)
         /\ \A i \in Retained : Told(i)' <=> Told(i)
         /\ History' <=> History
         /\ AcceptedEditsKnowEarlierOnes' <=> AcceptedEditsKnowEarlierOnes
<1>1. LastImport' = LastImport /\ Retained' = Retained /\ Baseline' = Baseline
  BY SameLog
<1>2. \A j : Counter(j)' = Counter(j)
  BY DEF Counter
<1>3. \A own, v : Vouched(own, v)' <=> Vouched(own, v)
  BY <1>1, <1>2 DEF Vouched
<1>4. \A v, P : Reads(v, P)' <=> Reads(v, P)
  BY <1>1, <1>2 DEF Reads
<1>5. \A i : Told(i)' <=> Told(i)
  BY <1>1, <1>2 DEF Told, Vouched, Reads
<1>6. History' <=> History
  BY <1>1, <1>2, <1>5 DEF History
<1>7. AcceptedEditsKnowEarlierOnes' <=> AcceptedEditsKnowEarlierOnes
  BY <1>1 DEF AcceptedEditsKnowEarlierOnes
<1> QED
  BY <1>2, <1>3, <1>4, <1>5, <1>6, <1>7

\* When the log stays, it is enough to look at the device that acts.
LEMMA OwnView ==
  ASSUME TypeInv, EditInv, NEW d \in Device, OthersStay(d), log' = log,
         Current(d)' => View(d)',
         (\E j \in Retained : log[j].client = ident'[d]) => Current(d)'
  PROVE  EditInv'
<1>1. /\ LastImport' = LastImport /\ Retained' = Retained /\ Baseline' = Baseline
      /\ \A j : Counter(j)' = Counter(j)
      /\ \A own, v : Vouched(own, v)' <=> Vouched(own, v)
      /\ \A v, P : Reads(v, P)' <=> Reads(v, P)
      /\ History' <=> History
      /\ AcceptedEditsKnowEarlierOnes' <=> AcceptedEditsKnowEarlierOnes
  BY SameLog, SameCounters
<1>2. ASSUME NEW e \in Device \ {d}
      PROVE  /\ Waiting(e)' = Waiting(e) /\ clock'[e] = clock[e] /\ known'[e] = known[e]
             /\ cursor'[e] = cursor[e] /\ ident'[e] = ident[e] /\ (Holding(e)' <=> Holding(e))
  BY DEF OthersStay
<1>3. \A e \in Device \ {d} : Current(e)' <=> Current(e)
  BY <1>1, <1>2 DEF Current
<1>4. ASSUME NEW e \in Device \ {d}, View(e) PROVE View(e)'
  <2>1. Vouched(ident[e], clock[e])' /\ Reads(clock[e], known[e])'
    BY <1>1, <1>2, <1>4 DEF View, Vouched, Reads
  <2>2. \A p \in Waiting(e) : Vouched(ident[e], p.clock)' /\ Reads(p.clock, p.past)'
    BY <1>1, <1>2, <1>4 DEF View, Vouched, Reads
  <2> QED
    BY <1>1, <1>2, <1>4, <2>1, <2>2 DEF View
<1>5. Views'
  BY <1>3, <1>4 DEF Views, EditInv
<1>6. Speakers'
  <2>1. ASSUME NEW e \in Device, NEW j \in Retained, log[j].client = ident'[e] PROVE Current(e)'
    BY <1>2, <1>3, <2>1 DEF Speakers, EditInv
  <2> QED
    BY <1>1, <2>1 DEF Speakers
<1> QED
  BY <1>1, <1>5, <1>6 DEF EditInv

LEMMA EditsView ==
  ASSUME TypeInv, FilterInv, EditInv, NEW d \in Device, NEW op, Edits(d, op)
  PROVE  EditInv'
<1> DEFINE own == ident[d]
<1>1. /\ op.clock = clock'[d] /\ op.past = known'[d] /\ op.past = known[d] \cup {NewKey}
      /\ Waiting(d)' = {op} /\ ident' = ident /\ cursor' = cursor /\ log' = log
      /\ OthersStay(d) /\ ~Holding(d) /\ ~Holding(d)' /\ op \in Op
      /\ op.clock[own] > clock[d][own]
      /\ \A c \in Client \ {own} :
            \/ op.clock[c] = clock[d][c]
            \/ \E p \in Waiting(d) : op.clock[c] = p.clock[c]
            \/ \E j \in Retained : log[j].key \in known[d] /\ op.clock[c] = log[j].clock[c]
  BY DEF Edits
<1>2. /\ LastImport' = LastImport /\ Retained' = Retained /\ Baseline' = Baseline
      /\ \A j : Counter(j)' = Counter(j)
      /\ \A o, v : Vouched(o, v)' <=> Vouched(o, v)
      /\ \A v, P : Reads(v, P)' <=> Reads(v, P)
  BY <1>1, SameLog, SameCounters
<1>3. Current(d)' <=> Current(d)
  BY <1>1, <1>2 DEF Current
<1>4. /\ own \in Client /\ clock[d] \in Clock /\ op.clock \in Clock
      /\ \A c \in Client : clock[d][c] \in Nat /\ op.clock[c] \in Nat
      /\ \A j \in Retained : Counter(j) \in Nat /\ log[j].client \in Client
  BY <1>1, WaitingType, CounterType DEF Op, Clock
<1>5. ASSUME Current(d) PROVE View(d)'
  <2>1. View(d)
    BY <1>5 DEF EditInv, Views
  <2>2. Vouched(own, op.clock)
    <3> SUFFICES ASSUME NEW c \in Client \ {own}, op.clock[c] > 0
                 PROVE  \E j \in Retained : log[j].client = c /\ Counter(j) >= op.clock[c]
      BY DEF Vouched
    <3>1. CASE op.clock[c] = clock[d][c]
      BY <2>1, <3>1 DEF View, Vouched
    <3>2. CASE \E p \in Waiting(d) : op.clock[c] = p.clock[c]
      BY <2>1, <3>2 DEF View, Vouched
    <3>3. CASE \E j \in Retained : log[j].key \in known[d] /\ op.clock[c] = log[j].clock[c]
      <4>1. PICK j \in Retained : op.clock[c] = log[j].clock[c]
        BY <3>3
      <4>2. CASE log[j].client = c
        <5>1. Counter(j) = op.clock[c] /\ Counter(j) \in Nat
          BY <1>4, <4>1, <4>2 DEF Counter
        <5> QED
          BY <4>2, <5>1
      <4>3. CASE log[j].client # c
        BY <4>1, <4>3 DEF EditInv, History, Told, Vouched
      <4> QED
        BY <4>2, <4>3
    <3> QED
      BY <1>1, <3>1, <3>2, <3>3
  <2>3. Reads(op.clock, known[d])
    <3> SUFFICES ASSUME NEW j \in Retained, op.clock[log[j].client] >= Counter(j)
                 PROVE  log[j].key \in known[d]
      BY DEF Reads
    <3> DEFINE c == log[j].client
    <3>1. CASE c = own
      BY <1>4, <2>1, <3>1 DEF View, Reads
    <3>2. CASE c # own /\ op.clock[c] = clock[d][c]
      BY <2>1, <3>2 DEF View, Reads
    <3>3. CASE \E p \in Waiting(d) : op.clock[c] = p.clock[c]
      <4>1. PICK p \in Waiting(d) : op.clock[c] = p.clock[c]
        BY <3>3
      <4>2. log[j].key \in p.past
        BY <2>1, <4>1 DEF View, Reads
      <4> QED
        BY <4>2 DEF FilterInv, Privacy, Private
    <3>4. CASE \E i \in Retained : log[i].key \in known[d] /\ op.clock[c] = log[i].clock[c]
      <4>1. PICK i \in Retained : log[i].key \in known[d] /\ op.clock[c] = log[i].clock[c]
        BY <3>4
      <4>2. log[j].key \in log[i].past
        BY <4>1 DEF EditInv, History, Told, Reads
      <4> QED
        BY <4>1, <4>2 DEF FilterInv, Closure, Closed
    <3>5. c \in Client
      BY <1>4
    <3> QED
      BY <1>1, <3>1, <3>2, <3>3, <3>4, <3>5
  <2>4. \A j \in Retained : log[j].client = own => Counter(j) < op.clock[own]
    <3>1. \A j \in Retained : log[j].client = own => Counter(j) <= clock[d][own]
      BY <2>1 DEF View
    <3> HIDE DEF own
    <3> QED
      BY <1>1, <1>4, <3>1
  <2>5. LastImport # 0 => Baseline.key \in op.past
    BY <1>1, <1>5 DEF Current, FilterInv, Exactness, ExactAt
  <2>6. op.clock[own] >= 1 /\ op.clock[own] \in Nat
    <3>1. op.clock[own] > clock[d][own]
      BY <1>1
    <3> HIDE DEF own
    <3>2. clock[d][own] \in Nat /\ op.clock[own] \in Nat
      BY <1>4
    <3> QED
      BY <3>1, <3>2
  <2>7. Reads(op.clock, op.past)
    BY <1>1, <2>3 DEF Reads
  <2>9. Vouched(ident[d], clock[d])' /\ Reads(clock[d], known[d])'
    BY <1>1, <1>2, <2>2, <2>7 DEF Vouched, Reads
  <2>10. \A j \in Retained : log[j].client = own => Counter(j) <= clock'[d][own]
    <3>1. clock'[d] = op.clock
      BY <1>1
    <3> HIDE DEF own
    <3>2. \A j \in Retained : log[j].client = own => Counter(j) <= op.clock[own]
      BY <1>4, <2>4, <2>6
    <3> QED
      BY <3>1, <3>2
  <2>11. \A p \in Waiting(d)' :
           /\ Vouched(ident[d], p.clock) /\ Reads(p.clock, p.past)
           /\ p.clock[ident[d]] >= 1 /\ p.clock[ident[d]] <= clock'[d][ident[d]]
           /\ \A j \in Retained : log[j].client = ident[d] => Counter(j) < p.clock[ident[d]]
           /\ LastImport # 0 => Baseline.key \in p.past
    <3>1. clock'[d] = op.clock /\ Waiting(d)' = {op}
      BY <1>1
    <3>2. op.clock[own] <= op.clock[own]
      BY <2>6
    <3> QED
      BY <2>2, <2>4, <2>5, <2>6, <2>7, <3>1, <3>2
  <2>12. \A p \in Waiting(d)' : Vouched(ident[d], p.clock)' /\ Reads(p.clock, p.past)'
    BY <1>1, <1>2, <2>11 DEF Vouched, Reads
  <2> QED
    BY <1>1, <1>2, <2>9, <2>10, <2>11, <2>12 DEF View
<1>6. \A j \in Retained : log[j].client = ident'[d] => Current(d)'
  BY <1>1, <1>3 DEF EditInv, Speakers
<1> QED
  BY <1>1, <1>3, <1>5, <1>6, OwnView

\* A view after a step that leaves the log alone.
LEMMA ViewAfter ==
  ASSUME NEW d \in Device, log' = log, ident' = ident,
         Vouched(ident[d], clock'[d]), Reads(clock'[d], known'[d]),
         \A j \in Retained : log[j].client = ident[d] => Counter(j) <= clock'[d][ident[d]],
         \A p \in Waiting(d)' :
           /\ Vouched(ident[d], p.clock) /\ Reads(p.clock, p.past)
           /\ p.clock[ident[d]] >= 1 /\ p.clock[ident[d]] <= clock'[d][ident[d]]
           /\ \A j \in Retained : log[j].client = ident[d] => Counter(j) < p.clock[ident[d]]
           /\ LastImport # 0 => Baseline.key \in p.past
  PROVE  View(d)'
<1>1. /\ LastImport' = LastImport /\ Retained' = Retained /\ Baseline' = Baseline
      /\ \A j : Counter(j)' = Counter(j)
  BY SameLog, SameCounters
<1>2. Vouched(ident[d], clock[d])' /\ Reads(clock[d], known[d])'
  BY <1>1 DEF Vouched, Reads
<1>3. \A p \in Waiting(d)' : Vouched(ident[d], p.clock)' /\ Reads(p.clock, p.past)'
  BY <1>1 DEF Vouched, Reads
<1> QED
  BY <1>1, <1>2, <1>3 DEF View

LEMMA BackupView ==
  ASSUME TypeInv, FilterInv, EditInv, NEW d \in Device, NEW id \in Client, BackupImport(d, id)
  PROVE  EditInv'
<1> DEFINE op == NewOp(id, "BACKUP_IMPORT", CHOOSE e \in Entity : TRUE,
                       Increment(EmptyClock, id), {})
<1>1. /\ id \notin minted
      /\ ident' = [ident EXCEPT ![d] = id]
      /\ pending' = [pending EXCEPT ![d] = <<op>>]
      /\ clock' = [clock EXCEPT ![d] = op.clock]
      /\ known' = [known EXCEPT ![d] = {op.key}]
      /\ stored' = [stored EXCEPT ![d] = {Entry(op)}]
      /\ author' = [author EXCEPT ![d] = <<id>>]
      /\ cursor' = cursor /\ log' = log
  BY DEF BackupImport
<1>2. IsImport(op)
  BY NewOpFields DEF IsImport, ImportKinds
<1> HIDE DEF op
<1>3. Waiting(d)' = {op} /\ \A e \in Device \ {d} : Waiting(e)' = Waiting(e)
  BY <1>1, AloneWaits
<1>4. Holding(d)' /\ \A e \in Device \ {d} : Holding(e)' <=> Holding(e)
  BY <1>2, <1>3 DEF Holding
<1>5. OthersStay(d) /\ ident'[d] = id
  BY <1>1, <1>3, <1>4 DEF OthersStay, TypeInv, Types
<1>6. \A j \in Retained : log[j].client # ident'[d]
  BY <1>1, <1>5, WaitingType DEF FilterInv, Identities
<1>7. ~Current(d)'
  BY <1>4 DEF Current
<1> QED
  BY <1>1, <1>5, <1>6, <1>7, OwnView

LEMMA DropsView ==
  ASSUME TypeInv, EditInv, NEW d \in Device, Drops(d)
  PROVE  EditInv'
<1>1. /\ Waiting(d)' = {} /\ ~Holding(d) /\ OthersStay(d)
      /\ UNCHANGED <<ident, minted, clock, author, known, stored, cursor, log>>
  BY DEF Drops
<1>2. Current(d)' <=> Current(d)
  BY <1>1, SameLog DEF Current, Holding
<1>3. Current(d) => View(d)'
  BY <1>1, ViewAfter DEF EditInv, Views, View
<1> QED
  BY <1>1, <1>2, <1>3, OwnView DEF EditInv, Speakers

\* An operation that is not taken in: the device had read up to the latest import.
LEMMA SkipView ==
  ASSUME TypeInv, FilterInv, EditInv, NEW d \in Device, Download(d),
         log[NextPosition(d)].client = ident[d] \/ ~IsImport(log[NextPosition(d)]),
         UNCHANGED <<clock, author, known, stored>>
  PROVE  EditInv'
<1> DEFINE i == NextPosition(d)
<1>1. /\ i \in Retained /\ i >= LastImport /\ cursor'[d] = i
      /\ \A e \in Device \ {d} : cursor'[e] = cursor[e]
      /\ \A e \in Device : (Waiting(e)' = Waiting(e)) /\ (Holding(e)' <=> Holding(e))
      /\ ~Holding(d) /\ (i # LastImport => cursor[d] >= LastImport)
      /\ ident' = ident /\ log' = log
  BY DownloadOf
<1>2. Current(d)
  <2>1. CASE log[i].client = ident[d]
    BY <1>1, <2>1 DEF EditInv, Speakers
  <2>2. CASE ~IsImport(log[i])
    <3>1. CASE LastImport = 0
      BY <1>1, <3>1 DEF Current, TypeInv, Types
    <3>2. CASE LastImport # 0
      BY <1>1, <2>2, <3>2, BaselineOf DEF Baseline, Current
    <3> QED
      BY <3>1, <3>2
  <2> QED
    BY <2>1, <2>2
<1>3. OthersStay(d)
  BY <1>1 DEF OthersStay
<1>4. Current(d)'
  BY <1>1, SameLog DEF Current
<1>5. View(d)'
  BY <1>1, <1>2, ViewAfter DEF EditInv, Views, View
<1> QED
  BY <1>1, <1>3, <1>4, <1>5, OwnView

LEMMA ReceiveImportView ==
  ASSUME TypeInv, FilterInv, EditInv, MaxClockSize > 1, NEW d \in Device, Download(d),
         ReceiveImport(d, NextPosition(d)), log[NextPosition(d)].client # ident[d]
  PROVE  EditInv'
<1> DEFINE i == NextPosition(d)
           a == Baseline.client
           own == ident[d]
           w == Baseline.clock
           reset == ResetByImport(clock[d], own, a, w)
<1>1. /\ i \in Retained /\ i \in 1..Len(log) /\ IsImport(log[i]) /\ pending[d] = <<>>
      /\ \A e \in Device : (Waiting(e)' = Waiting(e)) /\ (Holding(e)' <=> Holding(e))
      /\ ~Holding(d) /\ cursor'[d] = i /\ \A e \in Device \ {d} : cursor'[e] = cursor[e]
      /\ UNCHANGED <<issued, ident, minted, pending, log>>
  BY DownloadOf DEF ReceiveImport
<1>2. LastImport # 0 /\ i = LastImport /\ cursor[d] < LastImport
  <2>1. LastImport \in 0..Len(log) /\ i <= LastImport
    BY <1>1, LastImportOf DEF TypeInv
  <2>2. i >= LastImport /\ LastImport # 0
    BY <1>1, <2>1 DEF Retained
  <2>3. i = LastImport
    BY <1>1, <2>1, <2>2
  <2>4. cursor[d] \in Nat
    BY DEF TypeInv, Types
  <2>5. cursor[d] < LastImport
    BY <2>1, <2>3, <2>4 DEF NextPosition
  <2> QED
    BY <2>2, <2>3, <2>5
<1>3. /\ Baseline \in Op /\ a \in Client /\ Baseline.past = {Baseline.key}
      /\ w \in Clock /\ w[a] = 1
      /\ \A c \in Client \ {a} : w[c] = 0
      /\ a # own /\ log[i] = Baseline /\ own \in Client /\ clock[d] \in Clock
  BY <1>2, BaselineOf, WaitingType DEF Baseline
<1>4. /\ clock' = [clock EXCEPT ![d] = BoundOwnClock(reset, own, <<a>>)]
      /\ author' = [author EXCEPT ![d] = <<a>>]
      /\ known' = [known EXCEPT ![d] = Baseline.past]
      /\ stored' = [stored EXCEPT ![d] = {e \in @ : ~e.import} \cup {Entry(Baseline)}]
  BY <1>3 DEF ReceiveImport
<1>5. /\ clock'[d] = LimitClock(reset, <<own>> \o <<a>>)
      /\ known'[d] = {Baseline.key}
      /\ \A e \in Device \ {d} : /\ clock'[e] = clock[e] /\ author'[e] = author[e]
                                 /\ known'[e] = known[e] /\ stored'[e] = stored[e]
  BY <1>3, <1>4 DEF TypeInv, Types, BoundOwnClock
<1>6. OthersStay(d)
  BY <1>1, <1>5 DEF OthersStay
<1>7. ~Current(d) /\ Current(d)' /\ \A j \in Retained : log[j].client # own
  <2>1. ~Current(d)
    BY <1>2, LastImportOf DEF Current, TypeInv, Types
  <2>2. Current(d)'
    BY <1>1, <1>2, SameLog DEF Current
  <2> QED
    BY <2>1, <2>2 DEF EditInv, Speakers
<1>8. \A c \in Client \ {own} : clock'[d][c] = IF c = a THEN 1 ELSE 0
  <2>1. /\ reset \in Clock /\ reset[a] = 1
        /\ \A c \in Client : c # own /\ c # a => reset[c] = 0
    <3> DEFINE v == clock[d]
    <3>1. v \in Clock /\ w \in Clock /\ own \in Client /\ a \in Client
      BY <1>3
    <3>2. own # a /\ w[a] = 1
      BY <1>3
    <3> HIDE DEF a, own, w, v
    <3>3. ResetByImport(v, own, a, w) \in Clock
      BY <3>1, ResetByOther
    <3>4. own # a => ResetByImport(v, own, a, w)[a] = w[a]
      BY <3>1, ResetByOther
    <3>5. \A c \in Client : c # own /\ c # a => ResetByImport(v, own, a, w)[c] = 0
      BY <3>1, ResetByOther
    <3> QED
      BY <3>2, <3>3, <3>4, <3>5 DEF v
  <2>2. a \in Client /\ own \in Client
    BY <1>3
  <2>3. clock'[d] = LimitClock(reset, <<own>> \o <<a>>)
    BY <1>5
  <2> HIDE DEF a, own, w, reset
  <2>4. clock'[d][a] = 1
    BY <2>1, <2>2, <2>3, LimitClockKeepsSecond
  <2>5. \A c \in Client : clock'[d][c] \in {0, reset[c]}
    BY <2>1, <2>3, LimitClockOnlyRemoves
  <2> QED
    BY <2>1, <2>4, <2>5
<1>9. Counter(LastImport) = 1 /\ LastImport \in Retained /\ log[LastImport].client = a
  BY <1>1, <1>2, <1>3 DEF Counter
<1>10. Vouched(own, clock'[d])
  BY <1>8, <1>9 DEF Vouched
<1>11. Reads(clock'[d], known'[d])
  <2> SUFFICES ASSUME NEW j \in Retained, clock'[d][log[j].client] >= Counter(j)
               PROVE  log[j].key = Baseline.key
    BY <1>5 DEF Reads
  <2>1. log[j].client \in Client /\ log[j].client # own /\ Counter(j) \in Nat /\ Counter(j) >= 1
    BY <1>7, CounterType DEF EditInv, History, Told
  <2>2. log[j].client = a /\ Counter(j) = 1
    <3>1. CASE log[j].client = a
      <4>1. clock'[d][log[j].client] = 1
        BY <1>8, <2>1, <3>1
      <4> HIDE DEF a
      <4> QED
        BY <2>1, <3>1, <4>1
    <3>2. CASE log[j].client # a
      <4>1. clock'[d][log[j].client] = 0
        BY <1>8, <2>1, <3>2
      <4> QED
        BY <2>1, <4>1
    <3> QED
      BY <3>1, <3>2
  <2>3. j \in Int /\ LastImport \in Int /\ j >= LastImport
    BY LastImportOf DEF Retained, TypeInv
  <2>4. ~(LastImport < j)
    BY <1>9, <2>2 DEF EditInv, History
  <2>5. j = LastImport
    BY <2>3, <2>4
  <2> QED
    BY <2>5 DEF Baseline
<1>12. Waiting(d)' = {}
  BY <1>1, HoldsIs
<1>13. View(d)'
  BY <1>1, <1>7, <1>10, <1>11, <1>12, ViewAfter
<1> QED
  BY <1>1, <1>6, <1>7, <1>13, OwnView

LEMMA ReceiveUpdateView ==
  ASSUME TypeInv, FilterInv, EditInv, NEW d \in Device, Download(d),
         ReceiveUpdate(d, NextPosition(d))
  PROVE  EditInv'
<1> DEFINE i == NextPosition(d)
           op == log[i]
           own == ident[d]
           merged == Merge(clock[d], op.clock)
<1>1. /\ i \in Retained /\ op \in Op /\ op.clock \in Clock /\ i >= LastImport /\ cursor'[d] = i
      /\ op.client \in Client
      /\ \A e \in Device : (Waiting(e)' = Waiting(e)) /\ (Holding(e)' <=> Holding(e))
      /\ ~Holding(d) /\ \A e \in Device \ {d} : cursor'[e] = cursor[e]
      /\ i # LastImport => cursor[d] >= LastImport
      /\ UNCHANGED <<issued, ident, minted, pending, log>>
  BY DownloadOf
<1>2. /\ ~IsImport(op)
      /\ clock' = [clock EXCEPT ![d] = BoundOwnClock(merged, own, author[d])]
      /\ known' = [known EXCEPT ![d] = @ \cup op.past]
      /\ stored' = [stored EXCEPT ![d] = @ \cup {Entry(op)}]
      /\ author' = author
  BY DEF ReceiveUpdate
<1>3. /\ clock'[d] = LimitClock(merged, <<own>> \o author[d])
      /\ known'[d] = known[d] \cup op.past
      /\ \A e \in Device \ {d} : /\ clock'[e] = clock[e] /\ author'[e] = author[e]
                                 /\ known'[e] = known[e] /\ stored'[e] = stored[e]
  BY <1>2 DEF TypeInv, Types, BoundOwnClock
<1>4. OthersStay(d)
  BY <1>1, <1>3 DEF OthersStay
<1>5. /\ merged \in Clock /\ clock[d] \in Clock /\ own \in Client
      /\ author[d] \in Seq(Client)
      /\ \A c \in Client : merged[c] >= clock[d][c] /\ merged[c] \in {clock[d][c], op.clock[c]}
  <2>1. clock[d] \in Clock /\ own \in Client
    BY WaitingType
  <2>2. \A c \in Client : merged[c] \in {clock[d][c], op.clock[c]}
    BY DEF Merge, Larger
  <2>3. author[d] = <<>> \/ \E c \in Client : author[d] = <<c>>
    BY DEF TypeInv, Types
  <2>4. <<>> \in Seq(Client) /\ \A c \in Client : <<c>> \in Seq(Client)
    OBVIOUS
  <2>5. author[d] \in Seq(Client)
    BY <2>3, <2>4
  <2> QED
    BY <1>1, <2>1, <2>2, <2>5, MergeCovers
<1>6. Current(d) /\ Current(d)'
  <2>1. cursor[d] >= LastImport
    <3>1. CASE LastImport = 0
      BY <3>1 DEF TypeInv, Types
    <3>2. CASE LastImport # 0
      BY <1>1, <1>2, <3>2, BaselineOf DEF Baseline
    <3> QED
      BY <3>1, <3>2
  <2> QED
    BY <1>1, <2>1, SameLog DEF Current
<1>7. View(d)
  BY <1>6 DEF EditInv, Views
<1>8. /\ \A c \in Client : clock'[d][c] \in {0, clock[d][c], op.clock[c]}
      /\ clock'[d][own] >= clock[d][own]
      /\ \A c \in Client : clock[d][c] \in Nat /\ clock'[d][c] \in Nat
  <2> HIDE DEF merged, own, op
  <2>1. /\ LimitClock(merged, <<own>> \o author[d]) \in Clock
        /\ \A c \in Client : LimitClock(merged, <<own>> \o author[d])[c] \in {0, merged[c]}
    BY <1>5, LimitClockType, LimitClockOnlyRemoves
  <2>2. LimitClock(merged, <<own>> \o author[d])[own] = merged[own]
    BY <1>5, LimitClockKeepsFirst
  <2>3. \A c \in Client : clock[d][c] \in Nat /\ clock'[d][c] \in Nat
    BY <1>3, <1>5, <2>1 DEF Clock
  <2>4. clock'[d][own] >= clock[d][own]
    BY <1>3, <1>5, <2>2
  <2>5. \A c \in Client : clock'[d][c] \in {0, clock[d][c], op.clock[c]}
    BY <1>3, <1>5, <2>1
  <2> QED
    BY <2>3, <2>4, <2>5
<1>9. Told(i)
  BY <1>1 DEF EditInv, History
<1>10. \A j \in Retained : Counter(j) \in Nat /\ Counter(j) >= 1 /\ log[j].client \in Client
  BY CounterType DEF EditInv, History, Told
<1>11. Vouched(own, clock'[d])
  <2> SUFFICES ASSUME NEW c \in Client \ {own}, clock'[d][c] > 0
               PROVE  \E j \in Retained : log[j].client = c /\ Counter(j) >= clock'[d][c]
    BY DEF Vouched
  <2>1. CASE clock'[d][c] = clock[d][c]
    BY <1>7, <2>1 DEF View, Vouched
  <2>2. CASE clock'[d][c] = op.clock[c] /\ op.client # c
    BY <1>9, <2>2 DEF Told, Vouched
  <2>3. CASE clock'[d][c] = op.clock[c] /\ op.client = c
    <3>1. Counter(i) = clock'[d][c] /\ Counter(i) \in Nat
      BY <1>1, <1>10, <2>3 DEF Counter
    <3> QED
      BY <1>1, <2>3, <3>1
  <2> QED
    BY <1>8, <2>1, <2>2, <2>3
<1>12. Reads(clock'[d], known'[d])
  <2> SUFFICES ASSUME NEW j \in Retained, clock'[d][log[j].client] >= Counter(j)
               PROVE  log[j].key \in known[d] \/ log[j].key \in op.past
    BY <1>3 DEF Reads
  <2> DEFINE c == log[j].client
  <2>1. CASE clock'[d][c] = clock[d][c]
    BY <1>7, <2>1 DEF View, Reads
  <2>2. CASE clock'[d][c] = op.clock[c]
    BY <1>9, <2>2 DEF Told, Reads
  <2>3. clock'[d][c] # 0
    BY <1>10
  <2> QED
    BY <1>8, <1>10, <2>1, <2>2, <2>3
<1>13. \A j \in Retained : log[j].client = own => Counter(j) <= clock'[d][own]
  <2>1. \A j \in Retained : log[j].client = own => Counter(j) <= clock[d][own]
    BY <1>7 DEF View
  <2> HIDE DEF own
  <2> QED
    BY <1>5, <1>8, <1>10, <2>1
<1>14. \A p \in Waiting(d)' :
         /\ Vouched(own, p.clock) /\ Reads(p.clock, p.past)
         /\ p.clock[own] >= 1 /\ p.clock[own] <= clock'[d][own]
         /\ \A j \in Retained : log[j].client = own => Counter(j) < p.clock[own]
         /\ LastImport # 0 => Baseline.key \in p.past
  <2>1. \A p \in Waiting(d) : p.clock \in Clock /\ p.clock[own] \in Nat
    BY <1>5, WaitingType DEF Clock
  <2>2. \A p \in Waiting(d) : p.clock[own] <= clock[d][own]
    BY <1>7 DEF View
  <2>3. \A p \in Waiting(d) : p.clock[own] <= clock'[d][own]
    <3> HIDE DEF own
    <3> QED
      BY <1>5, <1>8, <2>1, <2>2
  <2> QED
    BY <1>1, <1>7, <2>3 DEF View
<1>15. View(d)'
  BY <1>1, <1>11, <1>12, <1>13, <1>14, ViewAfter
<1> QED
  BY <1>1, <1>4, <1>6, <1>15, OwnView

\* Every retained operation survives the latest import: nothing is filtered out of
\* what USE_REMOTE replays.
LEMMA AllReplayed ==
  ASSUME TypeInv, FilterInv, EditInv
  PROVE  Replayed = Retained
<1> SUFFICES ASSUME LastImport # 0, NEW i \in Retained
             PROVE  SurvivesImport(log[i].client, log[i].clock, Baseline.client, Baseline.clock)
  BY DEF Replayed, SurvivesLatest, Baseline
<1>1. Baseline.client \in Client /\ Baseline.clock = Increment(EmptyClock, Baseline.client)
  BY BaselineOf DEF IsBackup
<1>2. log[i].client \in Client /\ log[i].clock \in Clock
  BY CounterType
<1>3. log[i].clock[Baseline.client] >= 1
  BY DEF FilterInv, Exactness, Exact, EditInv, History, Told
<1> QED
  BY <1>1, <1>2, <1>3, SurvivesBaseline

LEMMA UseRemoteView ==
  ASSUME TypeInv, FilterInv, EditInv, NEW d \in Device, UseRemote(d)
  PROVE  EditInv'
<1> DEFINE own == ident[d]
           a == Baseline.client
<1>1. /\ Retained # {}
      /\ clock' = [clock EXCEPT ![d] = BoundOwnClock(RebuiltClock(d), own, ServerAuthor)]
      /\ author' = [author EXCEPT ![d] = ServerAuthor]
      /\ known' = [known EXCEPT ![d] = UNION {log[i].past : i \in Replayed}]
      /\ stored' = [stored EXCEPT ![d] = {Entry(log[i]) : i \in Replayed}]
      /\ pending' = [pending EXCEPT ![d] = <<>>]
      /\ cursor' = [cursor EXCEPT ![d] = Len(log)]
      /\ UNCHANGED <<issued, ident, minted, log>>
  BY UseRemoteOf
<1>2. /\ clock'[d] = LimitClock(RebuiltClock(d), <<own>> \o ServerAuthor)
      /\ known'[d] = UNION {log[i].past : i \in Retained}
      /\ pending'[d] = <<>> /\ cursor'[d] = Len(log)
      /\ \A e \in Device \ {d} :
           /\ clock'[e] = clock[e] /\ author'[e] = author[e] /\ known'[e] = known[e]
           /\ stored'[e] = stored[e] /\ pending'[e] = pending[e] /\ cursor'[e] = cursor[e]
  BY <1>1, AllReplayed DEF TypeInv, Types, BoundOwnClock
<1>3. /\ Waiting(d)' = {} /\ ~Holding(d)'
      /\ \A e \in Device \ {d} : (Waiting(e)' = Waiting(e)) /\ (Holding(e)' <=> Holding(e))
  BY <1>2 DEF Waiting, Holding
<1>4. OthersStay(d)
  BY <1>1, <1>2, <1>3 DEF OthersStay
<1>5. Current(d)'
  BY <1>1, <1>2, <1>3, SameLog, LastImportOf DEF Current, TypeInv
<1>6. /\ RebuiltClock(d) \in Clock /\ own \in Client
      /\ \A c \in Client : \E i \in Retained : Rebuilt[c] = log[i].clock[c]
      /\ \A c \in Client : RebuiltBaseline(d)[c] <= RebuiltClock(d)[c]
      /\ \A c \in Client : \/ RebuiltClock(d)[c] = RebuiltBaseline(d)[c]
                           \/ \E i \in Retained : RebuiltClock(d)[c] = log[i].clock[c]
      /\ \A c \in Client : \A i \in Retained \ {LastImport} :
           log[i].clock[c] <= RebuiltClock(d)[c]
      /\ Rebuilt \in Clock /\ RebuiltBaseline(d) \in Clock
  BY <1>1, RebuiltTypes, AllReplayed, WaitingType DEF TypeInv
<1>7. /\ ServerAuthor \in Seq(Client)
      /\ \A j \in Retained : Counter(j) \in Nat /\ Counter(j) >= 1 /\ log[j].client \in Client
  <2>1. ServerAuthor = <<>> \/ \E c \in Client : ServerAuthor = <<c>>
    BY ServerAuthorType DEF TypeInv
  <2>2. <<>> \in Seq(Client) /\ \A c \in Client : <<c>> \in Seq(Client)
    OBVIOUS
  <2>3. ServerAuthor \in Seq(Client)
    BY <2>1, <2>2
  <2> QED
    BY <2>3, CounterType DEF EditInv, History, Told
<1>8. ASSUME LastImport # 0
      PROVE  /\ own # a => RebuiltBaseline(d)[a] = 1
             /\ RebuiltBaseline(d)[own] >= Baseline.clock[own]
             /\ \A c \in Client : c # own /\ c # a => RebuiltBaseline(d)[c] = 0
             /\ LastImport \in Retained /\ Counter(LastImport) = 1 /\ log[LastImport].client = a
             /\ Counter(LastImport) = Baseline.clock[a]
  <2> DEFINE w == Baseline.clock
  <2>1. w \in Clock /\ a \in Client /\ own \in Client /\ Rebuilt \in Clock
    BY <1>6, <1>8, BaselineOf
  <2>2. /\ LastImport \in Retained /\ w[a] = 1 /\ log[LastImport] = Baseline
        /\ RebuiltBaseline(d) = ResetByImport(Rebuilt, own, a, w)
    BY <1>8, BaselineOf DEF RebuiltBaseline, Baseline
  <2>3. Counter(LastImport) = 1 /\ Counter(LastImport) = w[a]
    BY <2>2 DEF Counter
  <2>4. /\ own # a => ResetByImport(Rebuilt, own, a, w)[a] = w[a]
        /\ ResetByImport(Rebuilt, own, a, w)[own] >= w[own]
        /\ \A c \in Client : c # own /\ c # a => ResetByImport(Rebuilt, own, a, w)[c] = 0
    <3> HIDE DEF a, own, w
    <3>1. own # a => ResetByImport(Rebuilt, own, a, w)[a] = w[a]
      BY <2>1, ResetByOther
    <3>2. ResetByImport(Rebuilt, own, a, w)[own] >= w[own]
      BY <2>1, ResetByOther
    <3>3. \A c \in Client : c # own /\ c # a => ResetByImport(Rebuilt, own, a, w)[c] = 0
      BY <2>1, ResetByOther
    <3> QED
      BY <3>1, <3>2, <3>3
  <2> QED
    BY <2>2, <2>3, <2>4
<1>9. /\ \A c \in Client : clock'[d][c] \in {0, RebuiltClock(d)[c]}
      /\ clock'[d][own] = RebuiltClock(d)[own]
  <2> DEFINE v == RebuiltClock(d)
  <2>1. v \in Clock
    BY <1>6
  <2> HIDE DEF v, own
  <2>2. LimitClock(v, <<own>> \o ServerAuthor)[own] = v[own]
    BY <1>6, <1>7, <2>1, LimitClockKeepsFirst
  <2>3. \A c \in Client : LimitClock(v, <<own>> \o ServerAuthor)[c] \in {0, v[c]}
    BY <2>1, LimitClockOnlyRemoves
  <2> QED
    BY <1>2, <2>2, <2>3 DEF v
<1>10. Vouched(own, clock'[d])
  <2> SUFFICES ASSUME NEW c \in Client \ {own}, RebuiltClock(d)[c] > 0
               PROVE  \E j \in Retained : log[j].client = c /\ Counter(j) >= RebuiltClock(d)[c]
    BY <1>9 DEF Vouched
  <2>1. ASSUME NEW i \in Retained, RebuiltClock(d)[c] = log[i].clock[c]
        PROVE  \E j \in Retained : log[j].client = c /\ Counter(j) >= RebuiltClock(d)[c]
    <3>1. CASE log[i].client = c
      <4>1. Counter(i) = RebuiltClock(d)[c] /\ Counter(i) \in Nat
        BY <1>7, <2>1, <3>1 DEF Counter
      <4> QED
        BY <3>1, <4>1
    <3>2. CASE log[i].client # c
      BY <2>1, <3>2 DEF EditInv, History, Told, Vouched
    <3> QED
      BY <3>1, <3>2
  <2>2. CASE RebuiltClock(d)[c] = RebuiltBaseline(d)[c]
    <3>1. CASE LastImport = 0
      BY <1>6, <2>1, <2>2, <3>1 DEF RebuiltBaseline
    <3>2. CASE LastImport # 0
      <4>1. CASE c = a
        <5>1. RebuiltBaseline(d)[c] = 1
          BY <1>8, <3>2, <4>1
        <5> QED
          BY <1>8, <2>2, <3>2, <4>1, <5>1
      <4>2. CASE c # a
        <5>1. RebuiltBaseline(d)[c] = 0
          BY <1>8, <3>2, <4>2
        <5> QED
          BY <2>2, <5>1
      <4> QED
        BY <4>1, <4>2
    <3> QED
      BY <3>1, <3>2
  <2> QED
    BY <1>6, <2>1, <2>2
<1>11. Reads(clock'[d], known'[d])
  BY <1>2, WaitingType DEF Reads
<1>12. \A j \in Retained : log[j].client = own => Counter(j) <= clock'[d][own]
  <2> SUFFICES ASSUME NEW j \in Retained, log[j].client = own
               PROVE  Counter(j) <= RebuiltClock(d)[own]
    BY <1>9
  <2>1. CASE j # LastImport
    BY <1>6, <2>1 DEF Counter
  <2>2. CASE j = LastImport
    <3>1. LastImport # 0
      BY <2>2 DEF Retained
    <3>2. own = a /\ Counter(j) = Baseline.clock[own]
      BY <1>8, <2>2, <3>1
    <3>3. /\ RebuiltBaseline(d)[own] >= Counter(j) /\ RebuiltBaseline(d)[own] <= RebuiltClock(d)[own]
          /\ Counter(j) \in Nat /\ RebuiltBaseline(d)[own] \in Nat /\ RebuiltClock(d)[own] \in Nat
      BY <1>6, <1>7, <1>8, <3>1, <3>2 DEF Clock
    <3> HIDE DEF own
    <3> QED
      BY <3>3
  <2> QED
    BY <2>1, <2>2
<1>13. View(d)'
  BY <1>1, <1>3, <1>10, <1>11, <1>12, ViewAfter
<1> QED
  BY <1>1, <1>4, <1>5, <1>13, OwnView

LEMMA UploadImportView ==
  ASSUME TypeInv, FilterInv, EditInv, NEW d \in Device, Upload(d), IsImport(Head(pending[d]))
  PROVE  EditInv'
<1> DEFINE op == Head(pending[d])
           row == [op EXCEPT !.clock = StoredClock(op)]
           own == ident[d]
<1>0. PICK n : n = Len(log) + 1
  OBVIOUS
<1>1. /\ op \in Op /\ op \in Waiting(d) /\ row \in Op
      /\ row.key = op.key /\ row.past = op.past /\ row.client = op.client
      /\ row.kind = op.kind /\ row.clock = StoredClock(op)
      /\ log' = Append(log, row) /\ Len(log') = n /\ Len(log) \in Nat
      /\ log'[n] = row
      /\ \A p \in Waiting(d)' : p \in Waiting(d) /\ p.key # op.key
      /\ \A e \in Device \ {d} : cursor'[e] = cursor[e]
      /\ cursor'[d] = n
      /\ UNCHANGED <<issued, ident, minted, clock, author, known, stored>>
  BY <1>0, UploadOf
<1>2. IsImport(op) /\ IsImport(row)
  BY <1>1 DEF IsImport
<1>3. StoredClock(op) = LimitClock(op.clock, <<op.client>> \o <<>>)
  BY <1>2 DEF StoredClock
<1> HIDE DEF op, row
<1>4. /\ Waiting(d)' = {} /\ ~Holding(d)' /\ op.client = own /\ IsBackup(op) /\ own \in Client
      /\ clock[d] = op.clock /\ known[d] = {op.key}
  <2>1. (\A p \in Waiting(d) : p = op) /\ op.client = own /\ IsBackup(op)
        /\ clock[d] = op.clock /\ known[d] = {op.key} /\ own \in Client
    BY <1>1, <1>2, WaitingType DEF FilterInv, Identities, Holders
  <2>2. Waiting(d)' = {}
    BY <1>1, <2>1
  <2> QED
    BY <2>1, <2>2 DEF Holding
<1>5. LastImport' = n /\ Retained' = {n} /\ Baseline' = row
  <2>1. LastImport' = n /\ Retained' = {n}
    BY <1>0, <1>1, <1>2, AppendedImport DEF TypeInv
  <2> QED
    BY <1>1, <2>1 DEF Baseline
<1>6. /\ row.clock = op.clock /\ op.clock[own] = 1 /\ row.client = own
      /\ \A c \in Client \ {own} : op.clock[c] = 0
      /\ op.past = {op.key}
  <2>1. op.past = {op.key} /\ op.clock = Increment(EmptyClock, own)
    BY <1>4 DEF IsBackup
  <2> HIDE DEF own
  <2> QED
    BY <1>1, <1>3, <1>4, <2>1, BaselineClock
<1>7. Counter(n)' = 1
  BY <1>1, <1>6 DEF Counter
<1>8. \A e \in Device \ {d} : ~Current(e)'
  BY <1>0, <1>1, <1>5 DEF Current, TypeInv, Cursors, Types
<1>9. Current(d)'
  BY <1>1, <1>4, <1>5 DEF Current
<1>10. View(d)'
  <2>1. Vouched(ident[d], clock[d])'
    BY <1>1, <1>4, <1>6 DEF Vouched
  <2>2. Reads(clock[d], known[d])'
    BY <1>1, <1>4, <1>5, <1>6 DEF Reads
  <2>3. \A j \in Retained' : log'[j].client = own => Counter(j)' <= clock'[d][own]
    BY <1>1, <1>4, <1>5, <1>6, <1>7
  <2> QED
    BY <1>1, <1>4, <2>1, <2>2, <2>3 DEF View
<1>11. History'
  <2>1. Told(n)'
    <3>1. Vouched(log[n].client, log[n].clock)'
      BY <1>1, <1>4, <1>6 DEF Vouched
    <3>2. Reads(log[n].clock, log[n].past)'
      BY <1>1, <1>5, <1>6 DEF Reads
    <3> QED
      BY <1>1, <1>5, <1>6, <1>7, <3>1, <3>2 DEF Told
  <2> QED
    BY <1>1, <1>5, <2>1 DEF History
<1>12. Speakers'
  BY <1>1, <1>4, <1>5, <1>6, <1>9 DEF Speakers, FilterInv, Identities
<1>13. AcceptedEditsKnowEarlierOnes'
  BY <1>1, <1>5 DEF AcceptedEditsKnowEarlierOnes
<1> QED
  BY <1>8, <1>9, <1>10, <1>11, <1>12, <1>13 DEF EditInv, Views

\* What the server compares the operation with (detectConflictForEntity): an accepted
\* edit knows the latest retained edit of its entity.
LEMMA AcceptedKnows ==
  ASSUME TypeInv, NEW op \in Op, ~IsImport(op), ~Conflicts(op), Reads(op.clock, op.past),
         NEW i \in OnEntity(op.entity)
  PROVE  /\ LatestOn(op.entity) \in OnEntity(op.entity) /\ i <= LatestOn(op.entity)
         /\ log[LatestOn(op.entity)].key \in op.past
<1> DEFINE l == LatestOn(op.entity)
<1>1. l \in OnEntity(op.entity) /\ i <= l
  BY LatestOnOf DEF TypeInv
<1>2. l \in Retained
  BY <1>1 DEF OnEntity
<1>3. Compare(op.clock, log[l].clock) \in {"GREATER_THAN", "EQUAL"}
  BY DEF Conflicts
<1>4. op.clock \in Clock /\ log[l].clock \in Clock /\ log[l].client \in Client
  BY <1>2, WaitingType, CounterType DEF Op
<1>5. op.clock[log[l].client] >= Counter(l)
  BY <1>3, <1>4, ComparedCovers DEF Counter
<1> QED
  BY <1>1, <1>2, <1>5 DEF Reads

LEMMA UploadUpdateView ==
  ASSUME Fenced, TypeInv, FilterInv, EditInv, NEW d \in Device, Upload(d),
         ~IsImport(Head(pending[d]))
  PROVE  EditInv'
<1> DEFINE op == Head(pending[d])
           row == [op EXCEPT !.clock = StoredClock(op)]
           own == ident[d]
<1>0. PICK n : n = Len(log) + 1
  OBVIOUS
<1>1. /\ op \in Op /\ op \in Waiting(d) /\ row \in Op
      /\ row.key = op.key /\ row.past = op.past /\ row.client = op.client
      /\ row.kind = op.kind /\ row.entity = op.entity /\ row.clock = StoredClock(op)
      /\ log' = Append(log, row) /\ Len(log') = n /\ Len(log) \in Nat
      /\ log'[n] = row
      /\ \A i \in 1..Len(log) : log'[i] = log[i]
      /\ \A p \in Waiting(d)' : p \in Waiting(d) /\ p.key # op.key
      /\ \A e \in Device \ {d} : (Waiting(e)' = Waiting(e)) /\ cursor'[e] = cursor[e]
      /\ cursor'[d] = cursor[d]
      /\ PassesFence(d, op) /\ ~Conflicts(op)
      /\ UNCHANGED <<issued, ident, minted, clock, author, known, stored>>
  BY <1>0, UploadOf
<1>2. ~IsImport(op) /\ ~IsImport(row)
  BY <1>1 DEF IsImport
<1>3. StoredClock(op) \in Clock /\ StoredClock(op)[op.client] = op.clock[op.client]
      /\ \A c \in Client : StoredClock(op)[c] \in {0, op.clock[c]}
  BY <1>1, <1>2, StoredClockOf DEF TypeInv
<1> HIDE DEF op, row
<1>4. /\ \A p \in Waiting(d) : p = op
      /\ Waiting(d)' = {} /\ ~Holding(d) /\ ~Holding(d)' /\ op.client = own
      /\ own \in Client /\ op.clock \in Clock /\ op.key \in op.past
  <2>1. (\A p \in Waiting(d) : p = op) /\ op.client = own
    BY <1>1 DEF FilterInv, Identities
  <2>2. Waiting(d)' = {}
    BY <1>1, <2>1
  <2>3. own \in Client /\ op.clock \in Clock /\ op.key \in op.past
    BY <1>1, WaitingType
  <2> QED
    BY <1>2, <2>1, <2>2, <2>3 DEF Holding
<1>5. \A e \in Device \ {d} : Holding(e)' <=> Holding(e)
  BY <1>1 DEF Holding
<1>6. LastImport' = LastImport /\ Retained' = Retained \cup {n} /\ n \notin Retained
  BY <1>0, <1>1, <1>2, AppendedUpdate DEF TypeInv
<1>7. /\ \A i \in Retained : i \in 1..Len(log) /\ log'[i] = log[i] /\ i < n
      /\ LastImport # 0 => Baseline' = Baseline
  <2>1. \A i \in Retained : i \in 1..Len(log) /\ log'[i] = log[i] /\ i < n
    BY <1>0, <1>1 DEF Retained
  <2>2. LastImport # 0 => LastImport \in Retained
    BY LastImportOf DEF TypeInv
  <2> QED
    BY <1>6, <2>1, <2>2 DEF Baseline
<1>8. Current(d)
  BY <1>1, <1>2, <1>4 DEF PassesFence, Current
<1>9. /\ Vouched(own, op.clock) /\ Reads(op.clock, op.past)
      /\ op.clock[own] >= 1 /\ op.clock[own] <= clock[d][own]
      /\ \A j \in Retained : log[j].client = own => Counter(j) < op.clock[own]
      /\ LastImport # 0 => Baseline.key \in op.past
  BY <1>1, <1>8 DEF EditInv, Views, View
<1>10. /\ \A j \in Retained : Counter(j) \in Nat /\ Counter(j) >= 1 /\ log[j].client \in Client
       /\ \A c \in Client : op.clock[c] \in Nat
  BY <1>4, CounterType DEF EditInv, History, Told, Clock
<1>11. \A j : j \in Retained => (Counter(j)' = Counter(j))
  BY <1>7 DEF Counter
<1>12. Counter(n)' = op.clock[own] /\ log'[n].client = own
  BY <1>1, <1>3, <1>4 DEF Counter
\* Nobody else's clock reaches the counter of the new operation.
<1>13. ASSUME NEW o \in Client, o # own, NEW v \in Clock, Vouched(o, v)
       PROVE  v[own] < op.clock[own]
  <2>1. v[own] \in Nat /\ op.clock[own] \in Nat
    BY <1>4 DEF Clock
  <2>2. CASE v[own] > 0
    <3>1. PICK j \in Retained : log[j].client = own /\ Counter(j) >= v[own]
      BY <1>4, <1>13, <2>2 DEF Vouched
    <3>2. Counter(j) < op.clock[own] /\ Counter(j) \in Nat
      BY <1>9, <1>10, <3>1
    <3> HIDE DEF own
    <3> QED
      BY <2>1, <3>1, <3>2
  <2>3. CASE v[own] = 0
    <3>1. op.clock[own] >= 1
      BY <1>9
    <3> HIDE DEF own
    <3> QED
      BY <2>1, <2>3, <3>1
  <2> HIDE DEF own
  <2> QED
    BY <2>1, <2>2, <2>3
<1>14. ASSUME NEW o, NEW v, Vouched(o, v)
       PROVE  \A c \in Client \ {o} : v[c] > 0 =>
                \E j \in Retained' : log'[j].client = c /\ Counter(j)' >= v[c]
  BY <1>6, <1>7, <1>11, <1>14 DEF Vouched
<1>15. ASSUME NEW v, NEW P, Reads(v, P), v[own] >= op.clock[own] => op.key \in P
       PROVE  \A j \in Retained' : v[log'[j].client] >= Counter(j)' => log'[j].key \in P
  <2> SUFFICES ASSUME NEW j \in Retained', v[log'[j].client] >= Counter(j)'
               PROVE  log'[j].key \in P
    OBVIOUS
  <2>1. CASE j = n
    BY <1>1, <1>12, <1>15, <2>1
  <2>2. CASE j \in Retained
    BY <1>7, <1>11, <1>15, <2>2 DEF Reads
  <2> QED
    BY <1>6, <2>1, <2>2
<1>16. Current(d)' /\ \A e \in Device \ {d} : Current(e)' <=> Current(e)
  BY <1>1, <1>4, <1>5, <1>6, <1>8 DEF Current
<1>17. View(d)'
  <2>1. View(d)
    BY <1>8 DEF EditInv, Views
  <2>2. op.key \in known[d]
    BY <1>1, <1>4 DEF FilterInv, Privacy, Private
  <2>3. Vouched(ident[d], clock[d])'
    BY ZenonT(40), <1>1, <1>14, <2>1 DEF View, Vouched
  <2>4. \A j \in Retained' : clock[d][log'[j].client] >= Counter(j)' => log'[j].key \in known[d]
    BY <1>15, <2>1, <2>2 DEF View
  <2>5. Reads(clock[d], known[d])'
    BY <1>1, <2>4 DEF Reads
  <2>6. \A j \in Retained' : log'[j].client = own => Counter(j)' <= clock[d][own]
    <3>1. \A j \in Retained : log[j].client = own => Counter(j) <= clock[d][own]
      BY <2>1 DEF View
    <3> QED
      BY <1>6, <1>7, <1>9, <1>11, <1>12, <3>1
  <2> QED
    BY <1>1, <1>4, <2>3, <2>5, <2>6 DEF View
<1>18. ASSUME NEW e \in Device \ {d}, Current(e) PROVE View(e)'
  <2>1. View(e)
    BY <1>18 DEF EditInv, Views
  <2>2. ident[e] # own /\ ident[e] \in Client /\ clock[e] \in Clock
    BY WaitingType DEF FilterInv, Identities
  <2>3. clock[e][own] < op.clock[own] /\ clock[e][own] \in Nat
    <3>1. clock[e][own] \in Nat
      BY <1>4, <2>2 DEF Clock
    <3> QED
      BY <1>13, <2>1, <2>2, <3>1 DEF View
  <2>4. Vouched(ident[e], clock[e])'
    BY <1>1, <1>14, <2>1 DEF View, Vouched
  <2>5. ~(clock[e][own] >= op.clock[own])
    <3>1. op.clock[own] \in Nat
      BY <1>4, <1>10
    <3> HIDE DEF own
    <3> QED
      BY <2>3, <3>1
  <2>6. \A j \in Retained' : clock[e][log'[j].client] >= Counter(j)' => log'[j].key \in known[e]
    BY <1>15, <2>1, <2>5 DEF View
  <2>7. Reads(clock[e], known[e])'
    BY <1>1, <2>6 DEF Reads
  <2>8. \A j \in Retained' : log'[j].client = ident[e] => j \in Retained /\ log[j].client = ident[e]
    BY <1>6, <1>7, <1>12, <2>2
  <2>9. ASSUME NEW p \in Waiting(e)
        PROVE  /\ Vouched(ident[e], p.clock)' /\ Reads(p.clock, p.past)'
               /\ \A j \in Retained' : log'[j].client = ident[e] => Counter(j)' < p.clock[ident[e]]
    <3>1. /\ Vouched(ident[e], p.clock) /\ Reads(p.clock, p.past) /\ p.clock \in Clock
          /\ \A j \in Retained : log[j].client = ident[e] => Counter(j) < p.clock[ident[e]]
      BY <2>1, WaitingType DEF View
    <3>2. p.clock[own] < op.clock[own] /\ p.clock[own] \in Nat /\ op.clock[own] \in Nat
      <4>1. p.clock[own] \in Nat /\ op.clock[own] \in Nat
        BY <1>4, <1>10, <3>1 DEF Clock
      <4> QED
        BY <1>13, <2>2, <3>1, <4>1
    <3>3. ~(p.clock[own] >= op.clock[own])
      <4> HIDE DEF own
      <4> QED
        BY <3>2
    <3>4. \A j \in Retained' : p.clock[log'[j].client] >= Counter(j)' => log'[j].key \in p.past
      BY <1>15, <3>1, <3>3
    <3>5. Vouched(ident[e], p.clock)'
      BY <1>1, <1>14, <3>1 DEF Vouched
    <3>6. \A j \in Retained' : log'[j].client = ident[e] => Counter(j)' < p.clock[ident[e]]
      BY <1>11, <2>8, <3>1
    <3> QED
      BY <3>4, <3>5, <3>6 DEF Reads
  <2>10. \A j \in Retained' : log'[j].client = ident[e] => Counter(j)' <= clock[e][ident[e]]
    BY <1>11, <2>1, <2>8 DEF View
  <2> QED
    BY <1>1, <1>6, <1>7, <2>1, <2>4, <2>7, <2>9, <2>10 DEF View
<1>19. Views'
  BY <1>16, <1>17, <1>18 DEF Views
<1>20. ASSUME NEW i \in Retained PROVE Told(i)'
  <2>1. Told(i)
    BY DEF EditInv, History
  <2>2. ~(log[i].clock[own] >= op.clock[own])
    <3>1. log[i].clock[own] \in Nat /\ op.clock[own] \in Nat /\ log[i].clock \in Clock
          /\ log[i].client \in Client
      BY <1>4, <1>10, CounterType DEF Clock
    <3>2. CASE log[i].client = own
      <4>1. log[i].clock[own] < op.clock[own]
        BY <1>9, <3>2 DEF Counter
      <4> HIDE DEF own
      <4> QED
        BY <3>1, <4>1
    <3>3. CASE log[i].client # own
      <4>1. log[i].clock[own] < op.clock[own]
        BY <1>13, <2>1, <3>1, <3>3 DEF Told
      <4> HIDE DEF own
      <4> QED
        BY <3>1, <4>1
    <3> QED
      BY <3>2, <3>3
  <2>3. \A j \in Retained' : log[i].clock[log'[j].client] >= Counter(j)' => log'[j].key \in log[i].past
    BY <1>15, <2>1, <2>2 DEF Told
  <2>4. \A c \in Client \ {log[i].client} : log[i].clock[c] > 0 =>
          \E j \in Retained' : log'[j].client = c /\ Counter(j)' >= log[i].clock[c]
    BY <1>14, <2>1 DEF Told
  <2>5. Vouched(log[i].client, log[i].clock)' /\ Reads(log[i].clock, log[i].past)'
    BY <1>7, <2>3, <2>4 DEF Vouched, Reads
  <2> QED
    BY <1>6, <1>7, <1>11, <2>1, <2>5 DEF Told
<1>21. Told(n)'
  <2>1. \A c \in Client : row.clock[c] \in {0, op.clock[c]}
    BY <1>1, <1>3
  <2>2. \A c \in Client \ {own} : row.clock[c] > 0 =>
          \E j \in Retained' : log'[j].client = c /\ Counter(j)' >= row.clock[c]
    BY <1>9, <1>14, <2>1
  <2>3. ASSUME NEW j \in Retained', row.clock[log'[j].client] >= Counter(j)'
        PROVE  log'[j].key \in op.past
    <3>1. CASE j = n
      BY <1>1, <1>4, <3>1
    <3>2. CASE j \in Retained
      <4>1. row.clock[log[j].client] = op.clock[log[j].client]
        BY <1>7, <1>10, <1>11, <2>1, <2>3, <3>2
      <4> QED
        BY <1>7, <1>9, <1>11, <2>3, <3>2, <4>1 DEF Reads
    <3> QED
      BY <1>6, <3>1, <3>2
  <2>4. Vouched(log[n].client, log[n].clock)' /\ Reads(log[n].clock, log[n].past)'
    BY <1>1, <1>4, <2>2, <2>3 DEF Vouched, Reads
  <2> QED
    BY <1>1, <1>6, <1>7, <1>9, <1>12, <2>4 DEF Told
<1>22. History'
  <2>1. ASSUME NEW i \in Retained', NEW j \in Retained', i < j, log'[i].client = log'[j].client
        PROVE  Counter(i)' < Counter(j)'
    <3>1. i \in Retained
      BY <1>6, <1>7, <2>1, <1>0, <1>1
    <3>2. CASE j = n
      BY <1>7, <1>9, <1>11, <1>12, <2>1, <3>1, <3>2
    <3>3. CASE j \in Retained
      BY <1>7, <1>11, <2>1, <3>1, <3>3 DEF EditInv, History
    <3> QED
      BY <1>6, <3>2, <3>3
  <2> QED
    BY <1>6, <1>20, <1>21, <2>1 DEF History
<1>23. Speakers'
  <2> SUFFICES ASSUME NEW e \in Device, NEW j \in Retained', log'[j].client = ident[e]
               PROVE  Current(e)'
    BY <1>1 DEF Speakers
  <2>1. CASE e = d
    BY <1>16, <2>1
  <2>2. CASE e # d
    <3>1. ident[e] # own
      BY <2>2 DEF FilterInv, Identities
    <3>2. j \in Retained /\ log[j].client = ident[e]
      BY <1>6, <1>7, <1>12, <3>1
    <3> QED
      BY <1>16, <2>2, <3>2 DEF EditInv, Speakers
  <2> QED
    BY <2>1, <2>2
<1>24. AcceptedEditsKnowEarlierOnes'
  <2> SUFFICES ASSUME NEW i \in Retained', NEW j \in Retained', i < j,
                      ~IsImport(log'[i]), ~IsImport(log'[j]), log'[i].entity = log'[j].entity
               PROVE  log'[i].key \in log'[j].past
    BY DEF AcceptedEditsKnowEarlierOnes, IsImport
  <2>1. i \in Retained
    BY <1>0, <1>1, <1>6, <1>7
  <2>2. CASE j \in Retained
    BY <1>7, <2>1, <2>2 DEF EditInv, AcceptedEditsKnowEarlierOnes
  <2>3. CASE j = n
    <3>1. i \in OnEntity(op.entity)
      BY <1>1, <1>7, <2>1, <2>3 DEF OnEntity
    <3> DEFINE l == LatestOn(op.entity)
    <3>2. l \in OnEntity(op.entity) /\ i <= l /\ log[l].key \in op.past
      BY <1>1, <1>2, <1>9, <3>1, AcceptedKnows
    <3>3. log[i].key \in op.past
      <4>1. CASE i = l
        BY <3>2, <4>1
      <4>2. CASE i # l
        <5>1. i < l /\ l \in Retained
          BY <2>1, <3>2, <4>2 DEF OnEntity, Retained
        <5>2. log[i].key \in log[l].past
          BY <2>1, <3>1, <3>2, <5>1 DEF EditInv, AcceptedEditsKnowEarlierOnes, OnEntity
        <5> QED
          BY <1>1, <3>2, <5>1, <5>2 DEF FilterInv, Closure, Closed
      <4> QED
        BY <4>1, <4>2
    <3> QED
      BY <1>1, <1>7, <2>1, <2>3, <3>3
  <2> QED
    BY <1>6, <2>2, <2>3
<1> QED
  BY <1>19, <1>22, <1>23, <1>24 DEF EditInv

LEMMA DownloadView ==
  ASSUME TypeInv, FilterInv, EditInv, MaxClockSize > 1, NEW d \in Device, Download(d)
  PROVE  EditInv'
<1> DEFINE i == NextPosition(d)
<1>1. CASE log[i].client = ident[d]
  <2>1. UNCHANGED <<clock, author, known, stored>>
    BY <1>1 DEF Download, SkipOwn
  <2> QED
    BY <1>1, <2>1, SkipView
<1>2. CASE log[i].client # ident[d]
  <2>1. ReceiveImport(d, i) \/ ReceiveUpdate(d, i) \/ DropFiltered(d, i)
    BY <1>2 DEF Download
  <2>2. CASE ReceiveImport(d, i)
    BY <1>2, <2>2, ReceiveImportView
  <2>3. CASE ReceiveUpdate(d, i)
    BY <2>3, ReceiveUpdateView
  <2>4. CASE DropFiltered(d, i)
    <3>1. ~IsImport(log[i]) /\ UNCHANGED <<clock, author, known, stored>>
      BY <2>4 DEF DropFiltered
    <3> QED
      BY <3>1, SkipView
  <2> QED
    BY <2>1, <2>2, <2>3, <2>4
<1> QED
  BY <1>1, <1>2

LEMMA InitView == Init => EditInv
<1> SUFFICES ASSUME Init PROVE EditInv
  OBVIOUS
<1>1. Len(log) = 0 /\ \A d \in Device : Waiting(d) = {} /\ clock[d] = EmptyClock
  BY DEF Init, Waiting
<1>2. Retained = {}
  BY <1>1 DEF Retained
<1>3. \A d \in Device : View(d)
  BY <1>1, <1>2 DEF View, Vouched, Reads, EmptyClock
<1> QED
  BY <1>2, <1>3 DEF EditInv, Views, History, Speakers, AcceptedEditsKnowEarlierOnes

LEMMA NextView ==
  ASSUME Fenced, ~Migrates, MaxClockSize > 1, TypeInv, FilterInv, EditInv, [Next]_vars
  PROVE  EditInv'
<1>1. CASE UNCHANGED vars
  <2>1. UNCHANGED <<issued, ident, minted, clock, author, known, stored, cursor, pending, log>>
    BY <1>1 DEF vars
  <2>2. \A d \in Device : (Waiting(d)' = Waiting(d)) /\ (Holding(d)' <=> Holding(d))
    BY <2>1 DEF Waiting, Holding
  <2>3. \A d \in Device : Current(d)' <=> Current(d)
    BY <2>1, <2>2, SameLog DEF Current
  <2>4. \A d \in Device : View(d) => View(d)'
    BY <2>1, <2>2, ViewAfter DEF View
  <2>5. History' /\ AcceptedEditsKnowEarlierOnes'
    BY <2>1, SameCounters DEF EditInv
  <2>6. Speakers'
    BY <2>1, <2>3, SameLog DEF EditInv, Speakers
  <2> QED
    BY <2>3, <2>4, <2>5, <2>6 DEF EditInv, Views
<1>2. ASSUME NEW d \in Device, NEW e \in Entity, Capture(d, e) PROVE EditInv'
  BY <1>2, CaptureEdits, EditsView
<1>3. ASSUME NEW d \in Device, SyncImport(d) PROVE EditInv'
  BY <1>3 DEF SyncImport
<1>4. ASSUME NEW d \in Device, Upload(d) PROVE EditInv'
  BY <1>4, UploadUpdateView, UploadImportView
<1>5. ASSUME NEW d \in Device, RejectedUpload(d) PROVE EditInv'
  BY <1>5, RejectedEdits, EditsView, DropsView
<1> QED
  BY <1>1, <1>2, <1>3, <1>4, <1>5, BackupView, DownloadView, UseRemoteView DEF Next

(***************************************************************************)
(* No silent lost update, for any number of devices, entities, operations  *)
(* and restored backups, and every bound on clocks from two entries on:    *)
(* when uploads are fenced, of two retained edits of an entity the later   *)
(* one was made in knowledge of the earlier, although the server compares  *)
(* clocks that it has pruned.                                              *)
(***************************************************************************)
THEOREM NoLostUpdate ==
  ASSUME Fenced, ~Migrates, MaxClockSize > 1
  PROVE  Spec => []AcceptedEditsKnowEarlierOnes
<1>1. Init => FilterInv /\ EditInv
  BY InitFilter, InitView
<1>2. TypeInv /\ FilterInv /\ EditInv /\ [Next]_vars => (FilterInv /\ EditInv)'
  BY NextFilter, NextView
<1>3. EditInv => AcceptedEditsKnowEarlierOnes
  BY DEF EditInv
<1>4. Spec => [](FilterInv /\ EditInv)
  BY <1>1, <1>2, TypesHold, PTL DEF Spec
<1> QED
  BY <1>3, <1>4, PTL
=============================================================================
