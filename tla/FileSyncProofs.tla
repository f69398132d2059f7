---------------------------- MODULE FileSyncProofs ----------------------------
(***************************************************************************)
(* Theorems about FileSync: the types, that nothing acknowledged is lost   *)
(* from the file, that no gap is passed over, and that the protocol        *)
(* implements the folder of SyncFolder, for every set of devices, every    *)
(* number of edits, every length of the list of recent operations and      *)
(* every number of faults.                                                 *)
(*                                                                         *)
(* The theorems but the first are about folders that no user replaces      *)
(* (NoReplacement).  A replacement is put whatever the revision, and two   *)
(* of them that cross lose edits: the run that says so is in the README.   *)
(*                                                                         *)
(* The argument is about clocks.  A file is good when its clock counts     *)
(* exactly the edits its state reflects, device by device; so clocks may   *)
(* be compared in place of states, which is what the code does.  A later   *)
(* file reflects more, and its recent operations bring a device from where *)
(* its cursor stands to where the file is (Reaches), or there is a gap.    *)
(* A step of one device leaves the others a later file (OtherKept), so     *)
(* what each action must show is about its own device.                     *)
(***************************************************************************)
EXTENDS FileSync, SyncClockProofs

-----------------------------------------------------------------------------
(* Edits and clocks *)

\* v does not count more of anybody's edits than w.
Below(v, w) == \A c \in Client : v[c] <= w[c]

\* An edit is numbered by its author.
LEMMA EditPair ==
  ASSUME NEW e \in Edit
  PROVE  e[1] \in Client /\ e[2] \in Nat /\ e = <<e[1], e[2]>> /\ e[2] \in 1..MaxEdits[e[1]]
<1>1. PICK d \in Client : e \in {d} \X (1..MaxEdits[d])
  BY DEF Edit
<1>2. MaxEdits[d] \in Nat
  BY SyncFileAssumption
<1>3. e[1] = d /\ e[2] \in 1..MaxEdits[d] /\ e = <<e[1], e[2]>>
  BY <1>1
<1> QED
  BY <1>2, <1>3

\* And a pair of an author and one of its numbers is an edit.
LEMMA PairEdit ==
  ASSUME NEW d \in Client, NEW n \in 1..MaxEdits[d]
  PROVE  <<d, n>> \in Edit
BY DEF Edit

\* There are finitely many edits.
LEMMA EditFinite == IsFiniteSet(Edit)
<1> DEFINE own(d) == {d} \X (1..MaxEdits[d])
           owns == {own(d) : d \in Client}
<1>1. ASSUME NEW d \in Client PROVE IsFiniteSet(own(d))
  <2>1. MaxEdits[d] \in Nat
    BY SyncFileAssumption
  <2>2. IsFiniteSet(1..MaxEdits[d]) /\ IsFiniteSet({d})
    <3>1. 1 \in Int /\ MaxEdits[d] \in Int
      BY <2>1
    <3>2. IsFiniteSet(1..MaxEdits[d])
      BY <3>1, FS_Interval
    <3> QED
      BY <3>2, FS_Singleton
  <2> QED
    BY <2>2, FS_Product
<1>2. IsFiniteSet(owns)
  <2> DEFINE f == [d \in Client |-> own(d)]
  <2>1. f \in Surjection(Client, owns)
    BY DEF Surjection
  <2> HIDE DEF f, owns
  <2> QED
    BY <2>1, ClientAssumption, FS_Surjection
<1>3. \A s \in owns : IsFiniteSet(s)
  BY <1>1
<1>4. Edit = UNION owns
  BY DEF Edit
<1> HIDE DEF owns
<1> QED
  BY <1>2, <1>3, <1>4, FS_UNION

\* No entry at all.
LEMMA EmptyClockFacts == EmptyClock \in Clock /\ \A c \in Client : EmptyClock[c] = 0
BY DEF EmptyClock, Clock

\* An own edit is counted on top of what the clock holds.
LEMMA IncrementFacts ==
  ASSUME NEW v \in Clock, NEW d \in Client
  PROVE  /\ Increment(v, d) \in Clock
         /\ Increment(v, d)[d] = v[d] + 1
         /\ \A c \in Client \ {d} : Increment(v, d)[c] = v[c]
         /\ Below(v, Increment(v, d))
BY DEF Increment, Clock, Below

\* Merging counts the larger counter of each.
LEMMA MergeFacts ==
  ASSUME NEW v \in Clock, NEW w \in Clock
  PROVE  /\ Merge(v, w) \in Clock
         /\ Below(v, Merge(v, w)) /\ Below(w, Merge(v, w))
         /\ \A c \in Client : Merge(v, w)[c] \in {v[c], w[c]}
BY DEF Merge, Larger, Clock, Below

\* Newer or equal is to count no less.
LEMMA CompareFacts ==
  ASSUME NEW v \in Clock, NEW w \in Clock
  PROVE  /\ Compare(v, w) \in {"GREATER_THAN", "EQUAL"} => Below(w, v)
         /\ Compare(v, w) \notin {"GREATER_THAN", "CONCURRENT"} => Below(v, w)
BY DEF Compare, AheadOf, Clock, Below

\* A clock merged with the clocks of edits is the largest of all, entry by entry.
LEMMA MergedFacts ==
  ASSUME stamp \in [Edit -> Clock], NEW v \in Clock, NEW es \in SUBSET Edit
  PROVE  /\ MergedStamps(v, es) \in Clock
         /\ Below(v, MergedStamps(v, es))
         /\ \A e \in es : Below(stamp[e], MergedStamps(v, es))
         /\ \A c \in Client : \/ MergedStamps(v, es)[c] = v[c]
                              \/ \E e \in es : MergedStamps(v, es)[c] = stamp[e][c]
<1> DEFINE counts(c) == {v[c]} \cup {stamp[e][c] : e \in es}
           m(c) == CHOOSE n \in counts(c) : \A k \in counts(c) : k <= n
<1>1. ASSUME NEW c \in Client
      PROVE  /\ m(c) \in counts(c) /\ counts(c) \subseteq Nat
             /\ \A k \in counts(c) : k <= m(c)
  <2>1. counts(c) \subseteq Nat /\ counts(c) # {}
    BY DEF Clock
  <2>2. IsFiniteSet(counts(c))
    <3> DEFINE f == [e \in es |-> stamp[e][c]]
               image == {stamp[e][c] : e \in es}
    <3>1. IsFiniteSet(es)
      BY EditFinite, FS_Subset
    <3>2. f \in Surjection(es, image)
      BY DEF Surjection
    <3>3. IsFiniteSet({v[c]})
      BY FS_Singleton
    <3>4. counts(c) = {v[c]} \cup image
      OBVIOUS
    <3> HIDE DEF f, image, counts
    <3>5. IsFiniteSet(image)
      BY <3>1, <3>2, FS_Surjection
    <3> QED
      BY <3>3, <3>4, <3>5, FS_Union
  <2>3. counts(c) \in SUBSET Int
    BY <2>1
  <2> HIDE DEF counts
  <2>4. \E n \in counts(c) : \A k \in counts(c) : k <= n
    BY <2>1, <2>2, <2>3, FiniteMax
  <2> QED
    BY <2>1, <2>4
<1>2. \A c \in Client : MergedStamps(v, es)[c] = m(c)
  BY DEF MergedStamps
<1>3. MergedStamps(v, es) = [c \in Client |-> m(c)]
  BY DEF MergedStamps
<1>4. MergedStamps(v, es) \in Clock
  <2> HIDE DEF m, counts
  <2>1. \A c \in Client : m(c) \in Nat
    BY <1>1
  <2> QED
    BY <1>3, <2>1 DEF Clock
<1>5. \A c \in Client : v[c] \in counts(c) /\ \A e \in es : stamp[e][c] \in counts(c)
  OBVIOUS
<1>6. \A c \in Client : m(c) = v[c] \/ \E e \in es : m(c) = stamp[e][c]
  <2> HIDE DEF m
  <2> QED
    BY <1>1
<1> HIDE DEF m, counts
<1> QED
  BY <1>1, <1>2, <1>4, <1>5, <1>6 DEF Below

-----------------------------------------------------------------------------
(* The file *)

Batch == [sv : Nat, ops : SUBSET Edit]

\* A set of numbers that is not empty has a least element.
LEMMA NatMin ==
  ASSUME NEW S \in SUBSET Nat, S # {}
  PROVE  \E m \in S : \A k \in S : m <= k
<1>1. PICK m \in S : \A k \in S : <<k, m>> \notin OpToRel(<, Nat)
  BY WFMin, NatLessThanWellFounded, Zenon
<1>2. \A k \in S : ~(k < m)
  BY <1>1, Zenon DEF OpToRel
<1> QED
  BY <1>2

\* Trimming drops batches from the front, and never the last
\* (appendRecentOpsAtBatchBoundary).
LEMMA TrimFacts ==
  ASSUME NEW s \in Seq(Batch), s # <<>>
  PROVE  /\ Trim(s) \in Seq(Batch)
         /\ \E m \in 1..Len(s) : /\ Len(Trim(s)) = Len(s) - m + 1
                                 /\ \A i \in 1..(Len(s) - m + 1) : Trim(s)[i] = s[m + i - 1]
<1> DEFINE fits == {k \in DOMAIN s : OpCount(From(s, k)) <= MaxRecent} \cup {Len(s)}
           least == CHOOSE k \in fits : \A j \in fits : k <= j
<1>1. Len(s) \in 1..Len(s) /\ DOMAIN s = 1..Len(s)
  OBVIOUS
<1>2. fits \subseteq 1..Len(s) /\ fits # {}
  BY <1>1
<1>3. least \in fits
  <2>1. fits \in SUBSET Nat
    BY <1>2
  <2> HIDE DEF fits
  <2>2. \E k \in fits : \A j \in fits : k <= j
    BY <1>2, <2>1, NatMin
  <2> QED
    BY <2>2
<1>4. least \in 1..Len(s)
  <2> HIDE DEF least, fits
  <2> QED
    BY <1>2, <1>3
<1>5. Trim(s) = SubSeq(s, least, Len(s))
  BY DEF Trim, From
<1> HIDE DEF least, fits
<1>6. SubSeq(s, least, Len(s)) \in Seq(Batch)
  BY <1>4
<1>7. Len(SubSeq(s, least, Len(s))) = Len(s) - least + 1
  BY <1>4
<1>8. \A i \in 1..(Len(s) - least + 1) : SubSeq(s, least, Len(s))[i] = s[least + i - 1]
  BY <1>4
<1> QED
  BY <1>4, <1>5, <1>6, <1>7, <1>8

\* No file is a file.
LEMMA BlankFile ==
  /\ Blank \in File
  /\ Blank.sv = 0 /\ Blank.clock = EmptyClock /\ Blank.state = {} /\ Blank.recent = <<>>
BY EmptyClockFacts DEF Blank, File

\* The parts of a file's content.
LEMMA FileFields ==
  ASSUME NEW f \in File
  PROVE  /\ f.sv \in Nat /\ f.clock \in Clock /\ f.base \in Clock /\ f.by \in Client \cup {0}
         /\ f.state \in SUBSET Edit /\ f.recent \in Seq(Batch) /\ f.whole \in BOOLEAN
BY DEF File, Batch

\* What an upload appends to a file (_buildMergedSyncData).
LEMMA AppendedFacts ==
  ASSUME NEW f \in File, NEW d \in Client, NEW ops \in SUBSET Edit,
         NEW v \in Clock, NEW state \in SUBSET Edit
  PROVE  /\ Appended(f, d, ops, v, state) \in File
         /\ Appended(f, d, ops, v, state).sv = f.sv + 1
         /\ Appended(f, d, ops, v, state).clock = v
         /\ Appended(f, d, ops, v, state).state = state
         /\ Appended(f, d, ops, v, state).recent
              = Trim(Append(f.recent, [sv |-> f.sv + 1, ops |-> ops]))
<1> DEFINE all == Append(f.recent, [sv |-> f.sv + 1, ops |-> ops])
<1>1. f.sv \in Nat /\ f.base \in Clock /\ f.recent \in Seq(Batch) /\ f.whole \in BOOLEAN
  BY FileFields
<1>2. [sv |-> f.sv + 1, ops |-> ops] \in Batch
  BY <1>1 DEF Batch
<1>3. all \in Seq(Batch) /\ all # <<>>
  BY <1>1, <1>2
<1> HIDE DEF all
<1>4. Trim(all) \in Seq(Batch)
  BY <1>3, TrimFacts
<1>5. (f.whole \/ f.recent = <<>> \/ Trim(all) # all) \in BOOLEAN
  BY <1>1
<1>6. Appended(f, d, ops, v, state)
        = [sv |-> f.sv + 1, clock |-> v, base |-> f.base, by |-> d, state |-> state,
           recent |-> Trim(all),
           whole |-> f.whole \/ f.recent = <<>> \/ Trim(all) # all]
  BY DEF Appended, all
<1>7. Appended(f, d, ops, v, state) \in File
  BY <1>1, <1>4, <1>5, <1>6 DEF File, Batch
<1>8. /\ Appended(f, d, ops, v, state).sv = f.sv + 1
      /\ Appended(f, d, ops, v, state).clock = v
      /\ Appended(f, d, ops, v, state).state = state
      /\ Appended(f, d, ops, v, state).recent = Trim(all)
  BY <1>6
<1> QED
  BY <1>7, <1>8 DEF all

\* A full-state operation's file (_uploadSnapshot).
LEMMA ReplacementFile ==
  ASSUME NEW d \in Client, NEW v \in Clock, NEW state \in SUBSET Edit
  PROVE  /\ Replacement(d, v, state) \in File
         /\ Replacement(d, v, state).state = state
<1>1. Blank \in File
  BY BlankFile
<1>2. Replacement(d, v, state) \in File
  BY <1>1 DEF Replacement, File
<1>3. Replacement(d, v, state).state = state
  BY <1>1 DEF Replacement, File
<1> QED
  BY <1>2, <1>3

-----------------------------------------------------------------------------
(* Types *)

Hand   == [file : File, back : File, rev : Nat, ops : SUBSET Edit,
           latest : Nat, fresh : BOOLEAN, force : BOOLEAN]
Stages == {"idle", "gap", "got", "applied", "confirm", "dialog", "synced",
           "back", "put", "stored", "counted", "remote", "rebuilt"}
Import == [clock : Clock, state : SUBSET Edit, pending : BOOLEAN, barred : BOOLEAN,
           sent : BOOLEAN, tail : BOOLEAN, later : SUBSET Edit]
Memory == [cursor : Nat, expected : Nat, rev : Nat, clock : Clock]
Staged == [held : BOOLEAN, expected : Nat, rev : Nat, clock : Clock]
Cached == [rev : Nat, file : File]
Primary == [rev : Nat, kind : {"none", "good", "torn"}, file : File]

\* The types of the files and of what history keeps.
SharedType ==
  /\ primary \in Primary /\ bak \in File
  /\ stamp \in [Edit -> Clock] /\ waived \in SUBSET Edit /\ faults \in 0..MaxFaults

\* The types of the log of each device.
LogType ==
  /\ log \in [Client -> SUBSET Edit] /\ pending \in [Client -> SUBSET Edit]
  /\ known \in [Client -> SUBSET Edit] /\ clock \in [Client -> Clock]
  /\ import \in [Client -> Import] /\ rebuild \in [Client -> BOOLEAN]

\* The types of what its adapter remembers.
AdapterType ==
  /\ mem \in [Client -> Memory] /\ staged \in [Client -> Staged] /\ cache \in [Client -> Cached]

\* The types of its cycle.
FlowType == stage \in [Client -> Stages] /\ hand \in [Client -> Hand]

\* TypeOK by parts, so that a step is shown for the part it changes.
LEMMA TypeParts == TypeOK <=> SharedType /\ LogType /\ AdapterType /\ FlowType
BY DEF TypeOK, SharedType, LogType, AdapterType, FlowType, Hand, Stages, Import, Memory,
       Staged, Cached, Primary

\* And for the next state.
LEMMA TypePartsNext ==
  ASSUME SharedType', LogType', AdapterType', FlowType' PROVE TypeOK'
BY DEF TypeOK, SharedType, LogType, AdapterType, FlowType, Hand, Stages, Import, Memory,
       Staged, Cached, Primary

\* The empty values have the types of the state.
LEMMA NothingTypes ==
  /\ NoHand \in Hand /\ NoImport \in Import /\ NoStage \in Staged /\ NoCache \in Cached
  /\ NoMemory \in Memory
BY BlankFile, EmptyClockFacts
   DEF NoHand, NoImport, NoStage, NoCache, NoMemory, Hand, Import, Staged, Cached, Memory

\* What a cycle goes on with is typed.
LEMMA GotoType ==
  ASSUME FlowType, NEW d \in Client, NEW s \in Stages, NEW h \in Hand, Goto(d, s, h)
  PROVE  FlowType' /\ stage'[d] = s /\ hand'[d] = h
         /\ \A c \in Client \ {d} : stage'[c] = stage[c] /\ hand'[c] = hand[c]
BY DEF FlowType, Goto

\* Leaving the flow keeps the types of the flow.
LEMMA QuitType ==
  ASSUME FlowType, NEW d \in Client, Quit(d)
  PROVE  FlowType' /\ stage'[d] = "idle" /\ hand'[d] = NoHand
         /\ \A c \in Client \ {d} : stage'[c] = stage[c] /\ hand'[c] = hand[c]
<1>1. "idle" \in Stages
  BY DEF Stages
<1> QED
  BY <1>1, NothingTypes, GotoType DEF Quit

\* A fault is counted.
LEMMA FaultType ==
  ASSUME NEW event, faults \in 0..MaxFaults, Fault(event)
  PROVE  faults' \in 0..MaxFaults
BY FileSyncAssumption DEF Fault

\* What a download reads is a file.
LEMMA ContentsType ==
  ASSUME SharedType
  PROVE  /\ Contents \in File /\ primary.file \in File /\ primary.rev \in Nat
         /\ primary.kind \in {"none", "good", "torn"}
BY DEF SharedType, Primary, Contents

\* A read stages its baseline and caches the file, of its device.
LEMMA StageType ==
  ASSUME SharedType, AdapterType, NEW d \in Client, Stage(d)
  PROVE  /\ AdapterType'
         /\ cache'[d].rev = primary.rev /\ cache'[d].file = Contents
         /\ cache'[d] = [rev |-> primary.rev, file |-> Contents]
         /\ staged'[d].held /\ staged'[d].expected = Contents.sv
         /\ staged'[d].rev = (IF primary.kind = "torn" THEN 0 ELSE primary.rev)
         /\ mem'[d].rev \in {0, mem[d].rev}
         /\ mem'[d].cursor = mem[d].cursor /\ mem'[d].expected = mem[d].expected
         /\ \A c \in Client \ {d} :
              cache'[c] = cache[c] /\ staged'[c] = staged[c] /\ mem'[c] = mem[c]
<1>1. Contents \in File /\ primary.rev \in Nat
  BY ContentsType
<1>2. Contents.sv \in Nat /\ Contents.clock \in Clock
  BY <1>1, FileFields
<1> DEFINE r == [rev |-> primary.rev, file |-> Contents]
           s == [held |-> TRUE, expected |-> Contents.sv, clock |-> Contents.clock,
                 rev |-> IF primary.kind = "torn" THEN 0 ELSE primary.rev]
<1>3. r \in Cached
  BY <1>1 DEF Cached
<1>4. s \in Staged
  BY <1>1, <1>2 DEF Staged
<1>5. cache' = [cache EXCEPT ![d] = r] /\ staged' = [staged EXCEPT ![d] = s]
  BY DEF Stage
<1>6. r.rev = primary.rev /\ r.file = Contents /\ s.held /\ s.expected = Contents.sv
      /\ s.rev = (IF primary.kind = "torn" THEN 0 ELSE primary.rev)
  OBVIOUS
<1>7. cache' \in [Client -> Cached] /\ cache'[d] = r
      /\ \A c \in Client \ {d} : cache'[c] = cache[c]
  <2> HIDE DEF r
  <2> QED
    BY <1>3, <1>5 DEF AdapterType
<1>8. staged' \in [Client -> Staged] /\ staged'[d] = s
      /\ \A c \in Client \ {d} : staged'[c] = staged[c]
  <2> HIDE DEF s
  <2> QED
    BY <1>4, <1>5 DEF AdapterType
<1>9. /\ mem' \in [Client -> Memory]
      /\ mem'[d].rev \in {0, mem[d].rev}
      /\ mem'[d].cursor = mem[d].cursor /\ mem'[d].expected = mem[d].expected
      /\ \A c \in Client \ {d} : mem'[c] = mem[c]
  <2>1. mem \in [Client -> Memory]
    BY DEF AdapterType
  <2>2. CASE primary.kind # "torn"
    BY <2>1, <2>2 DEF Stage
  <2>3. CASE primary.kind = "torn"
    <3>1. mem' = [mem EXCEPT ![d].rev = 0]
      BY <2>3 DEF Stage
    <3> QED
      BY <2>1, <3>1 DEF Memory
  <2> QED
    BY <2>2, <2>3
<1> HIDE DEF s
<1> QED
  BY <1>6, <1>7, <1>8, <1>9 DEF AdapterType

\* The operations of a file that are news to a device.
LEMMA NewsFacts ==
  ASSUME NEW d \in Client, NEW file, NEW since
  PROVE  \A e : e \in News(d, file, since) <=>
           \E i \in DOMAIN file.recent :
             /\ e \in file.recent[i].ops
             /\ e[1] # d /\ e \notin log[d] \cup pending[d]
             /\ ~(file.recent[i].sv <= since /\ Covered(e[1], stamp[e], clock[d]))
<1> DEFINE taken(b) == {e \in b.ops :
        /\ e[1] # d /\ e \notin log[d] \cup pending[d]
        /\ ~(b.sv <= since /\ Covered(e[1], stamp[e], clock[d]))}
<1>1. News(d, file, since) = UNION {taken(file.recent[i]) : i \in DOMAIN file.recent}
  BY DEF News
<1>2. \A b, e : e \in taken(b) <=>
        /\ e \in b.ops
        /\ e[1] # d /\ e \notin log[d] \cup pending[d]
        /\ ~(b.sv <= since /\ Covered(e[1], stamp[e], clock[d]))
  BY Zenon
<1> HIDE DEF taken
<1>3. \A e : e \in News(d, file, since) <=>
        \E i \in DOMAIN file.recent : e \in taken(file.recent[i])
  BY <1>1
<1> QED
  BY <1>2, <1>3, Zenon

\* What a download answers.
LEMMA AnswerType ==
  ASSUME SharedType, NEW d \in Client, NEW since \in Nat
  PROVE  /\ Answer(d, since) \in Hand
         /\ Answer(d, since).file = Contents /\ Answer(d, since).latest = Contents.sv
         /\ Answer(d, since).fresh = (since = 0)
         /\ Answer(d, since).ops = News(d, Contents, since)
         /\ Answer(d, since).force = FALSE
<1>1. Contents \in File
  BY ContentsType
<1>2. Contents.sv \in Nat
  BY <1>1, FileFields
<1>3. News(d, Contents, since) \in SUBSET Edit
  <2>1. \A i \in DOMAIN Contents.recent : Contents.recent[i].ops \in SUBSET Edit
    <3>1. Contents.recent \in Seq(Batch)
      BY <1>1, FileFields
    <3>2. \A i \in DOMAIN Contents.recent : Contents.recent[i] \in Batch
      BY <3>1
    <3> QED
      BY <3>2 DEF Batch
  <2>2. \A e \in News(d, Contents, since) :
           \E i \in DOMAIN Contents.recent : e \in Contents.recent[i].ops
    BY NewsFacts, Zenon
  <2> QED
    BY <2>1, <2>2
<1>4. (since = 0) \in BOOLEAN /\ NoHand \in Hand
  BY NothingTypes
<1>5. Answer(d, since) \in Hand
  BY <1>1, <1>2, <1>3, <1>4 DEF Answer, Hand
<1>6. /\ Answer(d, since).file = Contents /\ Answer(d, since).latest = Contents.sv
      /\ Answer(d, since).fresh = (since = 0)
      /\ Answer(d, since).ops = News(d, Contents, since)
      /\ Answer(d, since).force = NoHand.force
  BY <1>4 DEF Answer, Hand
<1>7. NoHand.force = FALSE
  BY DEF NoHand
<1> QED
  BY <1>5, <1>6, <1>7

\* What is remembered when a download has been applied.
LEMMA PromotedType ==
  ASSUME AdapterType, NEW d \in Client, NEW latest \in Nat
  PROVE  /\ Promoted(d, latest) \in Memory
         /\ Promoted(d, latest).cursor = latest
         /\ Promoted(d, latest).expected \in {staged[d].expected, mem[d].expected}
         /\ Promoted(d, latest).rev = (IF staged[d].rev # 0 THEN staged[d].rev ELSE mem[d].rev)
<1>1. staged[d] \in Staged /\ mem[d] \in Memory
  BY DEF AdapterType
<1> QED
  BY <1>1 DEF Promoted, Memory, Staged

\* The file an upload would write.
LEMMA AppendixFacts ==
  ASSUME SharedType, LogType, NEW d \in Client, NEW file \in File
  PROVE  /\ Appendix(d, file) \in File
         /\ Appendix(d, file).sv = file.sv + 1
         /\ Appendix(d, file).clock = MergedStamps(file.clock, pending[d])
         /\ Appendix(d, file).state = known[d]
         /\ Appendix(d, file).recent
              = Trim(Append(file.recent, [sv |-> file.sv + 1, ops |-> pending[d]]))
<1>1. pending[d] \in SUBSET Edit /\ known[d] \in SUBSET Edit
  BY DEF LogType
<1>2. file.clock \in Clock /\ stamp \in [Edit -> Clock]
  BY FileFields DEF SharedType
<1>3. MergedStamps(file.clock, pending[d]) \in Clock
  BY <1>1, <1>2, MergedFacts
<1> QED
  BY <1>1, <1>3, AppendedFacts DEF Appendix

\* What a device reads is a file with its revision.
LEMMA CurrentType ==
  ASSUME SharedType, AdapterType, NEW d \in Client
  PROVE  Current(d).rev \in Nat /\ Current(d).file \in File
<1>1. cache[d] \in Cached
  BY DEF AdapterType
<1>2. primary.rev \in Nat /\ primary.file \in File
  BY ContentsType
<1> QED
  BY <1>1, <1>2 DEF Current, Cached

\* What an upload takes in hand.
LEMMA UploadHand ==
  ASSUME NEW r \in Nat, NEW ops \in SUBSET Edit, NEW f \in File, NEW b \in File
  PROVE  LET h == [NoHand EXCEPT !.rev = r, !.ops = ops, !.file = f, !.back = b] IN
         h \in Hand /\ h.rev = r /\ h.ops = ops /\ h.file = f /\ h.back = b /\ ~h.force
<1>1. NoHand \in Hand /\ NoHand.force = FALSE
  BY NothingTypes DEF NoHand
<1> QED
  BY <1>1 DEF Hand

\* The hand of an upload into an empty folder.
LEMMA FirstUploadHand ==
  ASSUME NEW ops \in SUBSET Edit, NEW f \in File
  PROVE  LET h == [NoHand EXCEPT !.ops = ops, !.file = f] IN
         h \in Hand /\ h.rev = 0 /\ h.ops = ops /\ h.file = f /\ ~h.force
<1>1. NoHand \in Hand /\ NoHand.force = FALSE /\ NoHand.rev = 0
  BY NothingTypes DEF NoHand
<1> QED
  BY <1>1 DEF Hand

\* The parts of what a device has in hand.
LEMMA HandFields ==
  ASSUME FlowType, NEW d \in Client
  PROVE  /\ hand[d] \in Hand /\ stage[d] \in Stages
         /\ hand[d].file \in File /\ hand[d].back \in File /\ hand[d].rev \in Nat
         /\ hand[d].ops \in SUBSET Edit /\ hand[d].latest \in Nat
         /\ hand[d].fresh \in BOOLEAN /\ hand[d].force \in BOOLEAN
BY DEF FlowType, Hand

\* The parts of a device's log.
LEMMA LogFields ==
  ASSUME LogType, NEW d \in Client
  PROVE  /\ log[d] \in SUBSET Edit /\ pending[d] \in SUBSET Edit /\ known[d] \in SUBSET Edit
         /\ clock[d] \in Clock /\ rebuild[d] \in BOOLEAN
         /\ import[d] \in Import /\ import[d].clock \in Clock /\ import[d].state \in SUBSET Edit
         /\ import[d].pending \in BOOLEAN /\ import[d].barred \in BOOLEAN
         /\ import[d].sent \in BOOLEAN /\ import[d].tail \in BOOLEAN
         /\ import[d].later \in SUBSET Edit
BY DEF LogType, Import

\* What is kept of a full-state operation stays of its type, and so does the
\* clock that a restart rebuilds from it.
LEMMA ImportType ==
  ASSUME LogType, stamp \in [Edit -> Clock], NEW d \in Client
  PROVE  /\ Snapshotted(import[d]) \in Import
         /\ Rejected(import[d]) \in Import
         /\ \A es \in SUBSET Edit : Logged(d, es) \in [Client -> Import]
         /\ RestartClock(d) \in Clock
<1>1. /\ import \in [Client -> Import] /\ import[d] \in Import /\ import[d].clock \in Clock
      /\ import[d].later \in SUBSET Edit /\ clock[d] \in Clock
      /\ import[d].pending \in BOOLEAN /\ import[d].barred \in BOOLEAN
  BY LogFields DEF LogType
<1>2. Snapshotted(import[d]) \in Import
  BY <1>1 DEF Snapshotted, Import
<1>3. Rejected(import[d]) \in Import
  <2> DEFINE i == Snapshotted(import[d])
             bar == import[d].barred \/ import[d].pending
  <2>1. i \in Import /\ bar \in BOOLEAN
    BY <1>1, <1>2
  <2>2. Rejected(import[d]) = [i EXCEPT !.pending = FALSE, !.barred = bar]
    BY DEF Rejected
  <2> HIDE DEF i, bar
  <2> QED
    BY <2>1, <2>2 DEF Import
<1>4. ASSUME NEW es \in SUBSET Edit PROVE Logged(d, es) \in [Client -> Import]
  <2> DEFINE rows == IF import[d].tail THEN import[d].later \cup es ELSE import[d].later
  <2>1. rows \in SUBSET Edit
    BY <1>1
  <2>2. Logged(d, es) = [import EXCEPT ![d].later = rows]
    BY DEF Logged
  <2> HIDE DEF rows
  <2>3. [import[d] EXCEPT !.later = rows] \in Import
    BY <1>1, <2>1 DEF Import
  <2> QED
    BY <1>1, <2>2, <2>3
<1>5. RestartClock(d) \in Clock
  <2> DEFINE own == Larger(clock[d][d], import[d].clock[d])
             reset == [EmptyClock EXCEPT ![d] = own]
  <2>1. own \in Nat
    BY <1>1 DEF Larger, Clock
  <2> HIDE DEF own
  <2>2. reset \in Clock
    BY <2>1, EmptyClockFacts DEF Clock
  <2> HIDE DEF reset
  <2>3. MergedStamps(reset, import[d].later) \in Clock
    BY <1>1, <2>2, MergedFacts
  <2> QED
    BY <1>1, <2>3 DEF RestartClock, reset, own
<1> QED
  BY <1>2, <1>3, <1>4, <1>5

\* Where there is no full-state operation of its own, none of a device's steps
\* changes that, and a restart leaves the clock as it is.
LEMMA NoImportKept ==
  ASSUME LogType, NEW d \in Client, import[d] = NoImport
  PROVE  /\ \A es : Logged(d, es) = import
         /\ [import EXCEPT ![d] = Snapshotted(@)] = import
         /\ [import EXCEPT ![d] = Rejected(@)] = import
         /\ RestartClock(d) = clock[d]
<1>1. import \in [Client -> Import] /\ import[d] \in Import
  BY DEF LogType
<1>2. /\ import[d].tail = FALSE /\ import[d].later = {} /\ import[d].pending = FALSE
      /\ import[d].barred = FALSE
  BY DEF NoImport
<1>3. ASSUME NEW es PROVE Logged(d, es) = import
  <2>1. import[d] = [import[d] EXCEPT !.later = import[d].later]
    BY <1>1 DEF Import
  <2>2. Logged(d, es) = [import EXCEPT ![d].later = import[d].later]
    BY <1>2 DEF Logged
  <2> QED
    BY <1>1, <2>1, <2>2
<1>4. Snapshotted(import[d]) = import[d]
  <2>1. [import[d] EXCEPT !.tail = FALSE] = import[d]
    BY <1>1, <1>2 DEF Import
  <2>2. [import[d] EXCEPT !.later = {}] = import[d]
    BY <1>1, <1>2 DEF Import
  <2> QED
    BY <2>1, <2>2 DEF Snapshotted
<1>5. Rejected(import[d]) = import[d]
  <2>1. [import[d] EXCEPT !.pending = FALSE] = import[d]
    BY <1>1, <1>2 DEF Import
  <2>2. (import[d].barred \/ import[d].pending) = FALSE
    BY <1>2
  <2>3. [import[d] EXCEPT !.barred = FALSE] = import[d]
    BY <1>1, <1>2 DEF Import
  <2> QED
    BY <1>4, <2>1, <2>2, <2>3 DEF Rejected
<1>6. RestartClock(d) = clock[d]
  BY <1>2 DEF RestartClock
<1>7. [import EXCEPT ![d] = import[d]] = import
  BY <1>1
<1>8. [import EXCEPT ![d] = Snapshotted(@)] = import
  BY <1>4, <1>7
<1>9. [import EXCEPT ![d] = Rejected(@)] = import
  BY <1>5, <1>7
<1> QED
  BY <1>3, <1>6, <1>8, <1>9

\* The parts of what the adapter remembers.
LEMMA AdapterFields ==
  ASSUME AdapterType, NEW d \in Client
  PROVE  /\ mem[d] \in Memory /\ staged[d] \in Staged /\ cache[d] \in Cached
         /\ mem[d].cursor \in Nat /\ mem[d].expected \in Nat /\ mem[d].rev \in Nat
         /\ mem[d].clock \in Clock
         /\ staged[d].held \in BOOLEAN /\ staged[d].expected \in Nat /\ staged[d].rev \in Nat
         /\ staged[d].clock \in Clock
         /\ cache[d].rev \in Nat /\ cache[d].file \in File
BY DEF AdapterType, Memory, Staged, Cached

-----------------------------------------------------------------------------
(* Every step keeps the types *)

\* The initial states have the types.
LEMMA TypeInit == ASSUME Init PROVE TypeOK
<1>1. Blank \in File /\ NoHand \in Hand /\ NoImport \in Import /\ NoStage \in Staged
      /\ NoCache \in Cached /\ NoMemory \in Memory
  BY NothingTypes, BlankFile
<1>2. SharedType
  BY <1>1, EmptyClockFacts, FileSyncAssumption DEF Init, SharedType, Primary
<1>3. LogType
  BY <1>1, EmptyClockFacts DEF Init, LogType
<1>4. AdapterType /\ FlowType
  BY <1>1 DEF Init, AdapterType, FlowType, Stages
<1> QED
  BY <1>2, <1>3, <1>4, TypeParts

\* What the first variables' types follow from, where a step leaves them.
LEMMA TypeKept ==
  /\ SharedType /\ primary' = primary /\ bak' = bak /\ stamp' = stamp /\ waived' = waived /\ faults' = faults => SharedType'
  /\ LogType /\ log' = log /\ pending' = pending /\ known' = known /\ clock' = clock /\ import' = import /\ rebuild' = rebuild => LogType'
  /\ AdapterType /\ mem' = mem /\ staged' = staged /\ cache' = cache => AdapterType'
  /\ FlowType /\ stage' = stage /\ hand' = hand => FlowType'
BY DEF SharedType, LogType, AdapterType, FlowType

\* A fault counts, and changes nothing shared by itself.
LEMMA FaultSharedType ==
  ASSUME SharedType, NEW event, Fault(event), primary' = primary /\ bak' = bak /\ stamp' = stamp /\ waived' = waived
  PROVE  SharedType'
<1>1. faults' \in 0..MaxFaults
  BY FaultType DEF SharedType
<1> QED
  BY <1>1 DEF SharedType

\* A user's edit keeps the types.
LEMMA WriteType ==
  ASSUME TypeOK, NEW d \in Client, Write(d) PROVE TypeOK'
<1>1. SharedType /\ LogType /\ AdapterType /\ FlowType
  BY TypeParts
<1> DEFINE e == <<d, Cardinality(Written(d)) + 1>>
<1>2. /\ e \in Edit
      /\ clock' = [clock EXCEPT ![d] = Increment(@, d)]
      /\ stamp' = [stamp EXCEPT ![e] = clock'[d]]
      /\ pending' = [pending EXCEPT ![d] = @ \cup {e}]
      /\ known' = [known EXCEPT ![d] = @ \cup {e}] /\ import' = Logged(d, {e})
      /\ primary' = primary /\ bak' = bak /\ log' = log /\ rebuild' = rebuild /\ mem' = mem /\ staged' = staged /\ cache' = cache /\ stage' = stage /\ hand' = hand /\ waived' = waived /\ faults' = faults
  BY DEF Write, remote, adapter, flow
<1> HIDE DEF e
<1>3. clock' \in [Client -> Clock]
  <2>1. Increment(clock[d], d) \in Clock
    BY <1>1, LogFields, IncrementFacts
  <2> QED
    BY <1>1, <1>2, <2>1 DEF LogType
<1>4. stamp' \in [Edit -> Clock]
  BY <1>1, <1>2, <1>3 DEF SharedType
<1>5. SharedType'
  BY <1>1, <1>2, <1>4 DEF SharedType
<1>6. LogType'
  <2>1. {e} \in SUBSET Edit /\ stamp \in [Edit -> Clock]
    BY <1>1, <1>2 DEF SharedType
  <2>2. import' \in [Client -> Import]
    BY <1>1, <1>2, <2>1, ImportType
  <2> QED
    BY <1>1, <1>2, <1>3, <2>2 DEF LogType
<1>7. AdapterType' /\ FlowType'
  BY <1>1, <1>2, TypeKept
<1> QED
  BY <1>5, <1>6, <1>7, TypePartsNext

\* So do pruning, a restart and the expiry of the read cache.
LEMMA QuietType ==
  ASSUME TypeOK, NEW d \in Client, Prune(d) \/ Crash(d) \/ Expire(d) PROVE TypeOK'
<1>1. SharedType /\ LogType /\ AdapterType /\ FlowType
  BY TypeParts
<1>2. CASE Prune(d)
  <2>1. primary' = primary /\ bak' = bak /\ stamp' = stamp /\ waived' = waived /\ Fault("prune")
    BY <1>2 DEF Prune, remote
  <2>2. SharedType'
    BY <1>1, <2>1, FaultSharedType
  <2>3. LogType'
    <3>1. Snapshotted(import[d]) \in Import
      BY <1>1, ImportType DEF SharedType
    <3> QED
      BY <1>1, <1>2, <3>1 DEF Prune, LogType
  <2>4. mem' = mem /\ staged' = staged /\ cache' = cache /\ stage' = stage /\ hand' = hand
    BY <1>2 DEF Prune, adapter, flow
  <2> QED
    BY <1>1, <2>2, <2>3, <2>4, TypeKept, TypePartsNext
<1>3. CASE Crash(d)
  <2>1. primary' = primary /\ bak' = bak /\ stamp' = stamp /\ waived' = waived /\ Fault("crash")
    BY <1>3 DEF Crash, remote
  <2>2. SharedType'
    BY <1>1, <2>1, FaultSharedType
  <2>3. AdapterType'
    BY <1>1, <1>3, NothingTypes DEF Crash, AdapterType
  <2>4. FlowType'
    BY <1>1, <1>3, QuitType DEF Crash
  <2>5. LogType'
    <3>1. RestartClock(d) \in Clock
      BY <1>1, ImportType DEF SharedType
    <3> QED
      BY <1>1, <1>3, <3>1 DEF Crash, LogType
  <2> QED
    BY <2>2, <2>3, <2>4, <2>5, TypePartsNext
<1>4. CASE Expire(d)
  <2>1. primary' = primary /\ bak' = bak /\ stamp' = stamp /\ waived' = waived
    BY <1>4 DEF Expire, remote
  <2>2. faults' = faults \/ Fault("slow")
    BY <1>4 DEF Expire
  <2>3. SharedType'
    BY <1>1, <2>1, <2>2, FaultSharedType, TypeKept
  <2>4. AdapterType'
    BY <1>1, <1>4, NothingTypes DEF Expire, AdapterType
  <2>5. log' = log /\ pending' = pending /\ known' = known /\ clock' = clock /\ import' = import /\ rebuild' = rebuild /\ stage' = stage /\ hand' = hand
    BY <1>4 DEF Expire, oplog, flow
  <2> QED
    BY <1>1, <2>3, <2>4, <2>5, TypeKept, TypePartsNext
<1> QED
  BY <1>2, <1>3, <1>4

\* A step of the cycle that changes only the cycle.
LEMMA OnlyGoto ==
  ASSUME TypeOK, NEW d \in Client, NEW s \in Stages, NEW h \in Hand, Goto(d, s, h),
         UNCHANGED <<remote, oplog, adapter, history>>
  PROVE  TypeOK'
<1>1. SharedType /\ LogType /\ AdapterType /\ FlowType
  BY TypeParts
<1>2. FlowType'
  BY <1>1, GotoType
<1>3. SharedType' /\ LogType' /\ AdapterType'
  BY <1>1 DEF remote, oplog, adapter, history, SharedType, LogType, AdapterType
<1> QED
  BY <1>2, <1>3, TypePartsNext

\* A step that only leaves the flow keeps the types.
LEMMA OnlyQuit ==
  ASSUME TypeOK, NEW d \in Client, Quit(d), UNCHANGED <<remote, oplog, adapter, history>>
  PROVE  TypeOK'
<1>1. "idle" \in Stages /\ NoHand \in Hand
  BY NothingTypes DEF Stages
<1> QED
  BY <1>1, OnlyGoto DEF Quit

\* The steps of a download keep the types.
LEMMA DownloadType ==
  ASSUME TypeOK, NEW d \in Client, Download(d) PROVE TypeOK'
<1>1. SharedType /\ LogType /\ AdapterType /\ FlowType
  BY TypeParts
<1>2. mem[d].cursor \in Nat /\ mem[d].expected \in Nat
  BY <1>1, AdapterFields
<1>3. CASE Fetch(d)
  <2>1. Answer(d, mem[d].cursor) \in Hand
    BY <1>1, <1>2, AnswerType
  <2>2. \E s \in {"gap", "got"} : Goto(d, s, Answer(d, mem[d].cursor))
    BY <1>3 DEF Fetch
  <2>3. FlowType'
    BY <1>1, <2>1, <2>2, GotoType DEF Stages
  <2>4. AdapterType'
    BY <1>1, <1>3, StageType DEF Fetch
  <2>5. SharedType' /\ LogType'
    BY <1>1, <1>3 DEF Fetch, remote, oplog, history, SharedType, LogType
  <2> QED
    BY <2>3, <2>4, <2>5, TypePartsNext
<1>4. CASE FetchUnchanged(d)
  <2> DEFINE h == [NoHand EXCEPT !.latest = mem[d].expected]
  <2>1. h \in Hand
    BY <1>2, NothingTypes DEF Hand
  <2>2. Goto(d, "got", h) /\ UNCHANGED <<remote, oplog, adapter, history>>
    BY <1>4 DEF FetchUnchanged
  <2>3. "got" \in Stages
    BY DEF Stages
  <2> HIDE DEF h
  <2> QED
    BY <2>1, <2>2, <2>3, OnlyGoto
<1>5. CASE FetchNothing(d)
  <2>1. Goto(d, "got", NoHand) /\ UNCHANGED <<remote, oplog, adapter, history>>
    BY <1>5 DEF FetchNothing
  <2>2. "got" \in Stages
    BY DEF Stages
  <2> QED
    BY <2>1, <2>2, NothingTypes, OnlyGoto
<1>6. CASE Refetch(d)
  <2>1. LogType'
    BY <1>1, <1>6 DEF Refetch, oplog, LogType
  <2>2. primary' = primary /\ bak' = bak /\ stamp' = stamp /\ waived' = waived
    BY <1>6 DEF Refetch, remote
  <2>3. CASE Readable /\ Stage(d) /\ Goto(d, "got", Answer(d, 0)) /\ UNCHANGED faults
    <3>1. Answer(d, 0) \in Hand /\ "got" \in Stages
      BY <1>1, AnswerType DEF Stages
    <3>2. FlowType' /\ AdapterType'
      BY <1>1, <2>3, <3>1, GotoType, StageType
    <3>3. SharedType'
      BY <1>1, <2>2, <2>3, TypeKept
    <3> QED
      BY <2>1, <3>2, <3>3, TypePartsNext
  <2>4. CASE Fault("lost") /\ Quit(d) /\ UNCHANGED adapter
    <3>1. SharedType'
      BY <1>1, <2>2, <2>4, FaultSharedType
    <3>2. FlowType'
      BY <1>1, <2>4, QuitType
    <3>3. AdapterType'
      BY <1>1, <2>4 DEF adapter, AdapterType
    <3> QED
      BY <2>1, <3>1, <3>2, <3>3, TypePartsNext
  <2> QED
    BY <1>6, <2>3, <2>4 DEF Refetch
<1> QED
  BY <1>3, <1>4, <1>5, <1>6 DEF Download

\* The steps that apply what was read keep the types.
LEMMA ApplyType ==
  ASSUME TypeOK, NEW d \in Client, Apply(d) PROVE TypeOK'
<1>1. SharedType /\ LogType /\ AdapterType /\ FlowType
  BY TypeParts
<1>2. /\ hand[d] \in Hand /\ hand[d].file \in File /\ hand[d].ops \in SUBSET Edit
      /\ hand[d].latest \in Nat /\ NoHand \in Hand
  BY <1>1, HandFields, NothingTypes
<1>3. /\ log[d] \in SUBSET Edit /\ pending[d] \in SUBSET Edit /\ known[d] \in SUBSET Edit
      /\ clock[d] \in Clock
  BY <1>1, LogFields
<1>4. stamp \in [Edit -> Clock]
  BY <1>1 DEF SharedType
<1>5. {"got", "applied", "confirm", "dialog", "synced"} \subseteq Stages
  BY DEF Stages
<1>6. CASE ApplyNothing(d) \/ SkipSnapshot(d)
  <2>1. Goto(d, "applied", hand[d]) /\ UNCHANGED <<remote, oplog, adapter, history>>
    BY <1>6 DEF ApplyNothing, SkipSnapshot
  <2> QED
    BY <1>2, <1>5, <2>1, OnlyGoto
<1>7. CASE ApplyOps(d)
  <2> DEFINE admitted == {e \in hand[d].ops : Survives(d, e)}
  <2>1. admitted \in SUBSET Edit
    BY <1>2
  <2>2. MergedStamps(clock[d], admitted) \in Clock
    <3> HIDE DEF admitted
    <3> QED
      BY <1>3, <1>4, <2>1, MergedFacts
  <2>3. SharedType' /\ AdapterType' /\ pending' = pending /\ rebuild' = rebuild
    BY <1>1, <1>7 DEF ApplyOps, remote, adapter, history, SharedType, AdapterType
  <2>4. \/ /\ Goto(d, "dialog", NoHand)
           /\ log' = log /\ known' = known /\ clock' = clock /\ import' = import
        \/ /\ Goto(d, "applied", hand[d]) /\ import' = Logged(d, admitted)
           /\ log' = [log EXCEPT ![d] = @ \cup admitted]
           /\ known' = [known EXCEPT ![d] = @ \cup admitted]
           /\ clock' = [clock EXCEPT ![d] = MergedStamps(@, admitted)]
    BY <1>7 DEF ApplyOps
  <2> HIDE DEF admitted
  <2>5. LogType'
    <3>1. Logged(d, admitted) \in [Client -> Import]
      BY <1>1, <1>4, <2>1, ImportType
    <3> QED
      BY <1>1, <1>3, <2>1, <2>2, <2>3, <2>4, <3>1 DEF LogType
  <2>6. FlowType'
    BY <1>1, <1>2, <1>5, <2>4, GotoType
  <2> QED
    BY <2>3, <2>5, <2>6, TypePartsNext
<1>8. CASE AskBeforeSnapshot(d)
  <2>1. /\ \E s \in {"confirm", "dialog"} : Goto(d, s, hand[d])
        /\ UNCHANGED <<remote, oplog, adapter, history>>
    BY <1>8 DEF AskBeforeSnapshot
  <2> QED
    BY <1>2, <1>5, <2>1, OnlyGoto
<1>9. CASE ApplySnapshot(d)
  <2>1. Hydrate(d)
    BY <1>9 DEF ApplySnapshot
  <2> DEFINE file == hand[d].file
             keeps == Unsynced(d) /\ ~SnapshotAhead(clock[d], file.clock)
             kept == IF keeps
                     THEN {e \in pending[d] :
                             Compare(stamp[e], file.clock) \in {"GREATER_THAN", "CONCURRENT"}}
                     ELSE {}
  <2>2. kept \in SUBSET Edit /\ file.state \in SUBSET Edit /\ file.clock \in Clock
    BY <1>2, <1>3, FileFields
  <2>3. Increment(Merge(clock[d], file.clock), d) \in Clock
    BY <1>3, <2>2, MergeFacts, IncrementFacts
  <2>4. /\ known' = [known EXCEPT ![d] = file.state \cup kept]
        /\ pending' = [pending EXCEPT ![d] = kept]
        /\ log' = [log EXCEPT ![d] = @ \cup hand[d].ops]
        /\ clock' = [clock EXCEPT ![d] = Increment(Merge(@, file.clock), d)]
        /\ import' = [import EXCEPT ![d] = Rejected(@)]
        /\ Goto(d, "applied", hand[d])
        /\ UNCHANGED <<remote, rebuild, adapter, history>>
    BY <2>1 DEF Hydrate
  <2> HIDE DEF file, kept
  <2>5. import' \in [Client -> Import]
    <3>1. Rejected(import[d]) \in Import
      BY <1>1, <1>4, ImportType
    <3>2. import \in [Client -> Import]
      BY <1>1 DEF LogType
    <3> QED
      BY <2>4, <3>1, <3>2
  <2>6. LogType'
    BY <1>1, <1>2, <1>3, <2>2, <2>3, <2>4, <2>5 DEF LogType
  <2>7. FlowType'
    BY <1>1, <1>2, <1>5, <2>4, GotoType
  <2>8. SharedType' /\ AdapterType'
    BY <1>1, <2>4 DEF remote, adapter, history, SharedType, AdapterType
  <2> QED
    BY <2>6, <2>7, <2>8, TypePartsNext
<1>10. CASE Commit(d)
  <2>1. /\ mem' = [mem EXCEPT ![d] = Promoted(d, hand[d].latest)]
        /\ staged' = [staged EXCEPT ![d] = NoStage]
        /\ Goto(d, "synced", NoHand)
        /\ UNCHANGED <<remote, oplog, cache, history>>
    BY <1>10 DEF Commit
  <2>2. Promoted(d, hand[d].latest) \in Memory
    BY <1>1, <1>2, PromotedType
  <2>3. AdapterType'
    BY <1>1, <2>1, <2>2, NothingTypes DEF AdapterType
  <2>4. FlowType'
    BY <1>1, <1>2, <1>5, <2>1, GotoType
  <2>5. SharedType' /\ LogType'
    BY <1>1, <2>1 DEF remote, oplog, history, SharedType, LogType
  <2> QED
    BY <2>3, <2>4, <2>5, TypePartsNext
<1> QED
  BY <1>6, <1>7, <1>8, <1>9, <1>10 DEF Apply

\* What a forced write drops are edits.
LEMMA OverwrittenType ==
  ASSUME SharedType, FlowType, NEW d \in Client
  PROVE  Overwritten(d) \in SUBSET Edit
<1>1. primary.file \in File
  BY ContentsType
<1>2. Stored \in SUBSET Edit
  BY <1>1, FileFields DEF Stored
<1> QED
  BY <1>2 DEF Overwritten

\* Two fields of a file's record replaced (a torn put).
LEMMA ExceptType ==
  ASSUME NEW p, NEW R, NEW K, NEW F, p \in [rev : R, kind : K, file : F],
         NEW n \in R, NEW k \in K
  PROVE  [p EXCEPT !.rev = n, !.kind = k] \in [rev : R, kind : K, file : F]
OBVIOUS

\* A write cut short leaves the content that the file had.
LEMMA TornFacts ==
  ASSUME primary \in Primary
  PROVE  LET torn == [primary EXCEPT !.rev = @ + 1, !.kind = "torn"] IN
         /\ torn \in Primary /\ torn.file = primary.file
         /\ torn.rev = primary.rev + 1 /\ torn.kind = "torn"
<1> DEFINE torn == [primary EXCEPT !.rev = @ + 1, !.kind = "torn"]
<1>1. primary.rev + 1 \in Nat /\ "torn" \in {"none", "good", "torn"}
  BY DEF Primary
<1>2. torn \in Primary
  BY <1>1, ExceptType DEF Primary
<1>3. torn.file = primary.file /\ torn.rev = primary.rev + 1 /\ torn.kind = "torn"
  BY DEF Primary
<1> QED
  BY <1>2, <1>3

\* The steps up to a put keep the types.
LEMMA StartType ==
  ASSUME TypeOK, NEW d \in Client,
         Finish(d) \/ StartUpload(d) \/ StartFirstUpload(d) \/ AbortUpload(d)
         \/ StartReplacement(d) \/ PutMismatch(d)
  PROVE  TypeOK'
<1>1. SharedType /\ LogType /\ AdapterType /\ FlowType
  BY TypeParts
<1>2. {"back", "put", "idle"} \subseteq Stages
  BY DEF Stages
<1>3. pending[d] \in SUBSET Edit /\ import[d].clock \in Clock /\ import[d].state \in SUBSET Edit
  BY <1>1, LogFields
<1>4. CASE Finish(d) \/ PutMismatch(d)
  <2>1. Quit(d) /\ UNCHANGED <<remote, oplog, adapter, history>>
    BY <1>4 DEF Finish, PutMismatch
  <2> QED
    BY <2>1, OnlyQuit
<1>5. CASE StartUpload(d)
  <2>1. Current(d).rev \in Nat /\ Current(d).file \in File
    BY <1>1, CurrentType
  <2>2. Appendix(d, Current(d).file) \in File
    BY <1>1, <2>1, AppendixFacts
  <2> DEFINE h == [NoHand EXCEPT !.rev = Current(d).rev, !.ops = pending[d],
                     !.file = Appendix(d, Current(d).file), !.back = Current(d).file]
  <2>3. h \in Hand
    <3>1. NoHand \in Hand
      BY NothingTypes
    <3> QED
      BY <1>3, <2>1, <2>2, <3>1 DEF Hand
  <2>4. Goto(d, "back", h) /\ UNCHANGED <<remote, oplog, adapter, history>>
    BY <1>5 DEF StartUpload
  <2> HIDE DEF h
  <2> QED
    BY <1>2, <2>3, <2>4, OnlyGoto
<1>6. CASE StartFirstUpload(d)
  <2>1. Appendix(d, Blank) \in File
    BY <1>1, BlankFile, AppendixFacts
  <2> DEFINE h == [NoHand EXCEPT !.ops = pending[d], !.file = Appendix(d, Blank)]
  <2>2. h \in Hand
    BY <1>3, <2>1, FirstUploadHand
  <2>3. Goto(d, "put", h) /\ UNCHANGED <<remote, oplog, adapter, history>>
    BY <1>6 DEF StartFirstUpload
  <2> HIDE DEF h
  <2> QED
    BY <1>2, <2>2, <2>3, OnlyGoto
<1>7. CASE AbortUpload(d)
  <2>1. FlowType'
    BY <1>1, <1>7, QuitType DEF AbortUpload
  <2>2. Stage(d) \/ UNCHANGED adapter
    BY <1>7 DEF AbortUpload
  <2>3. AdapterType'
    BY <1>1, <2>2, StageType DEF adapter, AdapterType
  <2>4. SharedType' /\ LogType'
    BY <1>1, <1>7 DEF AbortUpload, remote, oplog, history, SharedType, LogType
  <2> QED
    BY <2>1, <2>3, <2>4, TypePartsNext
<1>8. CASE StartReplacement(d)
  <2> DEFINE file == Replacement(d, import[d].clock, import[d].state)
             h == [NoHand EXCEPT !.force = TRUE, !.file = file, !.back = file,
                                 !.ops = pending[d] \cap file.state]
  <2>1. file \in File
    BY <1>3, ReplacementFile
  <2>2. h \in Hand
    <3> HIDE DEF file
    <3>1. pending[d] \cap file.state \in SUBSET Edit /\ NoHand \in Hand
      BY <1>3, NothingTypes
    <3> QED
      BY <2>1, <3>1 DEF Hand
  <2>3. Goto(d, "back", h) /\ UNCHANGED <<remote, oplog, adapter, history>>
    BY <1>8 DEF StartReplacement
  <2> HIDE DEF h
  <2> QED
    BY <1>2, <2>2, <2>3, OnlyGoto
<1> QED
  BY <1>4, <1>5, <1>6, <1>7, <1>8

\* That a replacement has reached the folder is noted with the operation.
LEMMA SentType ==
  ASSUME LogType, FlowType, NEW d \in Client, Sends(d)
  PROVE  import' \in [Client -> Import]
<1> DEFINE sent == import[d].sent \/ hand[d].force
<1>1. import \in [Client -> Import] /\ import[d] \in Import /\ sent \in BOOLEAN
  BY LogFields, HandFields DEF LogType
<1>2. import' = [import EXCEPT ![d].sent = sent]
  BY DEF Sends
<1> HIDE DEF sent
<1>3. [import[d] EXCEPT !.sent = sent] \in Import
  BY <1>1 DEF Import
<1> QED
  BY <1>1, <1>2, <1>3

\* The steps from the backup to the acknowledgement keep the types.
LEMMA PutType ==
  ASSUME TypeOK, NEW d \in Client,
         WriteBackup(d) \/ Put(d) \/ PutFails(d) \/ CommitUpload(d) \/ Acknowledge(d)
  PROVE  TypeOK'
<1>1. SharedType /\ LogType /\ AdapterType /\ FlowType
  BY TypeParts
<1>2. {"put", "stored", "counted", "synced", "idle"} \subseteq Stages
  BY DEF Stages
<1>3. /\ hand[d] \in Hand /\ hand[d].file \in File /\ hand[d].back \in File
      /\ hand[d].ops \in SUBSET Edit /\ NoHand \in Hand
  BY <1>1, HandFields, NothingTypes
<1>4. hand[d].file.sv \in Nat /\ hand[d].file.clock \in Clock
  BY <1>3, FileFields
<1>5. /\ mem[d] \in Memory /\ mem[d].cursor \in Nat /\ mem[d].expected \in Nat
      /\ mem[d].rev \in Nat
  BY <1>1, AdapterFields
<1>6. Overwritten(d) \in SUBSET Edit
  BY <1>1, OverwrittenType
<1>7. primary \in Primary /\ primary.rev \in Nat
  BY <1>1, ContentsType DEF SharedType
<1>8. CASE WriteBackup(d)
  <2>1. /\ bak' \in {hand[d].back, bak} /\ waived' = waived \cup Overwritten(d)
        /\ Goto(d, "put", hand[d])
        /\ UNCHANGED <<primary, oplog, adapter, stamp, faults>>
    BY <1>8 DEF WriteBackup
  <2>2. SharedType'
    BY <1>1, <1>3, <1>6, <2>1 DEF SharedType
  <2>3. LogType' /\ AdapterType'
    BY <1>1, <2>1 DEF oplog, adapter, LogType, AdapterType
  <2>4. FlowType'
    BY <1>1, <1>2, <1>3, <2>1, GotoType
  <2> QED
    BY <2>2, <2>3, <2>4, TypePartsNext
<1>9. CASE Put(d)
  <2> DEFINE m == [cursor |-> IF hand[d].force THEN 1 ELSE mem[d].cursor,
                   expected |-> hand[d].file.sv, rev |-> primary'.rev,
                   clock |-> hand[d].file.clock]
  <2>1. /\ primary' = [rev |-> primary.rev + 1, kind |-> "good", file |-> hand[d].file]
        /\ waived' = waived \cup Overwritten(d)
        /\ staged' = [staged EXCEPT ![d] = NoStage] /\ cache' = [cache EXCEPT ![d] = NoCache]
        /\ Goto(d, "stored", hand[d]) /\ Sends(d)
        /\ UNCHANGED <<bak, log, pending, known, clock, rebuild, stamp, faults>>
    BY <1>9 DEF Put
  <2>2. mem' = [mem EXCEPT ![d] = m]
    BY <1>9 DEF Put
  <2>3. primary' \in Primary /\ primary'.rev \in Nat
    BY <1>3, <1>7, <2>1 DEF Primary
  <2>4. m \in Memory
    BY <1>4, <1>5, <2>3 DEF Memory
  <2> HIDE DEF m
  <2>5. SharedType'
    BY <1>1, <1>6, <2>1, <2>3 DEF SharedType
  <2>6. AdapterType'
    BY <1>1, <2>1, <2>2, <2>4, NothingTypes DEF AdapterType
  <2>7. LogType'
    BY <1>1, <2>1, SentType DEF LogType
  <2>8. FlowType'
    BY <1>1, <1>2, <1>3, <2>1, GotoType
  <2> QED
    BY <2>5, <2>6, <2>7, <2>8, TypePartsNext
<1>10. CASE PutFails(d)
  <2>1. Quit(d) /\ UNCHANGED <<bak, log, pending, known, clock, rebuild, adapter, stamp>>
        /\ (Sends(d) \/ import' = import)
    BY <1>10 DEF PutFails
  <2>2. /\ Fault("lost") \/ Fault("torn")
        /\ \/ primary' = primary
           \/ primary' = [rev |-> primary.rev + 1, kind |-> "good", file |-> hand[d].file]
           \/ primary' = [primary EXCEPT !.rev = @ + 1, !.kind = "torn"]
        /\ waived' = waived \/ waived' = waived \cup Overwritten(d)
    BY <1>10 DEF PutFails
  <2>3. primary' \in Primary
    <3>1. [primary EXCEPT !.rev = @ + 1, !.kind = "torn"] \in Primary
      BY <1>7, TornFacts
    <3>2. [rev |-> primary.rev + 1, kind |-> "good", file |-> hand[d].file] \in Primary
      BY <1>3, <1>7 DEF Primary
    <3> QED
      BY <1>7, <2>2, <3>1, <3>2
  <2>4. faults' \in 0..MaxFaults
    BY <1>1, <2>2, FaultType DEF SharedType
  <2>5. SharedType'
    BY <1>1, <1>6, <2>1, <2>2, <2>3, <2>4 DEF SharedType
  <2>6. LogType' /\ AdapterType'
    BY <1>1, <2>1, SentType DEF adapter, LogType, AdapterType
  <2>7. FlowType'
    BY <1>1, <2>1, QuitType
  <2> QED
    BY <2>5, <2>6, <2>7, TypePartsNext
<1>11. CASE CommitUpload(d)
  <2>1. /\ mem' = [mem EXCEPT ![d].cursor = hand[d].file.sv] /\ Goto(d, "counted", hand[d])
        /\ UNCHANGED <<remote, oplog, staged, cache, history>>
    BY <1>11 DEF CommitUpload
  <2>2. AdapterType'
    <3>1. mem \in [Client -> Memory]
      BY <1>1 DEF AdapterType
    <3>2. mem' \in [Client -> Memory]
      BY <1>4, <2>1, <3>1 DEF Memory
    <3> QED
      BY <1>1, <2>1, <3>2 DEF AdapterType
  <2>3. SharedType' /\ LogType'
    BY <1>1, <2>1 DEF remote, oplog, history, SharedType, LogType
  <2>4. FlowType'
    BY <1>1, <1>2, <1>3, <2>1, GotoType
  <2> QED
    BY <2>2, <2>3, <2>4, TypePartsNext
<1>12. CASE Acknowledge(d)
  <2>1. /\ pending' = [pending EXCEPT ![d] = @ \ hand[d].ops]
        /\ log' = [log EXCEPT ![d] = @ \cup hand[d].ops]
        /\ import' \in {[import EXCEPT ![d].pending = FALSE], import}
        /\ \E s \in {"synced", "idle"} : Goto(d, s, NoHand)
        /\ UNCHANGED <<remote, known, clock, rebuild, adapter, history>>
    BY <1>12 DEF Acknowledge
  <2>2. import' \in [Client -> Import]
    <3>1. import \in [Client -> Import]
      BY <1>1 DEF LogType
    <3>2. [import EXCEPT ![d].pending = FALSE] \in [Client -> Import]
      BY <3>1 DEF Import
    <3> QED
      BY <2>1, <3>1, <3>2
  <2>3. LogType'
    BY <1>1, <1>3, <2>1, <2>2 DEF LogType
  <2>4. SharedType' /\ AdapterType'
    BY <1>1, <2>1 DEF remote, adapter, history, SharedType, AdapterType
  <2>5. FlowType'
    BY <1>1, <1>2, <1>3, <2>1, GotoType
  <2> QED
    BY <2>3, <2>4, <2>5, TypePartsNext
<1> QED
  BY <1>8, <1>9, <1>10, <1>11, <1>12

\* The steps of the conflict dialog keep the types.
LEMMA DecideType ==
  ASSUME TypeOK, NEW d \in Client, Decide(d) PROVE TypeOK'
<1>1. SharedType /\ LogType /\ AdapterType /\ FlowType
  BY TypeParts
<1>2. {"idle", "dialog", "synced", "remote", "rebuilt"} \subseteq Stages
  BY DEF Stages
<1>3. /\ hand[d] \in Hand /\ hand[d].file \in File /\ hand[d].latest \in Nat /\ NoHand \in Hand
  BY <1>1, HandFields, NothingTypes
<1>4. /\ log[d] \in SUBSET Edit /\ pending[d] \in SUBSET Edit /\ known[d] \in SUBSET Edit
      /\ clock[d] \in Clock
  BY <1>1, LogFields
<1>5. stamp \in [Edit -> Clock]
  BY <1>1 DEF SharedType
<1>6. CASE Cancel(d)
  <2>1. Fault("cancel") /\ Quit(d) /\ UNCHANGED <<remote, oplog, adapter, stamp, waived>>
    BY <1>6 DEF Cancel
  <2>2. primary' = primary /\ bak' = bak /\ stamp' = stamp /\ waived' = waived
    BY <2>1 DEF remote
  <2>3. SharedType'
    BY <1>1, <2>1, <2>2, FaultSharedType
  <2>4. FlowType'
    BY <1>1, <2>1, QuitType
  <2>5. LogType' /\ AdapterType'
    BY <1>1, <2>1 DEF oplog, adapter, LogType, AdapterType
  <2> QED
    BY <2>3, <2>4, <2>5, TypePartsNext
<1>7. CASE Reconsider(d)
  <2>1. Goto(d, "dialog", hand[d]) /\ UNCHANGED <<remote, oplog, adapter, history>>
    BY <1>7 DEF Reconsider
  <2> QED
    BY <1>2, <1>3, <2>1, OnlyGoto
<1>8. CASE UseLocal(d)
  <2> DEFINE w == Merge(clock[d], import[d].clock)
             v == Increment(MergedStamps(w, log[d] \cup pending[d]), d)
             i == [NoImport EXCEPT !.clock = v, !.state = known[d], !.pending = TRUE,
                                   !.tail = TRUE]
  <2>1. log[d] \cup pending[d] \in SUBSET Edit
    BY <1>4
  <2>2. w \in Clock
    BY <1>1, <1>4, LogFields, MergeFacts
  <2>3. v \in Clock
    <3> HIDE DEF w
    <3>1. MergedStamps(w, log[d] \cup pending[d]) \in Clock
      BY <1>5, <2>1, <2>2, MergedFacts
    <3> QED
      BY <3>1, IncrementFacts
  <2>4. /\ import' = [import EXCEPT ![d] = i] /\ Goto(d, "synced", NoHand)
        /\ UNCHANGED <<remote, log, pending, known, clock, rebuild, adapter, history>>
    BY <1>8 DEF UseLocal
  <2> HIDE DEF v
  <2>5. i \in Import
    BY <1>4, <2>3, NothingTypes DEF Import
  <2> HIDE DEF i
  <2>6. LogType'
    BY <1>1, <2>3, <2>4, <2>5 DEF LogType
  <2>7. FlowType'
    BY <1>1, <1>2, <1>3, <2>4, GotoType
  <2>8. SharedType' /\ AdapterType'
    BY <1>1, <2>4 DEF remote, adapter, history, SharedType, AdapterType
  <2> QED
    BY <2>6, <2>7, <2>8, TypePartsNext
<1>9. CASE FetchRemote(d)
  <2>1. LogType'
    BY <1>1, <1>9 DEF FetchRemote, oplog, LogType
  <2>2. primary' = primary /\ bak' = bak /\ stamp' = stamp /\ waived' = waived
    BY <1>9 DEF FetchRemote, remote
  <2>3. CASE Readable /\ Stage(d) /\ Goto(d, "remote", Answer(d, 0)) /\ UNCHANGED faults
    <3>1. Answer(d, 0) \in Hand
      BY <1>1, AnswerType
    <3>2. FlowType' /\ AdapterType'
      BY <1>1, <1>2, <2>3, <3>1, GotoType, StageType
    <3>3. SharedType'
      BY <1>1, <2>2, <2>3, TypeKept
    <3> QED
      BY <2>1, <3>2, <3>3, TypePartsNext
  <2>4. CASE Fault("lost") /\ Quit(d) /\ UNCHANGED adapter
    <3>1. SharedType'
      BY <1>1, <2>2, <2>4, FaultSharedType
    <3>2. FlowType'
      BY <1>1, <2>4, QuitType
    <3>3. AdapterType'
      BY <1>1, <2>4 DEF adapter, AdapterType
    <3> QED
      BY <2>1, <3>1, <3>2, <3>3, TypePartsNext
  <2> QED
    BY <1>9, <2>3, <2>4 DEF FetchRemote
<1>10. CASE Rebuild(d)
  <2> DEFINE file == hand[d].file
             kept == IF rebuild[d] THEN pending[d] ELSE {}
             ops == UNION {file.recent[i].ops : i \in DOMAIN file.recent}
             v == MergedStamps(Increment(file.clock, d), kept)
  <2>1. kept \in SUBSET Edit
    BY <1>4
  <2>2. file.clock \in Clock /\ file.state \in SUBSET Edit /\ file.recent \in Seq(Batch)
    BY <1>3, FileFields
  <2>3. ops \in SUBSET Edit
    <3>1. \A i \in DOMAIN file.recent : file.recent[i] \in Batch
      BY <2>2
    <3>2. \A i \in DOMAIN file.recent : file.recent[i].ops \in SUBSET Edit
      BY <3>1 DEF Batch
    <3> QED
      BY <3>2
  <2>4. v \in Clock
    <3> HIDE DEF kept, file
    <3>1. Increment(file.clock, d) \in Clock
      BY <2>2, IncrementFacts
    <3> QED
      BY <1>5, <2>1, <3>1, MergedFacts
  <2>5. /\ rebuild' = [rebuild EXCEPT ![d] = TRUE]
        /\ known' = [known EXCEPT ![d] = file.state \cup kept]
        /\ pending' = [pending EXCEPT ![d] = kept]
        /\ waived' = waived \cup (known[d] \ known'[d])
        /\ log' = [log EXCEPT ![d] = ops]
        /\ clock' = [clock EXCEPT ![d] = v]
        /\ import' = [import EXCEPT ![d] = NoImport]
        /\ Goto(d, "rebuilt", hand[d])
        /\ UNCHANGED <<remote, adapter, stamp, faults>>
    BY <1>10 DEF Rebuild
  <2> HIDE DEF file, kept, ops, v
  <2>6. LogType'
    BY <1>1, <2>1, <2>2, <2>3, <2>4, <2>5, NothingTypes DEF LogType
  <2>7. SharedType'
    <3>1. waived' \in SUBSET Edit
      BY <1>1, <1>4, <2>5 DEF SharedType
    <3> QED
      BY <1>1, <2>5, <3>1 DEF remote, SharedType
  <2>8. FlowType'
    BY <1>1, <1>2, <1>3, <2>5, GotoType
  <2>9. AdapterType'
    BY <1>1, <2>5 DEF adapter, AdapterType
  <2> QED
    BY <2>6, <2>7, <2>8, <2>9, TypePartsNext
<1>11. CASE FinishRebuild(d)
  <2>1. /\ mem' = [mem EXCEPT ![d] = Promoted(d, hand[d].latest)]
        /\ staged' = [staged EXCEPT ![d] = NoStage]
        /\ rebuild' = [rebuild EXCEPT ![d] = FALSE]
        /\ Quit(d)
        /\ UNCHANGED <<remote, log, pending, known, clock, import, cache, history>>
    BY <1>11 DEF FinishRebuild
  <2>2. Promoted(d, hand[d].latest) \in Memory
    BY <1>1, <1>3, PromotedType
  <2>3. AdapterType'
    BY <1>1, <2>1, <2>2, NothingTypes DEF AdapterType
  <2>4. LogType'
    BY <1>1, <2>1 DEF LogType
  <2>5. FlowType'
    BY <1>1, <2>1, QuitType
  <2>6. SharedType'
    BY <1>1, <2>1 DEF remote, history, SharedType
  <2> QED
    BY <2>3, <2>4, <2>5, <2>6, TypePartsNext
<1> QED
  BY <1>6, <1>7, <1>8, <1>9, <1>10, <1>11 DEF Decide

\* Every step keeps the types.
LEMMA TypeStep == ASSUME TypeOK, [Next]_vars PROVE TypeOK'
<1>1. ASSUME NEW d \in Client, Write(d) \/ Prune(d) \/ Crash(d) \/ Expire(d) \/ Sync(d)
      PROVE  TypeOK'
  <2>1. CASE Write(d)
    BY <2>1, WriteType
  <2>2. CASE Prune(d) \/ Crash(d) \/ Expire(d)
    BY <2>2, QuietType
  <2>3. CASE Sync(d)
    <3>1. CASE Upload(d)
      BY <3>1, StartType, PutType DEF Upload
    <3> QED
      BY <2>3, <3>1, DownloadType, ApplyType, DecideType DEF Sync
  <2> QED
    BY <1>1, <2>1, <2>2, <2>3
<1>2. CASE UNCHANGED vars
  BY <1>2 DEF vars, remote, oplog, adapter, flow, history, TypeOK
<1> QED
  BY <1>1, <1>2 DEF Next

\* Every variable of the cycles keeps its type.
THEOREM FileSyncTypes == Spec => []TypeOK
<1>1. Init => TypeOK
  BY TypeInit
<1>2. TypeOK /\ [Next]_vars => TypeOK'
  BY TypeStep
<1> QED
  BY <1>1, <1>2, PTL DEF Spec

-----------------------------------------------------------------------------
(* What a file and a clock say of the edits *)

\* The edits made so far, by the clocks they were written with.
Made(st) == {e \in Edit : st[e] # EmptyClock}

\* A clock counts no edit that is missing from a state, but for those given up.
Counts(st, W, v, S) == \A e \in Made(st) : st[e][e[1]] <= v[e[1]] => e \in S \cup W

\* And it counts the edits of the state.
Counted(st, W, v, S) == \A e \in S : e \in Made(st) /\ (st[e][e[1]] <= v[e[1]] \/ e \in W)

\* The operations a file keeps are in its state and in its clock.
Batches(st, W, f) ==
  \A i \in DOMAIN f.recent : \A e \in f.recent[i].ops :
    e \in Made(st) /\ e \in f.state \cup W /\ Below(st[e], f.clock)

\* The batches of a file carry its last versions.
Numbered(f) ==
  /\ Len(f.recent) <= f.sv /\ (f.recent = <<>> => f.state = {})
  /\ \A i \in DOMAIN f.recent : f.recent[i].sv = (f.sv - Len(f.recent)) + i

\* The operations that a file has of the versions after k.
OpsAfter(f, k) == UNION {f.recent[i].ops : i \in {j \in DOMAIN f.recent : f.recent[j].sv > k}}

\* With the operations after version k, unless some are trimmed, `have` makes the state.
Reaches(f, W, k, have) ==
  OldestKept(f) <= k + 1 => f.state \subseteq have \cup W \cup OpsAfter(f, k)

GoodFile(st, W, f) ==
  /\ Counts(st, W, f.clock, f.state) /\ Counted(st, W, f.clock, f.state)
  /\ Batches(st, W, f) /\ Numbered(f) /\ Reaches(f, W, 0, {})

\* The clocks of edits never change once they are written.
SameStamps(st, st2) ==
  Made(st) \subseteq Made(st2) /\ \A e \in Made(st) : st2[e] = st[e]

\* What a clock counts stays so when edits it does not reach are added.
LEMMA CountsKept ==
  ASSUME NEW st, NEW st2, NEW W, NEW W2, NEW v, NEW S,
         st \in [Edit -> Clock], st2 \in [Edit -> Clock], v \in Clock,
         SameStamps(st, st2), W \subseteq W2, Counts(st, W, v, S),
         \A e \in Made(st2) \ Made(st) : v[e[1]] < st2[e][e[1]]
  PROVE  Counts(st2, W2, v, S)
<1> SUFFICES ASSUME NEW e \in Made(st2), st2[e][e[1]] <= v[e[1]]
             PROVE  e \in S \cup W2
  BY DEF Counts
<1>1. e \in Edit /\ e[1] \in Client
  BY EditPair DEF Made
<1>2. e \in Made(st)
  <2>1. st2[e][e[1]] \in Nat /\ v[e[1]] \in Nat
    BY <1>1 DEF Clock
  <2> QED
    BY <2>1
<1>3. e \in S \cup W
  BY <1>2 DEF Counts, SameStamps
<1> QED
  BY <1>3

\* More in the state, or more given up.
LEMMA CountsMore ==
  ASSUME NEW st, NEW W, NEW W2, NEW v, NEW S, NEW S2,
         S \subseteq S2 \cup W2, W \subseteq W2, Counts(st, W, v, S)
  PROVE  Counts(st, W2, v, S2)
BY DEF Counts

\* A good file stays good when edits that its clock does not reach are added.
LEMMA GoodFileKept ==
  ASSUME NEW st, NEW st2, NEW W, NEW W2, NEW f \in File,
         st \in [Edit -> Clock], st2 \in [Edit -> Clock],
         SameStamps(st, st2), W \subseteq W2, GoodFile(st, W, f),
         \A e \in Made(st2) \ Made(st) : f.clock[e[1]] < st2[e][e[1]]
  PROVE  GoodFile(st2, W2, f)
<1>1. f.clock \in Clock
  BY FileFields
<1>2. Counts(st2, W2, f.clock, f.state)
  BY <1>1, CountsKept DEF GoodFile
<1>3. Counted(st2, W2, f.clock, f.state)
  BY DEF GoodFile, Counted, SameStamps
<1>4. Batches(st2, W2, f)
  BY DEF GoodFile, Batches, SameStamps
<1>5. Reaches(f, W2, 0, {})
  BY DEF GoodFile, Reaches
<1> QED
  BY <1>2, <1>3, <1>4, <1>5 DEF GoodFile

\* The blank file is good.
LEMMA BlankGood ==
  ASSUME NEW st, NEW W, \A e \in Made(st) : st[e][e[1]] \in Nat /\ st[e][e[1]] >= 1
  PROVE  GoodFile(st, W, Blank)
<1>1. Blank.sv = 0 /\ Blank.clock = EmptyClock /\ Blank.state = {} /\ Blank.recent = <<>>
  BY BlankFile
<1>2. Counts(st, W, Blank.clock, Blank.state)
  <2>1. \A e \in Made(st) : EmptyClock[e[1]] = 0
    BY EditPair, EmptyClockFacts DEF Made
  <2>2. \A e \in Made(st) : ~(st[e][e[1]] <= 0)
    OBVIOUS
  <2> QED
    BY <1>1, <2>1, <2>2 DEF Counts
<1>3. Len(<<>>) = 0 /\ DOMAIN Blank.recent = {}
  BY <1>1
<1> QED
  BY <1>1, <1>2, <1>3 DEF GoodFile, Counted, Batches, Numbered, Reaches

\* More at hand, or more given up.
LEMMA ReachesMore ==
  ASSUME NEW f, NEW W, NEW W2, NEW k, NEW have, NEW have2,
         have \subseteq have2 \cup W2, W \subseteq W2, Reaches(f, W, k, have)
  PROVE  Reaches(f, W2, k, have2)
BY DEF Reaches

\* A file brings everything to who has its state.
LEMMA ReachesAll ==
  ASSUME NEW f, NEW W, NEW k, NEW have, f.state \subseteq have \cup W
  PROVE  Reaches(f, W, k, have)
BY DEF Reaches

(***************************************************************************)
(* An upload's file after the one it extends: whoever had what makes the   *)
(* old state from some version on has what makes the new one, unless the   *)
(* batches in between were trimmed (appendRecentOpsAtBatchBoundary).       *)
(***************************************************************************)
LEMMA ExtendedFile ==
  ASSUME NEW f \in File, NEW g \in File, NEW ops \in SUBSET Edit, NEW W, NEW W2,
         Numbered(f), g.sv = f.sv + 1, W \subseteq W2,
         g.recent = Trim(Append(f.recent, [sv |-> f.sv + 1, ops |-> ops])),
         g.state \subseteq f.state \cup ops \cup W2
  PROVE  /\ Numbered(g) /\ g.recent # <<>>
         /\ \A i \in DOMAIN g.recent : \/ g.recent[i].ops = ops
                                       \/ \E j \in DOMAIN f.recent : g.recent[i] = f.recent[j]
         /\ \A k \in Nat : \A have : k <= f.sv /\ Reaches(f, W, k, have) => Reaches(g, W2, k, have)
<1> DEFINE b == [sv |-> f.sv + 1, ops |-> ops]
           s == Append(f.recent, b)
           n == Len(f.recent)
<1>1. f.recent \in Seq(Batch) /\ g.recent \in Seq(Batch) /\ f.sv \in Nat /\ g.sv \in Nat
  BY FileFields
<1>2. b \in Batch /\ b.sv = f.sv + 1 /\ b.ops = ops
  BY <1>1 DEF Batch
<1>3. n \in Nat /\ DOMAIN f.recent = 1..n /\ n <= f.sv
  BY <1>1 DEF Numbered
<1> HIDE DEF b, n
<1> DEFINE u == f.sv - n
<1>4. /\ s \in Seq(Batch) /\ s # <<>> /\ Len(s) = n + 1
      /\ s[n + 1] = b /\ \A i \in 1..n : s[i] = f.recent[i]
  BY <1>1, <1>2, <1>3 DEF n
<1>5. \A i \in 1..n : f.recent[i].sv = u + i
  BY <1>3 DEF Numbered, n
<1>u. u \in Nat /\ f.sv = u + n /\ g.sv = u + n + 1
  BY <1>1, <1>3
<1> HIDE DEF u
<1>6. \A i \in 1..(n + 1) : s[i].sv = u + i
  <2>1. \A i \in 1..n : s[i].sv = u + i
    BY <1>4, <1>5
  <2>2. s[n + 1].sv = u + (n + 1)
    <3>1. s[n + 1].sv = f.sv + 1
      BY <1>2, <1>4
    <3>2. f.sv + 1 = u + (n + 1)
      BY <1>3, <1>u
    <3> QED
      BY <3>1, <3>2
  <2>3. \A i \in 1..(n + 1) : i \in 1..n \/ i = n + 1
    BY <1>3
  <2> QED
    BY <2>1, <2>2, <2>3
<1>7. g.recent = Trim(s)
  BY DEF b
<1> HIDE DEF s
<1>m. PICK m \in 1..Len(s) : /\ Len(Trim(s)) = Len(s) - m + 1
                             /\ \A i \in 1..(Len(s) - m + 1) : Trim(s)[i] = s[m + i - 1]
  BY <1>4, TrimFacts
<1> DEFINE l == n + 1 - m + 1
<1>8. /\ m \in 1..(n + 1) /\ Len(g.recent) = l
      /\ \A i \in 1..l : g.recent[i] = s[m + i - 1]
  <2>1. Len(s) - m + 1 = l
    BY <1>3, <1>4, <1>m
  <2> HIDE DEF l
  <2>2. m \in 1..(n + 1)
    BY <1>4, <1>m
  <2>3. Len(Trim(s)) = l /\ \A i \in 1..l : Trim(s)[i] = s[m + i - 1]
    BY <1>m, <2>1
  <2> QED
    BY <1>7, <2>2, <2>3
<1>9. l \in Nat /\ l >= 1 /\ l <= n + 1 /\ DOMAIN g.recent = 1..l /\ l + m = n + 2
  BY <1>1, <1>3, <1>8
<1> HIDE DEF l
<1>10. \A i \in 1..l : /\ m + i - 1 \in 1..(n + 1) /\ g.recent[i] = s[m + i - 1]
                       /\ g.recent[i].sv = u + (m + i - 1)
  <2> TAKE i \in 1..l
  <2>1. m + i - 1 \in 1..(n + 1)
    BY <1>3, <1>8, <1>9
  <2> QED
    BY <1>6, <1>8, <2>1
<1>11. Numbered(g)
  <2>1. Len(g.recent) <= g.sv
    BY <1>3, <1>8, <1>9, <1>u
  <2>2. g.recent # <<>>
    BY <1>9
  <2>3. ASSUME NEW i \in 1..l PROVE g.recent[i].sv = (g.sv - l) + i
    <3>1. g.recent[i].sv = u + (m + i - 1)
      BY <1>10
    <3>2. (g.sv - l) + i = u + (m + i - 1)
      BY <1>3, <1>8, <1>9, <1>u
    <3> QED
      BY <3>1, <3>2
  <2> QED
    BY <1>8, <1>9, <2>1, <2>2, <2>3 DEF Numbered
<1>12. \A i \in DOMAIN g.recent : \/ g.recent[i].ops = ops
                                  \/ \E j \in DOMAIN f.recent : g.recent[i] = f.recent[j]
  <2> TAKE i \in DOMAIN g.recent
  <2>1. i \in 1..l
    BY <1>9
  <2>2. m + i - 1 = n + 1 \/ m + i - 1 \in 1..n
    BY <1>3, <1>10, <2>1
  <2> QED
    BY <1>2, <1>3, <1>4, <1>10, <2>1, <2>2
<1>13. ASSUME NEW k \in Nat, NEW have, k <= f.sv, Reaches(f, W, k, have)
       PROVE  Reaches(g, W2, k, have)
  <2> SUFFICES ASSUME OldestKept(g) <= k + 1, NEW e \in g.state
               PROVE  e \in have \cup W2 \cup OpsAfter(g, k)
    BY DEF Reaches
  <2>1. u + m <= k + 1
    <3>1. OldestKept(g) = g.recent[1].sv
      BY <1>9 DEF OldestKept
    <3>2. g.recent[1].sv = u + (m + 1 - 1) /\ m + 1 - 1 = m
      BY <1>8, <1>9, <1>10
    <3> QED
      BY <3>1, <3>2
  <2>2. CASE e \in ops
    <3>1. l \in DOMAIN g.recent /\ m + l - 1 = n + 1
      BY <1>3, <1>8, <1>9
    <3>2. g.recent[l] = b
      BY <1>4, <1>8, <1>9, <3>1
    <3>3. f.sv + 1 > k
      BY <1>1, <1>13
    <3>4. g.recent[l].ops = ops /\ g.recent[l].sv > k
      BY <1>2, <3>2, <3>3
    <3> QED
      BY <2>2, <3>1, <3>4 DEF OpsAfter
  <2>3. CASE e \in W2
    BY <2>3
  <2>4. CASE e \in f.state
    <3>1. n >= 1 /\ f.recent # <<>>
      BY <1>1, <1>3, <2>4 DEF Numbered, n
    <3>2. OldestKept(f) <= k + 1
      <4>1. OldestKept(f) = f.recent[1].sv
        BY <3>1 DEF OldestKept
      <4>2. f.recent[1].sv = u + 1
        BY <1>3, <1>5, <3>1
      <4> QED
        BY <1>8, <1>u, <2>1, <4>1, <4>2
    <3>3. e \in have \cup W \cup OpsAfter(f, k)
      BY <1>13, <2>4, <3>2 DEF Reaches
    <3>4. CASE e \in OpsAfter(f, k)
      <4>1. PICK i \in DOMAIN f.recent : f.recent[i].sv > k /\ e \in f.recent[i].ops
        BY <3>4 DEF OpsAfter
      <4>2. i \in 1..n /\ u + i > k
        BY <1>3, <1>5, <4>1
      <4> DEFINE j == i - m + 1
      <4>3. j \in 1..l /\ m + j - 1 = i
        BY <1>3, <1>8, <1>9, <1>u, <2>1, <4>2
      <4> HIDE DEF j
      <4>4. g.recent[j] = f.recent[i]
        BY <1>4, <1>10, <4>2, <4>3
      <4>5. j \in DOMAIN g.recent /\ g.recent[j].sv > k /\ e \in g.recent[j].ops
        BY <1>9, <4>1, <4>3, <4>4
      <4> QED
        BY <4>5 DEF OpsAfter
    <3> QED
      BY <3>3, <3>4
  <2> QED
    BY <2>2, <2>3, <2>4
<1> QED
  BY <1>9, <1>11, <1>12, <1>13

-----------------------------------------------------------------------------
(* The inductive invariant *)

\* The file; a torn one has a backup with the same content.
FileOk ==
  /\ primary.kind = "none" => primary.rev = 0 /\ primary.file = Blank /\ bak = Blank
  /\ primary.kind # "none" => primary.rev > 0 /\ primary.file.recent # <<>>
  /\ primary.kind = "torn" => bak = primary.file
  /\ GoodFile(stamp, waived, primary.file)

\* An edit is kept by its author until it is given up, and knew of others what
\* a file said.
StampsOk ==
  /\ waived \subseteq Made(stamp)
  /\ \A e \in Made(stamp) :
       /\ stamp[e][e[1]] >= 1 /\ e \in known[e[1]] \cup waived
       /\ \A c \in Client \ {e[1]} : stamp[e][c] <= primary.file.clock[c]
  /\ \A d \in Client : Written(d) = {d} \X (1..Cardinality(Written(d)))

\* A device's state is what it has to send and what the folder has; its clock
\* counts nothing that it lacks.
LogOk(d) ==
  /\ import[d] = NoImport
  /\ known[d] \subseteq Made(stamp) /\ log[d] \subseteq known[d] \cup waived
  /\ pending[d] \subseteq known[d]
  /\ \A e \in pending[d] : e[1] = d /\ Below(stamp[e], clock[d])
  /\ known[d] \subseteq pending[d] \cup Stored \cup waived
  /\ Counts(stamp, waived, clock[d], known[d])
  /\ \A c \in Client \ {d} : clock[d][c] <= primary.file.clock[c]
  /\ primary.file.clock[d] <= clock[d][d]

\* What the adapter remembers as taken in has been taken in.
MemOk(d) ==
  /\ mem[d].cursor <= primary.file.sv /\ mem[d].expected <= primary.file.sv
  /\ mem[d].rev <= primary.rev
  /\ Reaches(primary.file, waived, mem[d].cursor, known[d])
  /\ mem[d].rev = primary.rev /\ primary.rev > 0 => Stored \subseteq known[d] \cup waived

\* A cached file at the revision of the folder is the folder's, and its content
\* has been taken in unless its baseline is still staged.
CacheOk(d) ==
  /\ staged[d].rev <= primary.rev /\ staged[d].expected <= primary.file.sv
  /\ ~staged[d].held => staged[d].rev = 0
  /\ cache[d].rev <= primary.rev /\ (cache[d] # NoCache => cache[d].rev > 0)
  /\ cache[d].rev = primary.rev => cache[d].file = primary.file
  /\ cache[d].rev = primary.rev /\ primary.rev > 0 /\ ~staged[d].held
       => Stored \subseteq known[d] \cup waived

\* What a download has in hand is a file of the folder, of now or of before.
ReadOk(d) ==
  /\ hand[d].latest <= primary.file.sv
  /\ hand[d].file.state \subseteq Stored \cup waived
  /\ Below(hand[d].file.clock, primary.file.clock)
  /\ GoodFile(stamp, waived, hand[d].file)
  /\ \A e \in hand[d].ops :
       e \in Made(stamp) /\ e \in hand[d].file.state \cup waived /\ Below(stamp[e], hand[d].file.clock)

\* The revision a device would commit or extend is that of the file as it stands.
ReadNow(d) == primary.rev > 0 /\ (cache[d].rev = primary.rev \/ staged[d].rev = primary.rev)

\* With `have`, the device has what it is about to remember as taken in.
Holds(d, have) ==
  /\ Reaches(primary.file, waived, hand[d].latest, have)
  /\ ReadNow(d) => Stored \subseteq have \cup waived

\* The file in hand is the folder's, extended by what the device has to send.
Extends(d) ==
  LET f == hand[d].file IN
  /\ f.sv = primary.file.sv + 1
  /\ f.recent = Trim(Append(primary.file.recent, [sv |-> primary.file.sv + 1, ops |-> hand[d].ops]))
  /\ Stored \subseteq f.state \cup waived
  /\ f.state \subseteq Stored \cup hand[d].ops \cup waived
  /\ Below(primary.file.clock, f.clock)
  /\ \A c \in Client \ {d} : f.clock[c] <= primary.file.clock[c]
  /\ f.clock[d] <= clock[d][d]
  /\ GoodFile(stamp, waived, f)

UploadOk(d) ==
  /\ hand[d].file.state \subseteq known[d] /\ hand[d].ops \subseteq hand[d].file.state
  /\ hand[d].rev <= primary.rev
  /\ hand[d].rev = primary.rev => Extends(d)

HandOk(d) ==
  /\ ~hand[d].force
  /\ At(d, "got") /\ ~hand[d].fresh =>
       /\ ReadOk(d) /\ hand[d].file.state \subseteq known[d] \cup hand[d].ops \cup waived
       /\ Holds(d, known[d] \cup hand[d].ops)
  /\ (At(d, "got") /\ hand[d].fresh) \/ At(d, "confirm") =>
       /\ ReadOk(d) /\ known[d] \subseteq pending[d] \cup hand[d].file.state \cup waived
       /\ Holds(d, hand[d].file.state)
  /\ At(d, "remote") =>
       /\ ReadOk(d) /\ primary.file.clock[d] <= hand[d].file.clock[d]
       /\ Holds(d, hand[d].file.state)
  /\ At(d, "applied") \/ At(d, "rebuilt") =>
       hand[d].latest <= primary.file.sv /\ Holds(d, known[d])
  /\ At(d, "back") \/ At(d, "put") => UploadOk(d)
  /\ At(d, "back") => hand[d].rev > 0 /\ (hand[d].rev = primary.rev => hand[d].back = primary.file)
  /\ At(d, "put") /\ hand[d].rev = primary.rev /\ primary.kind = "good" => bak = primary.file
  /\ At(d, "stored") => /\ hand[d].file.sv <= primary.file.sv
                        /\ Reaches(primary.file, waived, hand[d].file.sv, known[d])
  /\ At(d, "stored") \/ At(d, "counted") =>
       hand[d].ops \subseteq known[d] /\ hand[d].ops \subseteq Stored \cup waived

IInv ==
  /\ FileOk /\ StampsOk
  /\ \A d \in Client : LogOk(d) /\ MemOk(d) /\ CacheOk(d) /\ HandOk(d)

\* The theorems are about folders that no user replaces, whose backup no late
\* writer spoils.
NoReplacement == Overwriters = {} /\ "stale" \notin Events

-----------------------------------------------------------------------------
(* What a step of one device leaves the others *)

\* How what the devices share moves on.
Later ==
  /\ waived \subseteq waived' /\ SameStamps(stamp, stamp')
  /\ \A e \in Made(stamp') \ Made(stamp) : clock[e[1]][e[1]] < stamp'[e][e[1]]
  /\ Stored \subseteq Stored' \cup waived'
  /\ Below(primary.file.clock, primary'.file.clock)
  /\ primary.file.sv <= primary'.file.sv /\ primary.rev <= primary'.rev
  /\ primary'.rev = primary.rev => primary' = primary
  /\ \A k \in Nat : \A have :
       k <= primary.file.sv /\ Reaches(primary.file, waived, k, have)
         => Reaches(primary'.file, waived', k, have)
  /\ bak' = bak \/ (bak' = primary.file /\ primary' = primary)

\* A clock that is no newer than each author's own is older than a new edit.
LEMMA NewAbove ==
  ASSUME TypeOK, TypeOK', Later, NEW v \in Clock, \A c \in Client : v[c] <= clock[c][c]
  PROVE  \A e \in Made(stamp') \ Made(stamp) : v[e[1]] < stamp'[e][e[1]]
<1> TAKE e \in Made(stamp') \ Made(stamp)
<1>1. e \in Edit /\ e[1] \in Client
  BY EditPair DEF Made
<1>2. clock[e[1]][e[1]] \in Nat /\ v[e[1]] \in Nat /\ stamp'[e][e[1]] \in Nat
  <2>1. clock[e[1]] \in Clock
    BY <1>1 DEF TypeOK
  <2>2. stamp'[e] \in Clock
    BY <1>1 DEF TypeOK
  <2> QED
    BY <1>1, <2>1, <2>2 DEF Clock
<1>3. v[e[1]] <= clock[e[1]][e[1]] /\ clock[e[1]][e[1]] < stamp'[e][e[1]]
  BY <1>1 DEF Later
<1> QED
  BY <1>2, <1>3

\* The parts of the files and of history.
LEMMA SharedFields ==
  ASSUME TypeOK
  PROVE  /\ primary.file \in File /\ primary.file.clock \in Clock /\ primary.file.sv \in Nat
         /\ primary.file.recent \in Seq(Batch) /\ primary.rev \in Nat
         /\ Stored \in SUBSET Edit /\ stamp \in [Edit -> Clock] /\ waived \in SUBSET Edit
<1>1. SharedType
  BY TypeParts
<1>2. primary.file \in File /\ primary.rev \in Nat
  BY <1>1, ContentsType
<1> QED
  BY <1>1, <1>2, FileFields DEF SharedType, Stored

\* LogOk of a device whose log a step leaves alone, when the file is a later one.
LEMMA LogLater ==
  ASSUME TypeOK, TypeOK', Later, NEW d \in Client, LogOk(d), \A c \in Client : LogOk(c),
         import'[d] = import[d], known'[d] = known[d], log'[d] = log[d],
         pending'[d] = pending[d], clock'[d] = clock[d],
         primary'.file.clock[d] <= clock[d][d]
  PROVE  LogOk(d)'
<1>1. clock[d] \in Clock /\ known[d] \in SUBSET Edit /\ pending[d] \in SUBSET Edit
  BY DEF TypeOK
<1>2. stamp \in [Edit -> Clock] /\ stamp' \in [Edit -> Clock]
  BY DEF TypeOK
<1>3. primary.file.clock \in Clock /\ primary'.file.clock \in Clock
  <2>1. primary.file \in File /\ primary'.file \in File
    BY DEF TypeOK
  <2> QED
    BY <2>1, FileFields
<1>4. Counts(stamp', waived', clock[d], known[d])
  <2>1. \A c \in Client : clock[d][c] <= clock[c][c]
    <3> TAKE c \in Client
    <3>1. CASE c = d
      BY <1>1, <3>1 DEF Clock
    <3>2. CASE c # d
      <4>1. clock[d][c] <= primary.file.clock[c] /\ primary.file.clock[c] <= clock[c][c]
        BY <3>2 DEF LogOk
      <4>2. clock[d][c] \in Nat /\ primary.file.clock[c] \in Nat /\ clock[c][c] \in Nat
        BY <1>1, <1>3 DEF TypeOK, Clock
      <4> QED
        BY <4>1, <4>2
    <3> QED
      BY <3>1, <3>2
  <2>2. \A e \in Made(stamp') \ Made(stamp) : clock[d][e[1]] < stamp'[e][e[1]]
    BY <1>1, <2>1, NewAbove
  <2>3. Counts(stamp, waived, clock[d], known[d])
    BY DEF LogOk
  <2> QED
    BY <1>1, <1>2, <2>2, <2>3, CountsKept DEF Later
<1>5. \A e \in pending[d] : e[1] = d /\ Below(stamp'[e], clock[d])
  <2>1. pending[d] \subseteq Made(stamp)
    BY DEF LogOk
  <2> QED
    BY <2>1 DEF LogOk, Later, SameStamps
<1>6. \A c \in Client \ {d} : clock[d][c] <= primary'.file.clock[c]
  <2> TAKE c \in Client \ {d}
  <2>1. clock[d][c] <= primary.file.clock[c] /\ primary.file.clock[c] <= primary'.file.clock[c]
    BY DEF LogOk, Later, Below
  <2>2. clock[d][c] \in Nat /\ primary.file.clock[c] \in Nat /\ primary'.file.clock[c] \in Nat
    BY <1>1, <1>3 DEF Clock
  <2> QED
    BY <2>1, <2>2
<1>7. known[d] \subseteq pending[d] \cup Stored' \cup waived' /\ known[d] \subseteq Made(stamp')
      /\ log[d] \subseteq known[d] \cup waived' /\ pending[d] \subseteq known[d]
      /\ import[d] = NoImport
  BY DEF LogOk, Later, SameStamps
<1> QED
  BY <1>4, <1>5, <1>6, <1>7 DEF LogOk

\* MemOk, when the file is a later one.
LEMMA MemLater ==
  ASSUME TypeOK, TypeOK', Later, NEW d \in Client, MemOk(d),
         mem'[d] = mem[d], known[d] \subseteq known'[d] \cup waived'
  PROVE  MemOk(d)'
<1>1. mem[d].cursor \in Nat /\ mem[d].expected \in Nat /\ mem[d].rev \in Nat
  BY AdapterFields, TypeParts
<1>2. /\ primary.file.sv \in Nat /\ primary'.file.sv \in Nat
      /\ primary.rev \in Nat /\ primary'.rev \in Nat
  <2>1. primary.file \in File /\ primary'.file \in File /\ primary.rev \in Nat /\ primary'.rev \in Nat
    BY DEF TypeOK
  <2> QED
    BY <2>1, FileFields
<1>3. mem[d].cursor <= primary'.file.sv /\ mem[d].expected <= primary'.file.sv
      /\ mem[d].rev <= primary'.rev
  BY <1>1, <1>2 DEF MemOk, Later
<1>4. Reaches(primary'.file, waived', mem[d].cursor, known'[d])
  <2>1. Reaches(primary'.file, waived', mem[d].cursor, known[d])
    BY <1>1 DEF MemOk, Later
  <2> QED
    BY <2>1, ReachesMore
<1>5. mem[d].rev = primary'.rev /\ primary'.rev > 0 => Stored' \subseteq known'[d] \cup waived'
  <2> SUFFICES ASSUME mem[d].rev = primary'.rev, primary'.rev > 0
               PROVE  Stored' \subseteq known'[d] \cup waived'
    OBVIOUS
  <2>1. primary'.rev = primary.rev
    BY <1>1, <1>2 DEF MemOk, Later
  <2>2. primary' = primary
    BY <2>1 DEF Later
  <2>3. Stored \subseteq known[d] \cup waived
    BY <2>1 DEF MemOk
  <2>4. Stored' = Stored
    BY <2>2 DEF Stored
  <2> QED
    BY <2>3, <2>4 DEF Later
<1> QED
  BY <1>3, <1>4, <1>5 DEF MemOk

\* CacheOk, when the file is a later one.
LEMMA CacheLater ==
  ASSUME TypeOK, TypeOK', Later, NEW d \in Client, CacheOk(d),
         staged'[d] = staged[d], cache'[d] = cache[d], known[d] \subseteq known'[d] \cup waived'
  PROVE  CacheOk(d)'
<1>1. staged[d].rev \in Nat /\ staged[d].expected \in Nat /\ cache[d].rev \in Nat
  BY AdapterFields, TypeParts
<1>2. /\ primary.file.sv \in Nat /\ primary'.file.sv \in Nat
      /\ primary.rev \in Nat /\ primary'.rev \in Nat
  <2>1. primary.file \in File /\ primary'.file \in File /\ primary.rev \in Nat /\ primary'.rev \in Nat
    BY DEF TypeOK
  <2> QED
    BY <2>1, FileFields
<1>3. staged[d].rev <= primary'.rev /\ staged[d].expected <= primary'.file.sv
      /\ cache[d].rev <= primary'.rev
  BY <1>1, <1>2 DEF CacheOk, Later
<1>4. ASSUME cache[d].rev = primary'.rev PROVE primary' = primary
  BY <1>1, <1>2, <1>4 DEF CacheOk, Later
<1>5. cache[d].rev = primary'.rev => cache[d].file = primary'.file
  <2> SUFFICES ASSUME cache[d].rev = primary'.rev PROVE cache[d].file = primary'.file
    OBVIOUS
  <2>1. primary' = primary
    BY <1>4
  <2>2. cache[d].rev = primary.rev => cache[d].file = primary.file
    BY DEF CacheOk
  <2> QED
    BY <2>1, <2>2
<1>6. cache[d].rev = primary'.rev /\ primary'.rev > 0 /\ ~staged[d].held
        => Stored' \subseteq known'[d] \cup waived'
  <2> SUFFICES ASSUME cache[d].rev = primary'.rev, primary'.rev > 0, ~staged[d].held
               PROVE  Stored' \subseteq known'[d] \cup waived'
    OBVIOUS
  <2>1. primary' = primary
    BY <1>4
  <2>2. Stored \subseteq known[d] \cup waived
    BY <2>1 DEF CacheOk
  <2>3. Stored' = Stored
    BY <2>1 DEF Stored
  <2> QED
    BY <2>2, <2>3 DEF Later
<1>7. (~staged[d].held => staged[d].rev = 0) /\ (cache[d] # NoCache => cache[d].rev > 0)
  BY DEF CacheOk
<1>8. NoCache' = NoCache
  BY DEF NoCache
<1> QED
  BY <1>3, <1>5, <1>6, <1>7, <1>8 DEF CacheOk

\* The cycle of a device goes on where it stood; at most it has new edits.
Waits(d) ==
  /\ stage'[d] = stage[d] /\ hand'[d] = hand[d] /\ staged'[d] = staged[d] /\ cache'[d] = cache[d]
  /\ known[d] \subseteq known'[d] /\ known'[d] \subseteq known[d] \cup pending'[d]
  /\ pending[d] \subseteq pending'[d] /\ clock[d][d] <= clock'[d][d]
  /\ primary'.file.clock[d] <= primary.file.clock[d]

\* What the operations above a number bring, the later file brings too.
LEMMA ReachesLater ==
  ASSUME TypeOK, TypeOK', Later, NEW k \in Nat, k <= primary.file.sv, NEW have, NEW have2,
         have \subseteq have2 \cup waived', Reaches(primary.file, waived, k, have)
  PROVE  Reaches(primary'.file, waived', k, have2)
<1>1. Reaches(primary'.file, waived', k, have)
  BY DEF Later
<1> QED
  BY <1>1, ReachesMore

\* What a downloading device holds is still enough for the later file.
LEMMA HoldsLater ==
  ASSUME TypeOK, TypeOK', Later, NEW d \in Client, CacheOk(d),
         hand'[d] = hand[d], staged'[d] = staged[d], cache'[d] = cache[d],
         hand[d].latest <= primary.file.sv,
         NEW have, NEW have2, have \subseteq have2 \cup waived', Holds(d, have)
  PROVE  /\ Reaches(primary'.file, waived', hand'[d].latest, have2)
         /\ ReadNow(d)' => Stored' \subseteq have2 \cup waived'
<1>1. /\ hand[d].latest \in Nat /\ staged[d].rev \in Nat /\ cache[d].rev \in Nat
      /\ primary.rev \in Nat /\ primary'.rev \in Nat
  <2>1. hand[d].latest \in Nat /\ staged[d].rev \in Nat /\ cache[d].rev \in Nat
    BY HandFields, AdapterFields, TypeParts
  <2> QED
    BY <2>1 DEF TypeOK
<1>2. Reaches(primary.file, waived, hand[d].latest, have)
  BY DEF Holds
<1>3. Reaches(primary'.file, waived', hand[d].latest, have2)
  BY <1>1, <1>2, ReachesLater
<1>4. ASSUME ReadNow(d)' PROVE Stored' \subseteq have2 \cup waived'
  <2>1. primary'.rev > 0 /\ (cache[d].rev = primary'.rev \/ staged[d].rev = primary'.rev)
    BY <1>4 DEF ReadNow
  <2>2. cache[d].rev <= primary.rev /\ staged[d].rev <= primary.rev /\ primary.rev <= primary'.rev
    BY DEF CacheOk, Later
  <2>3. primary'.rev = primary.rev
    BY <1>1, <2>1, <2>2
  <2>4. primary' = primary
    BY <2>3 DEF Later
  <2>5. ReadNow(d)
    BY <2>1, <2>3 DEF ReadNow
  <2>6. Stored' = Stored /\ Stored \subseteq have \cup waived
    BY <2>4, <2>5 DEF Holds, Stored
  <2> QED
    BY <2>6 DEF Later
<1> QED
  BY <1>3, <1>4

\* No file of the folder counts more of anybody's edits than they made.
LEMMA FileAbove ==
  ASSUME TypeOK, TypeOK', Later, \A c \in Client : LogOk(c), NEW f \in File,
         GoodFile(stamp, waived, f), \A c \in Client : f.clock[c] <= clock[c][c]
  PROVE  GoodFile(stamp', waived', f)
<1>1. f.clock \in Clock
  BY FileFields
<1>2. \A e \in Made(stamp') \ Made(stamp) : f.clock[e[1]] < stamp'[e][e[1]]
  BY <1>1, NewAbove
<1>3. stamp \in [Edit -> Clock] /\ stamp' \in [Edit -> Clock]
  BY DEF TypeOK
<1> QED
  BY <1>2, <1>3, GoodFileKept DEF Later

\* A clock below the file's counts no edit that a device has not numbered.
LEMMA BelowOwn ==
  ASSUME TypeOK, \A c \in Client : LogOk(c), NEW v \in Clock, Below(v, primary.file.clock)
  PROVE  \A c \in Client : v[c] <= clock[c][c]
<1> TAKE c \in Client
<1>1. v[c] <= primary.file.clock[c] /\ primary.file.clock[c] <= clock[c][c]
  BY DEF LogOk, Below
<1>2. v[c] \in Nat /\ primary.file.clock[c] \in Nat /\ clock[c][c] \in Nat
  <2>1. primary.file.clock \in Clock /\ clock[c] \in Clock
    BY SharedFields DEF TypeOK
  <2> QED
    BY <2>1 DEF Clock
<1> QED
  BY <1>1, <1>2

\* What was read of a file is still below the later file.
LEMMA ReadLater ==
  ASSUME TypeOK, TypeOK', Later, \A c \in Client : LogOk(c), NEW d \in Client,
         hand'[d] = hand[d], ReadOk(d)
  PROVE  ReadOk(d)'
<1> DEFINE f == hand[d].file
<1>1. f \in File /\ f.clock \in Clock /\ hand[d].latest \in Nat /\ hand[d].ops \in SUBSET Edit
  BY HandFields, TypeParts, FileFields
<1>2. /\ primary.file.sv \in Nat /\ primary'.file.sv \in Nat
      /\ primary.file.clock \in Clock /\ primary'.file.clock \in Clock
  <2>1. primary.file \in File /\ primary'.file \in File
    BY DEF TypeOK
  <2> QED
    BY <2>1, FileFields
<1>3. Below(f.clock, primary'.file.clock)
  <2>1. Below(f.clock, primary.file.clock) /\ Below(primary.file.clock, primary'.file.clock)
    BY DEF ReadOk, Later
  <2> HIDE DEF f
  <2>2. \A c \in Client : f.clock[c] <= primary.file.clock[c] /\ primary.file.clock[c] <= primary'.file.clock[c]
                          /\ f.clock[c] \in Nat /\ primary.file.clock[c] \in Nat /\ primary'.file.clock[c] \in Nat
    BY <1>1, <1>2, <2>1 DEF Below, Clock
  <2> QED
    BY <2>2 DEF Below
<1>4. GoodFile(stamp', waived', f)
  <2>1. \A c \in Client : f.clock[c] <= clock[c][c]
    BY <1>1, BelowOwn DEF ReadOk
  <2>2. GoodFile(stamp, waived, f)
    BY DEF ReadOk
  <2> HIDE DEF f
  <2> QED
    BY <1>1, <2>1, <2>2, FileAbove
<1>5. hand[d].latest <= primary'.file.sv /\ f.state \subseteq Stored' \cup waived'
  BY <1>1, <1>2 DEF ReadOk, Later
<1>6. \A e \in hand[d].ops :
       e \in Made(stamp') /\ e \in f.state \cup waived' /\ Below(stamp'[e], f.clock)
  BY DEF ReadOk, Later, SameStamps
<1> QED
  BY <1>3, <1>4, <1>5, <1>6 DEF ReadOk

\* What a device is about to put still stands when another's put comes first.
LEMMA UploadLater ==
  ASSUME TypeOK, TypeOK', Later, \A c \in Client : LogOk(c), NEW d \in Client,
         Waits(d), UploadOk(d)
  PROVE  UploadOk(d)'
<1> DEFINE f == hand[d].file
<1>1. f \in File /\ f.clock \in Clock /\ hand[d].rev \in Nat
  BY HandFields, TypeParts, FileFields
<1>2. /\ primary.rev \in Nat /\ primary'.rev \in Nat /\ primary.file.clock \in Clock
  <2>1. primary.file \in File /\ primary.rev \in Nat /\ primary'.rev \in Nat
    BY DEF TypeOK
  <2> QED
    BY <2>1, FileFields
<1>3. clock[d][d] \in Nat /\ clock'[d][d] \in Nat /\ f.clock[d] \in Nat
  BY <1>1 DEF TypeOK, Clock
<1>4. ASSUME hand'[d].rev = primary'.rev PROVE Extends(d)'
  <2>1. primary' = primary
    BY <1>1, <1>2, <1>4 DEF UploadOk, Later, Waits
  <2>2. hand'[d] = hand[d] /\ clock[d][d] <= clock'[d][d]
    BY DEF Waits
  <2>3. Extends(d)
    BY <1>4, <2>1, <2>2 DEF UploadOk
  <2>4. GoodFile(stamp', waived', f)
    <3>1. \A c \in Client : f.clock[c] <= clock[c][c]
      <4> TAKE c \in Client
      <4>1. CASE c = d
        BY <2>3, <4>1 DEF Extends
      <4>2. CASE c # d
        <5>1. f.clock[c] <= primary.file.clock[c] /\ primary.file.clock[c] <= clock[c][c]
          BY <2>3, <4>2 DEF Extends, LogOk
        <5>2. f.clock[c] \in Nat /\ primary.file.clock[c] \in Nat /\ clock[c][c] \in Nat
          BY <1>1, <1>2 DEF Clock, TypeOK
        <5> QED
          BY <5>1, <5>2
      <4> QED
        BY <4>1, <4>2
    <3>2. GoodFile(stamp, waived, f)
      BY <2>3 DEF Extends
    <3> HIDE DEF f
    <3> QED
      BY <1>1, <3>1, <3>2, FileAbove
  <2>5. f.clock[d] <= clock'[d][d]
    BY <1>3, <2>2, <2>3 DEF Extends
  <2>6. Stored' = Stored /\ waived \subseteq waived'
    BY <2>1 DEF Stored, Later
  <2>7. /\ f.sv = primary'.file.sv + 1
        /\ f.recent = Trim(Append(primary'.file.recent, [sv |-> primary'.file.sv + 1, ops |-> hand[d].ops]))
        /\ Below(primary'.file.clock, f.clock)
        /\ \A c \in Client \ {d} : f.clock[c] <= primary'.file.clock[c]
    BY <2>1, <2>3 DEF Extends
  <2>8. Stored' \subseteq f.state \cup waived' /\ f.state \subseteq Stored' \cup hand[d].ops \cup waived'
    BY <2>3, <2>6 DEF Extends
  <2> QED
    BY <2>2, <2>4, <2>5, <2>7, <2>8 DEF Extends
<1>5. hand[d].rev <= primary'.rev
  BY <1>1, <1>2 DEF UploadOk, Later
<1>6. f.state \subseteq known'[d] /\ hand[d].ops \subseteq f.state
  BY DEF UploadOk, Waits
<1> QED
  BY <1>4, <1>5, <1>6 DEF UploadOk, Waits

\* What a cycle has in hand stays good while it waits.
LEMMA HandLater ==
  ASSUME TypeOK, TypeOK', Later, \A c \in Client : LogOk(c), NEW d \in Client, CacheOk(d),
         Waits(d), HandOk(d)
  PROVE  HandOk(d)'
<1>1. /\ stage'[d] = stage[d] /\ hand'[d] = hand[d]
      /\ staged'[d] = staged[d] /\ cache'[d] = cache[d]
  BY DEF Waits
<1>2. /\ waived \subseteq waived' /\ known[d] \subseteq known'[d]
      /\ known'[d] \subseteq known[d] \cup pending'[d] /\ pending[d] \subseteq pending'[d]
      /\ Stored \subseteq Stored' \cup waived'
  BY DEF Waits, Later
<1>3. /\ hand[d].latest \in Nat /\ hand[d].rev \in Nat /\ hand[d].file.sv \in Nat
      /\ hand[d].file.clock \in Clock
  BY HandFields, TypeParts, FileFields
<1>4. /\ primary.rev \in Nat /\ primary'.rev \in Nat
      /\ primary.file.sv \in Nat /\ primary'.file.sv \in Nat
      /\ primary.file.clock \in Clock /\ primary'.file.clock \in Clock
  <2>1. primary.file \in File /\ primary'.file \in File /\ primary.rev \in Nat /\ primary'.rev \in Nat
    BY DEF TypeOK
  <2> QED
    BY <2>1, FileFields
<1>5. ASSUME stage[d] = "got", ~hand[d].fresh
      PROVE  /\ ReadOk(d)' /\ hand[d].file.state \subseteq known'[d] \cup hand[d].ops \cup waived'
             /\ Holds(d, known[d] \cup hand[d].ops)'
  <2>1. /\ ReadOk(d) /\ hand[d].file.state \subseteq known[d] \cup hand[d].ops \cup waived
        /\ Holds(d, known[d] \cup hand[d].ops)
    BY <1>5 DEF HandOk, At
  <2>2. hand[d].latest <= primary.file.sv
    BY <2>1 DEF ReadOk
  <2>3. known[d] \cup hand[d].ops \subseteq (known'[d] \cup hand[d].ops) \cup waived'
    BY <1>2
  <2>4. /\ Reaches(primary'.file, waived', hand'[d].latest, known'[d] \cup hand[d].ops)
        /\ ReadNow(d)' => Stored' \subseteq (known'[d] \cup hand[d].ops) \cup waived'
    BY <1>1, <2>1, <2>2, <2>3, HoldsLater
  <2>5. ReadOk(d)'
    BY <1>1, <2>1, ReadLater
  <2> QED
    BY <1>1, <1>2, <2>1, <2>4, <2>5 DEF Holds
<1>6. ASSUME (stage[d] = "got" /\ hand[d].fresh) \/ stage[d] = "confirm"
      PROVE  /\ ReadOk(d)' /\ known'[d] \subseteq pending'[d] \cup hand[d].file.state \cup waived'
             /\ Holds(d, hand[d].file.state)'
  <2>1. /\ ReadOk(d) /\ known[d] \subseteq pending[d] \cup hand[d].file.state \cup waived
        /\ Holds(d, hand[d].file.state)
    BY <1>6 DEF HandOk, At
  <2>2. hand[d].latest <= primary.file.sv
    BY <2>1 DEF ReadOk
  <2>4. /\ Reaches(primary'.file, waived', hand'[d].latest, hand[d].file.state)
        /\ ReadNow(d)' => Stored' \subseteq hand[d].file.state \cup waived'
    BY <1>1, <2>1, <2>2, HoldsLater
  <2>5. ReadOk(d)'
    BY <1>1, <2>1, ReadLater
  <2> QED
    BY <1>1, <1>2, <2>1, <2>4, <2>5 DEF Holds
<1>7. ASSUME stage[d] = "remote"
      PROVE  /\ ReadOk(d)' /\ primary'.file.clock[d] <= hand[d].file.clock[d]
             /\ Holds(d, hand[d].file.state)'
  <2>1. /\ ReadOk(d) /\ primary.file.clock[d] <= hand[d].file.clock[d]
        /\ Holds(d, hand[d].file.state)
    BY <1>7 DEF HandOk, At
  <2>2. hand[d].latest <= primary.file.sv
    BY <2>1 DEF ReadOk
  <2>3. primary'.file.clock[d] <= hand[d].file.clock[d]
    <3>1. primary'.file.clock[d] <= primary.file.clock[d]
      BY DEF Waits
    <3>2. primary'.file.clock[d] \in Nat /\ primary.file.clock[d] \in Nat /\ hand[d].file.clock[d] \in Nat
      BY <1>3, <1>4 DEF Clock
    <3> QED
      BY <2>1, <3>1, <3>2
  <2>4. /\ Reaches(primary'.file, waived', hand'[d].latest, hand[d].file.state)
        /\ ReadNow(d)' => Stored' \subseteq hand[d].file.state \cup waived'
    BY <1>1, <2>1, <2>2, HoldsLater
  <2>5. ReadOk(d)'
    BY <1>1, <2>1, ReadLater
  <2> QED
    BY <1>1, <1>2, <2>3, <2>4, <2>5 DEF Holds
<1>8. ASSUME stage[d] = "applied" \/ stage[d] = "rebuilt"
      PROVE  hand[d].latest <= primary'.file.sv /\ Holds(d, known[d])'
  <2>1. hand[d].latest <= primary.file.sv /\ Holds(d, known[d])
    BY <1>8 DEF HandOk, At
  <2>2. known[d] \subseteq known'[d] \cup waived'
    BY <1>2
  <2>3. /\ Reaches(primary'.file, waived', hand'[d].latest, known'[d])
        /\ ReadNow(d)' => Stored' \subseteq known'[d] \cup waived'
    BY <1>1, <2>1, <2>2, HoldsLater
  <2>4. hand[d].latest <= primary'.file.sv
    BY <1>3, <1>4, <2>1 DEF Later
  <2> QED
    BY <2>3, <2>4 DEF Holds
<1>9. ASSUME stage[d] = "back" \/ stage[d] = "put" PROVE UploadOk(d)'
  <2>1. UploadOk(d)
    BY <1>9 DEF HandOk, At
  <2> QED
    BY <2>1, UploadLater
<1>10. ASSUME hand[d].rev = primary'.rev, stage[d] = "back" \/ stage[d] = "put" PROVE primary' = primary
  <2>1. hand[d].rev <= primary.rev
    BY <1>10 DEF HandOk, At, UploadOk
  <2> QED
    BY <1>3, <1>4, <1>10, <2>1 DEF Later
<1>11. ASSUME stage[d] = "back"
       PROVE  hand[d].rev > 0 /\ (hand[d].rev = primary'.rev => hand[d].back = primary'.file)
  BY <1>10, <1>11 DEF HandOk, At
<1>12. ASSUME stage[d] = "put", hand[d].rev = primary'.rev, primary'.kind = "good"
       PROVE  bak' = primary'.file
  <2>1. primary' = primary
    BY <1>10, <1>12
  <2>2. bak = primary.file
    BY <1>12, <2>1 DEF HandOk, At
  <2> QED
    BY <2>1, <2>2 DEF Later
<1>13. ASSUME stage[d] = "stored"
       PROVE  /\ hand[d].file.sv <= primary'.file.sv
              /\ Reaches(primary'.file, waived', hand[d].file.sv, known'[d])
  <2>1. /\ hand[d].file.sv <= primary.file.sv
        /\ Reaches(primary.file, waived, hand[d].file.sv, known[d])
    BY <1>13 DEF HandOk, At
  <2>2. known[d] \subseteq known'[d] \cup waived'
    BY <1>2
  <2>3. Reaches(primary'.file, waived', hand[d].file.sv, known'[d])
    BY <1>3, <2>1, <2>2, ReachesLater
  <2>4. primary.file.sv <= primary'.file.sv
    BY DEF Later
  <2> QED
    BY <1>3, <1>4, <2>1, <2>3, <2>4
<1>14. ASSUME stage[d] = "stored" \/ stage[d] = "counted"
       PROVE  hand[d].ops \subseteq known'[d] /\ hand[d].ops \subseteq Stored' \cup waived'
  BY <1>2, <1>14 DEF HandOk, At
<1>15. ~hand[d].force
  BY DEF HandOk
<1> QED
  BY <1>1, <1>5, <1>6, <1>7, <1>8, <1>9, <1>11, <1>12, <1>13, <1>14, <1>15 DEF HandOk, At

\* What a step of another device leaves.
Untouched(d) ==
  /\ log'[d] = log[d] /\ pending'[d] = pending[d] /\ known'[d] = known[d]
  /\ clock'[d] = clock[d] /\ import'[d] = import[d] /\ mem'[d] = mem[d]
  /\ staged'[d] = staged[d] /\ cache'[d] = cache[d]
  /\ stage'[d] = stage[d] /\ hand'[d] = hand[d]
  /\ primary'.file.clock[d] <= primary.file.clock[d]

\* A device that a step leaves alone keeps its part of the invariant.
LEMMA OtherKept ==
  ASSUME TypeOK, TypeOK', Later, IInv, NEW d \in Client, Untouched(d)
  PROVE  LogOk(d)' /\ MemOk(d)' /\ CacheOk(d)' /\ HandOk(d)'
<1>1. /\ \A c \in Client : LogOk(c)
      /\ LogOk(d) /\ MemOk(d) /\ CacheOk(d) /\ HandOk(d)
  BY DEF IInv
<1>2. /\ primary.file.clock[d] \in Nat /\ primary'.file.clock[d] \in Nat /\ clock[d][d] \in Nat
  <2>1. primary.file \in File /\ primary'.file \in File /\ clock[d] \in Clock
    BY DEF TypeOK
  <2>2. primary.file.clock \in Clock /\ primary'.file.clock \in Clock
    BY <2>1, FileFields
  <2> QED
    BY <2>1, <2>2 DEF Clock
<1>3. primary'.file.clock[d] <= clock[d][d]
  BY <1>1, <1>2 DEF LogOk, Untouched
<1>4. LogOk(d)'
  BY <1>1, <1>3, LogLater DEF Untouched
<1>5. known[d] \subseteq known'[d] \cup waived'
  BY DEF Untouched
<1>6. MemOk(d)' /\ CacheOk(d)'
  BY <1>1, <1>5, MemLater, CacheLater DEF Untouched
<1>7. Waits(d)
  BY <1>2 DEF Waits, Untouched
<1>8. HandOk(d)'
  BY <1>1, <1>7, HandLater
<1> QED
  BY <1>4, <1>6, <1>8

\* The initial states satisfy the invariant.
LEMMA InvInit == ASSUME Init PROVE IInv
<1>1. /\ primary = [rev |-> 0, kind |-> "none", file |-> Blank] /\ bak = Blank
      /\ stamp = [e \in Edit |-> EmptyClock] /\ waived = {}
  BY DEF Init
<1>2. Made(stamp) = {}
  BY <1>1 DEF Made
<1>3. /\ primary.file = Blank /\ primary.rev = 0 /\ primary.kind = "none" /\ Stored = {}
      /\ primary.file.sv = 0 /\ primary.file.clock = EmptyClock
  BY <1>1, BlankFile DEF Stored
<1>4. \A W : GoodFile(stamp, W, Blank)
  BY <1>2, BlankGood
<1>5. FileOk
  BY <1>1, <1>3, <1>4 DEF FileOk
<1>6. StampsOk
  <2> SUFFICES ASSUME NEW d \in Client PROVE Written(d) = {d} \X (1..Cardinality(Written(d)))
    BY <1>1, <1>2 DEF StampsOk
  <2>1. Written(d) = {}
    BY <1>1 DEF Written
  <2>2. Cardinality(Written(d)) = 0
    BY <2>1, FS_EmptySet
  <2> QED
    BY <2>1, <2>2
<1>7. ASSUME NEW d \in Client PROVE LogOk(d) /\ MemOk(d) /\ CacheOk(d) /\ HandOk(d)
  <2>1. /\ log[d] = {} /\ pending[d] = {} /\ known[d] = {} /\ clock[d] = EmptyClock
        /\ import[d] = NoImport /\ mem[d] = NoMemory /\ staged[d] = NoStage /\ cache[d] = NoCache
        /\ stage[d] = "idle" /\ hand[d] = NoHand
    BY DEF Init
  <2>2. LogOk(d)
    BY <1>2, <1>3, <2>1, EmptyClockFacts DEF LogOk, Counts
  <2>3. MemOk(d)
    BY <1>3, <2>1 DEF MemOk, NoMemory, Reaches, Stored
  <2>4. CacheOk(d)
    BY <1>3, <2>1 DEF CacheOk, NoStage, NoCache
  <2>5. HandOk(d)
    BY <2>1 DEF HandOk, NoHand, At
  <2> QED
    BY <2>2, <2>3, <2>4, <2>5
<1> QED
  BY <1>5, <1>6, <1>7 DEF IInv

-----------------------------------------------------------------------------
(* Steps that leave what the devices share *)

Still == primary' = primary /\ bak' = bak /\ stamp' = stamp /\ waived' = waived

\* A file that stays as it is counts as a later one.
LEMMA StillLater == ASSUME TypeOK, Still PROVE Later
<1>1. primary.rev \in Nat /\ primary.file.sv \in Nat /\ primary.file.clock \in Clock
  BY SharedFields
<1>2. Below(primary.file.clock, primary.file.clock)
  BY <1>1 DEF Below, Clock
<1> QED
  BY <1>1, <1>2 DEF Still, Later, SameStamps, Stored

\* The invariants of the file and of the stamps, when neither is touched.
LEMMA StillShared ==
  ASSUME TypeOK, IInv, Still, \A c \in Client : known[c] \subseteq known'[c] \cup waived
  PROVE  FileOk' /\ StampsOk'
<1>1. FileOk /\ StampsOk
  BY DEF IInv
<1>2. FileOk'
  BY <1>1 DEF FileOk, Still
<1>3. ASSUME NEW d \in Client PROVE Written(d)' = Written(d)
  BY DEF Written, Still
<1>4. \A d \in Client : (Written(d) = {d} \X (1..Cardinality(Written(d))))'
  BY <1>1, <1>3 DEF StampsOk
<1>5. \A e \in Made(stamp') :
       /\ stamp'[e][e[1]] >= 1 /\ e \in known'[e[1]] \cup waived'
       /\ \A c \in Client \ {e[1]} : stamp'[e][c] <= primary'.file.clock[c]
  <2> SUFFICES ASSUME NEW e \in Made(stamp)
               PROVE  /\ stamp[e][e[1]] >= 1 /\ e \in known'[e[1]] \cup waived
                      /\ \A c \in Client \ {e[1]} : stamp[e][c] <= primary.file.clock[c]
    BY DEF Still
  <2>1. e[1] \in Client
    BY EditPair DEF Made
  <2> QED
    BY <1>1, <2>1 DEF StampsOk
<1>6. waived' \subseteq Made(stamp')
  BY <1>1 DEF StampsOk, Still
<1> QED
  BY <1>2, <1>4, <1>5, <1>6 DEF StampsOk

\* A step of one device: what is shared moves on, and the device keeps its part.
LEMMA StepKept ==
  ASSUME TypeOK, TypeOK', IInv, Later, NEW d \in Client, \A c \in Client \ {d} : Untouched(c),
         FileOk', StampsOk', LogOk(d)', MemOk(d)', CacheOk(d)', HandOk(d)'
  PROVE  IInv'
<1>1. ASSUME NEW c \in Client PROVE LogOk(c)' /\ MemOk(c)' /\ CacheOk(c)' /\ HandOk(c)'
  <2>1. CASE c = d
    BY <2>1
  <2>2. CASE c # d
    BY <2>2, OtherKept
  <2> QED
    BY <2>1, <2>2
<1> QED
  BY <1>1 DEF IInv

\* The variables of the devices, changed of one device only.
OnlyOf(d) ==
  \A c \in Client \ {d} :
    /\ log'[c] = log[c] /\ pending'[c] = pending[c] /\ known'[c] = known[c]
    /\ clock'[c] = clock[c] /\ import'[c] = import[c] /\ mem'[c] = mem[c]
    /\ staged'[c] = staged[c] /\ cache'[c] = cache[c]
    /\ stage'[c] = stage[c] /\ hand'[c] = hand[c]

\* A step of one device that leaves the file alone: its own part is all there is to show.
LEMMA StillKept ==
  ASSUME TypeOK, TypeOK', IInv, Still, NEW d \in Client, OnlyOf(d),
         known[d] \subseteq known'[d] \cup waived,
         LogOk(d)', MemOk(d)', CacheOk(d)', HandOk(d)'
  PROVE  IInv'
<1>1. Later
  BY StillLater
<1>2. \A c \in Client : known[c] \subseteq known'[c] \cup waived
  BY DEF OnlyOf
<1>3. FileOk' /\ StampsOk'
  BY <1>2, StillShared
<1>4. \A c \in Client \ {d} : Untouched(c)
  <2> TAKE c \in Client \ {d}
  <2>1. primary.file.clock[c] \in Nat
    BY SharedFields DEF Clock
  <2>2. primary'.file.clock[c] <= primary.file.clock[c]
    BY <2>1 DEF Still
  <2> QED
    BY <2>2 DEF OnlyOf, Untouched
<1> QED
  BY <1>1, <1>3, <1>4, StepKept

\* The parts of a device that such a step leaves alone.
SameLog(d) ==
  /\ log'[d] = log[d] /\ pending'[d] = pending[d] /\ known'[d] = known[d]
  /\ clock'[d] = clock[d] /\ import'[d] = import[d]

\* LogOk when log and file are left alone.
LEMMA LogStill ==
  ASSUME TypeOK, TypeOK', IInv, Still, NEW d \in Client, SameLog(d) PROVE LogOk(d)'
<1>1. Later
  BY StillLater
<1>2. LogOk(d) /\ \A c \in Client : LogOk(c)
  BY DEF IInv
<1>3. primary'.file.clock[d] <= clock[d][d]
  BY <1>2 DEF LogOk, Still
<1> QED
  BY <1>1, <1>2, <1>3, LogLater DEF SameLog

\* MemOk when memory and file are left alone.
LEMMA MemStill ==
  ASSUME TypeOK, TypeOK', IInv, Still, NEW d \in Client, mem'[d] = mem[d],
         known[d] \subseteq known'[d] \cup waived
  PROVE  MemOk(d)'
<1>1. Later /\ MemOk(d) /\ known[d] \subseteq known'[d] \cup waived'
  BY StillLater DEF IInv, Still
<1> QED
  BY <1>1, MemLater

\* CacheOk when staged baseline, read cache and file are left alone.
LEMMA CacheStill ==
  ASSUME TypeOK, TypeOK', IInv, Still, NEW d \in Client, staged'[d] = staged[d],
         cache'[d] = cache[d], known[d] \subseteq known'[d] \cup waived
  PROVE  CacheOk(d)'
<1>1. Later /\ CacheOk(d) /\ known[d] \subseteq known'[d] \cup waived'
  BY StillLater DEF IInv, Still
<1> QED
  BY <1>1, CacheLater

\* Without a cached file, and without a staged baseline or with the old one.
LEMMA CacheGone ==
  ASSUME TypeOK, IInv, Still, NEW d \in Client, cache'[d] = NoCache,
         staged'[d] = staged[d] \/ staged'[d] = NoStage
  PROVE  CacheOk(d)'
<1>1. CacheOk(d) /\ FileOk /\ primary.rev \in Nat /\ primary.file.sv \in Nat
  BY SharedFields DEF IInv
<1>2. /\ NoCache.rev = 0 /\ NoCache.file = Blank /\ NoCache' = NoCache
      /\ NoStage.rev = 0 /\ NoStage.expected = 0 /\ NoStage.held = FALSE
  BY DEF NoCache, NoStage
<1>3. primary.rev = 0 => primary.file = Blank
  BY <1>1 DEF FileOk
<1>4. staged'[d].rev <= primary.rev /\ staged'[d].expected <= primary.file.sv
      /\ (~staged'[d].held => staged'[d].rev = 0)
  BY <1>1, <1>2 DEF CacheOk
<1> QED
  BY <1>1, <1>2, <1>3, <1>4 DEF CacheOk, Still

\* Where a cycle holds nothing that matters.
LEMMA HandNone ==
  ASSUME NEW d \in Client, stage'[d] \in {"idle", "gap", "dialog", "synced"}, ~hand'[d].force
  PROVE  HandOk(d)'
BY DEF HandOk, At

\* A readable folder has the last complete write to read.
LEMMA ContentsNow ==
  ASSUME IInv, Readable PROVE Contents = primary.file /\ primary.rev > 0 /\ primary.kind # "none"
BY DEF IInv, FileOk, Readable, Contents

\* Reading the file and staging its baseline keeps MemOk and CacheOk.
LEMMA StageKept ==
  ASSUME TypeOK, TypeOK', IInv, Still, NEW d \in Client, Readable, Stage(d), known'[d] = known[d]
  PROVE  MemOk(d)' /\ CacheOk(d)'
<1>1. SharedType /\ AdapterType /\ MemOk(d) /\ CacheOk(d)
  BY TypeParts DEF IInv
<1>2. /\ cache'[d].rev = primary.rev /\ cache'[d].file = Contents
      /\ staged'[d].held /\ staged'[d].expected = Contents.sv
      /\ staged'[d].rev = (IF primary.kind = "torn" THEN 0 ELSE primary.rev)
      /\ mem'[d].rev \in {0, mem[d].rev}
      /\ mem'[d].cursor = mem[d].cursor /\ mem'[d].expected = mem[d].expected
  BY <1>1, StageType
<1>3. Contents = primary.file /\ primary.rev > 0 /\ primary.rev \in Nat /\ primary.file.sv \in Nat
  BY ContentsNow, SharedFields
<1>4. MemOk(d)'
  <2>1. mem'[d].rev <= primary.rev
    BY <1>1, <1>2, <1>3 DEF MemOk
  <2>2. mem'[d].rev = primary.rev => Stored \subseteq known[d] \cup waived
    BY <1>1, <1>2, <1>3 DEF MemOk
  <2>3. Stored' = Stored
    BY DEF Still, Stored
  <2> QED
    BY <1>1, <1>2, <2>1, <2>2, <2>3 DEF MemOk, Still
<1>5. CacheOk(d)'
  BY <1>1, <1>2, <1>3 DEF CacheOk, Still
<1> QED
  BY <1>4, <1>5

\* The file of the folder is good to have in hand.
LEMMA ReadFolder ==
  ASSUME TypeOK, IInv, NEW d \in Client, NEW since
  PROVE  /\ \A e \in News(d, primary.file, since) :
              /\ e \in Made(stamp) /\ e \in Stored \cup waived /\ Below(stamp[e], primary.file.clock)
         /\ Below(primary.file.clock, primary.file.clock) /\ primary.file.sv <= primary.file.sv
         /\ GoodFile(stamp, waived, primary.file)
<1>1. GoodFile(stamp, waived, primary.file)
  BY DEF IInv, FileOk
<1>2. Batches(stamp, waived, primary.file)
  BY <1>1 DEF GoodFile
<1>3. ASSUME NEW e \in News(d, primary.file, since)
      PROVE  e \in Made(stamp) /\ e \in Stored \cup waived /\ Below(stamp[e], primary.file.clock)
  <2> DEFINE file == primary.file
  <2>f. file = primary.file
    OBVIOUS
  <2> HIDE DEF file
  <2>n. \E i \in DOMAIN file.recent : e \in file.recent[i].ops
    BY <1>3, <2>f, NewsFacts
  <2>1. PICK i \in DOMAIN primary.file.recent : e \in primary.file.recent[i].ops
    BY <2>f, <2>n
  <2> QED
    <3>1. e \in Made(stamp) /\ e \in primary.file.state \cup waived /\ Below(stamp[e], primary.file.clock)
      BY <1>2, <2>1, Zenon DEF Batches
    <3> QED
      BY <3>1 DEF Stored
<1>4. primary.file.clock \in Clock /\ primary.file.sv \in Nat
  BY SharedFields
<1>5. Below(primary.file.clock, primary.file.clock)
  BY <1>4 DEF Below, Clock
<1> QED
  BY <1>1, <1>3, <1>4, <1>5

\* A step of the cycle that leaves the log and what the adapter keeps.
LEMMA OnlyFlow ==
  ASSUME TypeOK, TypeOK', IInv, NEW d \in Client, NEW s \in Stages, NEW h \in Hand, Goto(d, s, h),
         UNCHANGED <<remote, oplog, adapter>>, stamp' = stamp, waived' = waived,
         HandOk(d)'
  PROVE  IInv'
<1>1. FlowType
  BY TypeParts
<1>2. /\ Still
      /\ log' = log /\ pending' = pending /\ known' = known /\ clock' = clock /\ import' = import
      /\ mem' = mem /\ staged' = staged /\ cache' = cache
  BY DEF Still, remote, oplog, adapter
<1>3. \A c \in Client \ {d} : stage'[c] = stage[c] /\ hand'[c] = hand[c]
  BY <1>1, GotoType
<1>4. OnlyOf(d)
  BY <1>2, <1>3 DEF OnlyOf
<1>5. LogOk(d)'
  BY <1>2, LogStill DEF SameLog
<1>6. MemOk(d)' /\ CacheOk(d)'
  BY <1>2, MemStill, CacheStill
<1> QED
  BY <1>2, <1>4, <1>5, <1>6, StillKept

\* To a stage where the cycle holds nothing that matters.
LEMMA FlowNone ==
  ASSUME TypeOK, TypeOK', IInv, NEW d \in Client,
         NEW s \in {"idle", "gap", "dialog", "synced"}, NEW h \in Hand, ~h.force, Goto(d, s, h),
         UNCHANGED <<remote, oplog, adapter>>, stamp' = stamp, waived' = waived
  PROVE  IInv'
<1>1. s \in Stages
  BY DEF Stages
<1>2. stage'[d] = s /\ hand'[d] = h
  BY <1>1, GotoType, TypeParts
<1>3. HandOk(d)'
  BY <1>2, HandNone
<1> QED
  BY <1>1, <1>3, OnlyFlow

\* Leaving the flow keeps the invariant.
LEMMA FlowQuit ==
  ASSUME TypeOK, TypeOK', IInv, NEW d \in Client, Quit(d),
         UNCHANGED <<remote, oplog, adapter>>, stamp' = stamp, waived' = waived
  PROVE  IInv'
<1>1. NoHand \in Hand /\ NoHand.force = FALSE
  BY NothingTypes DEF NoHand
<1> QED
  BY <1>1, FlowNone DEF Quit

\* A read of the folder, with what comes of it in hand.
LEMMA StageStep ==
  ASSUME TypeOK, TypeOK', IInv, NEW d \in Client, Readable, Stage(d),
         NEW s \in Stages, NEW h \in Hand, Goto(d, s, h),
         UNCHANGED <<remote, oplog>>, stamp' = stamp, waived' = waived, HandOk(d)'
  PROVE  IInv'
<1>1. SharedType /\ AdapterType /\ FlowType
  BY TypeParts
<1>2. /\ Still
      /\ log' = log /\ pending' = pending /\ known' = known /\ clock' = clock /\ import' = import
  BY DEF Still, remote, oplog
<1>3. \A c \in Client \ {d} : stage'[c] = stage[c] /\ hand'[c] = hand[c]
  BY <1>1, GotoType
<1>4. \A c \in Client \ {d} : cache'[c] = cache[c] /\ staged'[c] = staged[c] /\ mem'[c] = mem[c]
  BY <1>1, StageType
<1>5. OnlyOf(d)
  BY <1>2, <1>3, <1>4 DEF OnlyOf
<1>6. LogOk(d)'
  BY <1>2, LogStill DEF SameLog
<1>7. MemOk(d)' /\ CacheOk(d)'
  BY <1>2, StageKept
<1> QED
  BY <1>2, <1>5, <1>6, <1>7, StillKept

\* In such a folder no device has a full-state operation to keep or to restart from.
LEMMA OwnImport ==
  ASSUME TypeOK, IInv, NEW d \in Client
  PROVE  /\ import[d] = NoImport /\ import \in [Client -> Import]
         /\ \A es : Logged(d, es) = import
         /\ [import EXCEPT ![d] = Snapshotted(@)] = import
         /\ [import EXCEPT ![d] = Rejected(@)] = import
         /\ RestartClock(d) = clock[d]
         /\ Sends(d) => import' = import
<1>1. LogType /\ import[d] = NoImport /\ ~hand[d].force
  BY TypeParts DEF IInv, LogOk, HandOk
<1>2. import \in [Client -> Import] /\ import[d] \in Import
  BY <1>1 DEF LogType
<1>3. ASSUME Sends(d) PROVE import' = import
  <2>1. import[d].sent = FALSE
    BY <1>1 DEF NoImport
  <2>2. (import[d].sent \/ hand[d].force) = FALSE
    BY <1>1, <2>1
  <2>3. import' = [import EXCEPT ![d].sent = import[d].sent \/ hand[d].force]
    BY <1>3 DEF Sends
  <2>4. [import[d] EXCEPT !.sent = FALSE] = import[d]
    BY <1>2, <2>1 DEF Import
  <2> QED
    BY <1>2, <2>2, <2>3, <2>4
<1> QED
  BY <1>1, <1>2, <1>3, NoImportKept

\* Compaction of a device's log keeps the invariant.
LEMMA PruneKept ==
  ASSUME TypeOK, TypeOK', IInv, NEW d \in Client, Prune(d) PROVE IInv'
<1>1. LogType
  BY TypeParts
<1>2. /\ Still
      /\ log' = [log EXCEPT ![d] = {}] /\ pending' = pending /\ known' = known /\ clock' = clock
      /\ import' = import /\ mem' = mem /\ staged' = staged /\ cache' = cache
      /\ stage' = stage /\ hand' = hand
  BY <1>1, OwnImport DEF Prune, Still, remote, adapter, flow
<1>3. OnlyOf(d) /\ log'[d] = {}
  BY <1>1, <1>2 DEF OnlyOf, LogType
<1>4. LogOk(d) /\ HandOk(d) /\ CacheOk(d) /\ \A c \in Client : LogOk(c)
  BY DEF IInv
<1>5. LogOk(d)'
  BY <1>2, <1>3, <1>4 DEF LogOk, Still, Stored
<1>6. MemOk(d)' /\ CacheOk(d)'
  BY <1>2, MemStill, CacheStill
<1>7. Waits(d)
  <2>1. clock[d][d] \in Nat /\ primary.file.clock[d] \in Nat
    BY <1>1, LogFields, SharedFields DEF Clock
  <2> QED
    BY <1>2, <2>1 DEF Waits, Still
<1>8. HandOk(d)'
  BY <1>2, <1>4, <1>7, StillLater, HandLater
<1> QED
  BY <1>2, <1>3, <1>5, <1>6, <1>8, StillKept

\* A restart keeps the invariant: the staged baseline and the read are lost with it.
LEMMA CrashKept ==
  ASSUME TypeOK, TypeOK', IInv, NEW d \in Client, Crash(d) PROVE IInv'
<1>1. AdapterType /\ FlowType /\ clock \in [Client -> Clock]
  BY TypeParts DEF LogType
<1>2. /\ Still
      /\ log' = log /\ pending' = pending /\ known' = known /\ clock' = clock
      /\ import' = import /\ mem' = mem
      /\ staged' = [staged EXCEPT ![d] = NoStage] /\ cache' = [cache EXCEPT ![d] = NoCache]
      /\ Quit(d)
  BY <1>1, OwnImport DEF Crash, Still, remote
<1>3. /\ stage'[d] = "idle" /\ hand'[d] = NoHand
      /\ \A c \in Client \ {d} : stage'[c] = stage[c] /\ hand'[c] = hand[c]
  BY <1>1, <1>2, QuitType
<1>4. OnlyOf(d) /\ staged'[d] = NoStage /\ cache'[d] = NoCache
  BY <1>1, <1>2, <1>3 DEF OnlyOf, AdapterType
<1>5. LogOk(d)'
  BY <1>2, LogStill DEF SameLog
<1>6. MemOk(d)' /\ CacheOk(d)'
  BY <1>2, <1>4, MemStill, CacheGone
<1>7. HandOk(d)'
  BY <1>3, HandNone DEF NoHand
<1> QED
  BY <1>2, <1>4, <1>5, <1>6, <1>7, StillKept

\* The expiry of the read cache keeps the invariant.
LEMMA ExpireKept ==
  ASSUME TypeOK, TypeOK', IInv, NEW d \in Client, Expire(d) PROVE IInv'
<1>1. AdapterType
  BY TypeParts
<1>2. /\ Still
      /\ log' = log /\ pending' = pending /\ known' = known /\ clock' = clock
      /\ import' = import /\ mem' = mem /\ staged' = staged
      /\ cache' = [cache EXCEPT ![d] = NoCache] /\ stage' = stage /\ hand' = hand
      /\ stage[d] \in {"idle", "synced"}
  BY DEF Expire, Still, At, remote, oplog, flow
<1>3. OnlyOf(d) /\ staged'[d] = staged[d] /\ cache'[d] = NoCache
  BY <1>1, <1>2 DEF OnlyOf, AdapterType
<1>4. LogOk(d)'
  BY <1>2, LogStill DEF SameLog
<1>5. MemOk(d)' /\ CacheOk(d)'
  BY <1>2, <1>3, MemStill, CacheGone
<1>6. ~hand[d].force
  BY DEF IInv, HandOk
<1>7. HandOk(d)'
  BY <1>2, <1>6, HandNone
<1> QED
  BY <1>2, <1>3, <1>4, <1>5, <1>7, StillKept

-----------------------------------------------------------------------------
(* Downloads *)

\* A whole snapshot is in hand.
LEMMA FreshHand ==
  ASSUME TypeOK, TypeOK', IInv, NEW d \in Client, Readable,
         hand'[d] = Answer(d, 0), stage'[d] \in {"got", "remote"},
         UNCHANGED <<remote, oplog>>, stamp' = stamp, waived' = waived
  PROVE  HandOk(d)'
<1>1. SharedType /\ LogOk(d)
  BY TypeParts DEF IInv
<1>2. Contents = primary.file
  BY ContentsNow
<1>3. /\ Answer(d, 0).file = primary.file /\ Answer(d, 0).latest = primary.file.sv
      /\ Answer(d, 0).fresh = TRUE /\ Answer(d, 0).ops = News(d, primary.file, 0)
      /\ Answer(d, 0).force = FALSE
  BY <1>1, <1>2, AnswerType
<1>4. primary' = primary /\ known' = known /\ pending' = pending
  BY DEF remote, oplog
<1>5. Stored' = Stored /\ Stored = primary.file.state
  BY <1>4 DEF Stored
<1>6. ReadOk(d)'
  BY <1>3, <1>4, <1>5, ReadFolder DEF ReadOk
<1>7. Reaches(primary.file, waived, primary.file.sv, primary.file.state)
  BY ReachesAll
<1>8. Holds(d, hand[d].file.state)'
  BY <1>3, <1>4, <1>5, <1>7 DEF Holds
<1>9. known'[d] \subseteq pending'[d] \cup hand'[d].file.state \cup waived'
  BY <1>1, <1>3, <1>4, <1>5 DEF LogOk
<1>10. primary'.file.clock[d] <= hand'[d].file.clock[d]
  <2>1. primary.file.clock[d] \in Nat
    BY SharedFields DEF Clock
  <2> QED
    BY <1>3, <1>4, <2>1
<1> QED
  BY <1>3, <1>6, <1>8, <1>9, <1>10 DEF HandOk, At

\* Nothing is missing between the cursor and the operations of the file.
LEMMA NewsReach ==
  ASSUME TypeOK, IInv, NEW d \in Client, mem[d].cursor # 0,
         OldestKept(primary.file) <= mem[d].cursor + 1
  PROVE  Stored \subseteq known[d] \cup News(d, primary.file, mem[d].cursor) \cup waived
<1> SUFFICES ASSUME NEW e \in Stored, e \notin waived, e \notin known[d]
             PROVE  e \in News(d, primary.file, mem[d].cursor)
  OBVIOUS
<1>1. MemOk(d) /\ LogOk(d) /\ StampsOk /\ GoodFile(stamp, waived, primary.file)
  BY DEF IInv, FileOk
<1>2. e \in OpsAfter(primary.file, mem[d].cursor)
  BY <1>1 DEF MemOk, Reaches, Stored
<1>3. PICK i \in DOMAIN primary.file.recent :
        primary.file.recent[i].sv > mem[d].cursor /\ e \in primary.file.recent[i].ops
  BY <1>2 DEF OpsAfter
<1>4. primary.file.recent[i].sv \in Nat /\ mem[d].cursor \in Nat
  <2>1. primary.file.recent[i] \in Batch
    BY SharedFields
  <2> QED
    BY <2>1, AdapterFields, TypeParts DEF Batch
<1>5. e \in Made(stamp)
  BY <1>1 DEF GoodFile, Counted, Stored
<1>6. e[1] # d
  BY <1>1, <1>5 DEF StampsOk
<1>7. e \notin log[d] \cup pending[d]
  BY <1>1 DEF LogOk
<1>8. ~(primary.file.recent[i].sv <= mem[d].cursor)
  BY <1>3, <1>4
<1> QED
  BY <1>3, <1>6, <1>7, <1>8, NewsFacts, Zenon

\* What a download of news has in hand continues what the device holds: there is no gap.
LEMMA NewsHand ==
  ASSUME TypeOK, TypeOK', IInv, NEW d \in Client, Readable, mem[d].cursor # 0,
         ~Gap(d, mem[d].cursor),
         hand'[d] = Answer(d, mem[d].cursor), stage'[d] = "got",
         UNCHANGED <<remote, oplog>>, stamp' = stamp, waived' = waived
  PROVE  HandOk(d)'
<1> DEFINE ops == News(d, primary.file, mem[d].cursor)
<1>1. SharedType /\ LogOk(d) /\ mem[d].cursor \in Nat
  BY AdapterFields, TypeParts DEF IInv
<1>2. Contents = primary.file
  BY ContentsNow
<1>3. /\ hand'[d].file = primary.file /\ hand'[d].latest = primary.file.sv
      /\ ~hand'[d].fresh /\ hand'[d].ops = ops /\ hand'[d].force = FALSE
  <2> DEFINE k == mem[d].cursor
  <2>1. k \in Nat /\ k # 0 /\ hand'[d] = Answer(d, k) /\ ops = News(d, primary.file, k)
    BY <1>1
  <2> HIDE DEF k, ops
  <2>2. /\ Answer(d, k).file = Contents /\ Answer(d, k).latest = Contents.sv
        /\ Answer(d, k).fresh = (k = 0) /\ Answer(d, k).ops = News(d, Contents, k)
        /\ Answer(d, k).force = FALSE
    BY <1>1, <2>1, AnswerType
  <2> QED
    BY <1>2, <2>1, <2>2
<1>4. primary' = primary /\ known' = known /\ pending' = pending
  BY DEF remote, oplog
<1>5. Stored' = Stored /\ Stored = primary.file.state
  BY <1>4 DEF Stored
<1>6. OldestKept(primary.file) <= mem[d].cursor + 1
  <2>1. ~(OldestKept(primary.file) > mem[d].cursor + 1)
    BY <1>1, <1>2 DEF Gap, GapDetected
  <2>2. OldestKept(primary.file) \in Nat
    <3>1. primary.file.recent \in Seq(Batch)
      BY SharedFields
    <3>2. CASE primary.file.recent = <<>>
      BY <3>2 DEF OldestKept
    <3>3. CASE primary.file.recent # <<>>
      <4>1. primary.file.recent[1] \in Batch
        BY <3>1, <3>3
      <4> QED
        BY <3>3, <4>1 DEF OldestKept, Batch
    <3> QED
      BY <3>2, <3>3
  <2> QED
    BY <1>1, <2>1, <2>2
<1>7. Stored \subseteq known[d] \cup ops \cup waived
  BY <1>6, NewsReach
<1>8. ReadOk(d)'
  BY <1>3, <1>4, <1>5, ReadFolder DEF ReadOk
<1> HIDE DEF ops
<1>9. Reaches(primary.file, waived, primary.file.sv, known[d] \cup ops)
  BY <1>5, <1>7, ReachesAll
<1>10. Holds(d, known[d] \cup hand[d].ops)'
  BY <1>3, <1>4, <1>5, <1>7, <1>9 DEF Holds
<1> QED
  BY <1>3, <1>4, <1>5, <1>7, <1>8, <1>10 DEF HandOk, At

\* Reading the file keeps the invariant.
LEMMA FetchKept ==
  ASSUME TypeOK, TypeOK', IInv, NEW d \in Client, Fetch(d) PROVE IInv'
<1> DEFINE s == IF Gap(d, mem[d].cursor) THEN "gap" ELSE "got"
<1>1. SharedType /\ FlowType /\ mem[d].cursor \in Nat
  BY AdapterFields, TypeParts
<1>2. /\ Readable /\ Stage(d) /\ Goto(d, s, Answer(d, mem[d].cursor))
      /\ UNCHANGED <<remote, oplog>> /\ stamp' = stamp /\ waived' = waived
  BY DEF Fetch, history
<1>3. Answer(d, mem[d].cursor) \in Hand /\ Answer(d, mem[d].cursor).force = FALSE
  BY <1>1, AnswerType
<1>4. s \in Stages
  BY DEF Stages
<1>5. stage'[d] = s /\ hand'[d] = Answer(d, mem[d].cursor)
  <2> HIDE DEF s
  <2> QED
    BY <1>1, <1>2, <1>3, <1>4, GotoType
<1>6. HandOk(d)'
  <2>1. CASE Gap(d, mem[d].cursor)
    BY <1>3, <1>5, <2>1, HandNone
  <2>2. CASE ~Gap(d, mem[d].cursor) /\ mem[d].cursor = 0
    BY <1>2, <1>5, <2>2, FreshHand
  <2>3. CASE ~Gap(d, mem[d].cursor) /\ mem[d].cursor # 0
    BY <1>2, <1>5, <2>3, NewsHand
  <2> QED
    BY <2>1, <2>2, <2>3
<1> HIDE DEF s
<1> QED
  BY <1>2, <1>3, <1>4, <1>6, StageStep

\* With nothing read, the device must have it all.
LEMMA NothingHand ==
  ASSUME TypeOK, TypeOK', IInv, NEW d \in Client, NEW n \in Nat, n <= primary.file.sv,
         Stored \subseteq known[d] \cup waived,
         hand'[d].file = Blank, hand'[d].latest = n, ~hand'[d].fresh, hand'[d].ops = {},
         ~hand'[d].force, stage'[d] = "got",
         UNCHANGED <<remote, oplog>>, stamp' = stamp, waived' = waived
  PROVE  HandOk(d)'
<1>1. /\ hand'[d].file = Blank /\ hand'[d].latest = n /\ ~hand'[d].fresh
      /\ hand'[d].ops = {} /\ ~hand'[d].force
  OBVIOUS
<1>2. primary' = primary /\ known' = known /\ pending' = pending
  BY DEF remote, oplog
<1>3. Stored' = Stored /\ Stored = primary.file.state
  BY <1>2 DEF Stored
<1>4. GoodFile(stamp, waived, Blank)
  <2>1. StampsOk /\ stamp \in [Edit -> Clock]
    BY SharedFields DEF IInv
  <2>2. \A e \in Made(stamp) : stamp[e][e[1]] \in Nat /\ stamp[e][e[1]] >= 1
    BY <2>1, EditPair DEF StampsOk, Made, Clock
  <2> QED
    BY <2>2, BlankGood
<1>5. Below(Blank.clock, primary.file.clock)
  BY BlankFile, EmptyClockFacts, SharedFields DEF Below, Clock
<1>6. ReadOk(d)'
  BY <1>1, <1>2, <1>3, <1>4, <1>5, BlankFile DEF ReadOk
<1>7. Reaches(primary.file, waived, n, known[d] \cup {})
  BY <1>3, ReachesAll
<1>8. Holds(d, known[d] \cup hand[d].ops)'
  BY <1>1, <1>2, <1>3, <1>7 DEF Holds
<1> QED
  BY <1>1, <1>6, <1>8, BlankFile DEF HandOk, At

\* The hand of a download that found nothing.
LEMMA LatestHand ==
  ASSUME NEW n \in Nat
  PROVE  LET h == [NoHand EXCEPT !.latest = n] IN
         /\ h \in Hand /\ h.file = Blank /\ h.latest = n /\ ~h.fresh /\ h.ops = {} /\ ~h.force
<1>1. NoHand \in Hand /\ NoHand.file = Blank /\ ~NoHand.fresh /\ NoHand.ops = {} /\ ~NoHand.force
  BY NothingTypes DEF NoHand
<1> QED
  BY <1>1 DEF Hand

\* So do a read that finds the revision unchanged, an empty folder, and the second read of a gap.
LEMMA FetchElseKept ==
  ASSUME TypeOK, TypeOK', IInv, NEW d \in Client,
         FetchUnchanged(d) \/ FetchNothing(d) \/ Refetch(d)
  PROVE  IInv'
<1>1. SharedType /\ FlowType /\ MemOk(d) /\ FileOk
      /\ mem[d].expected \in Nat /\ mem[d].rev \in Nat
  BY AdapterFields, TypeParts DEF IInv
<1>2. {"got", "idle"} \subseteq Stages
  BY DEF Stages
<1>3. CASE FetchUnchanged(d)
  <2> DEFINE h == [NoHand EXCEPT !.latest = mem[d].expected]
  <2>1. /\ Goto(d, "got", h) /\ UNCHANGED <<remote, oplog, adapter>>
        /\ stamp' = stamp /\ waived' = waived
        /\ mem[d].rev = primary.rev /\ mem[d].rev # 0
    BY <1>3 DEF FetchUnchanged, history
  <2>2. /\ h \in Hand /\ h.file = Blank /\ h.latest = mem[d].expected /\ ~h.fresh
        /\ h.ops = {} /\ ~h.force
    BY <1>1, LatestHand
  <2>3. Stored \subseteq known[d] \cup waived
    BY <1>1, <2>1 DEF MemOk
  <2>4. mem[d].expected <= primary.file.sv
    BY <1>1 DEF MemOk
  <2>5. stage'[d] = "got" /\ hand'[d] = h
    BY <1>1, <1>2, <2>1, <2>2, GotoType
  <2> HIDE DEF h
  <2>6. HandOk(d)'
    BY <1>1, <2>1, <2>2, <2>3, <2>4, <2>5, NothingHand
  <2> QED
    BY <1>2, <2>1, <2>2, <2>6, OnlyFlow
<1>4. CASE FetchNothing(d)
  <2>1. /\ Goto(d, "got", NoHand) /\ UNCHANGED <<remote, oplog, adapter>>
        /\ stamp' = stamp /\ waived' = waived /\ primary.kind = "none"
    BY <1>4 DEF FetchNothing, history
  <2>2. /\ NoHand \in Hand /\ NoHand.file = Blank /\ NoHand.latest = 0 /\ ~NoHand.fresh
        /\ NoHand.ops = {} /\ ~NoHand.force
    BY NothingTypes DEF NoHand
  <2>3. Stored = {} /\ 0 <= primary.file.sv /\ 0 \in Nat
    BY <1>1, <2>1, BlankFile DEF FileOk, Stored
  <2>5. stage'[d] = "got" /\ hand'[d] = NoHand
    BY <1>1, <1>2, <2>1, <2>2, GotoType
  <2>6. HandOk(d)'
    BY <2>1, <2>2, <2>3, <2>5, NothingHand
  <2> QED
    BY <1>2, <2>1, <2>2, <2>6, OnlyFlow
<1>5. CASE Refetch(d)
  <2>1. UNCHANGED <<remote, oplog>> /\ stamp' = stamp /\ waived' = waived
    BY <1>5 DEF Refetch
  <2>2. CASE Readable /\ Stage(d) /\ Goto(d, "got", Answer(d, 0))
    <3>1. Answer(d, 0) \in Hand
      BY <1>1, AnswerType
    <3>2. stage'[d] = "got" /\ hand'[d] = Answer(d, 0)
      BY <1>1, <1>2, <2>2, <3>1, GotoType
    <3>3. HandOk(d)'
      BY <2>1, <2>2, <3>2, FreshHand
    <3> QED
      BY <1>2, <2>1, <2>2, <3>1, <3>3, StageStep
  <2>3. CASE Quit(d) /\ UNCHANGED adapter
    BY <2>1, <2>3, FlowQuit
  <2> QED
    BY <1>5, <2>2, <2>3 DEF Refetch
<1> QED
  BY <1>3, <1>4, <1>5

-----------------------------------------------------------------------------
(* Applying a download *)

\* A download is applied, or skipped because the device has it all.
LEMMA AppliedHand ==
  ASSUME TypeOK, TypeOK', IInv, NEW d \in Client, ReadOk(d), NEW have, Holds(d, have),
         have \subseteq known'[d] \cup waived,
         stage'[d] = "applied", hand'[d] = hand[d], primary' = primary, waived' = waived,
         staged'[d] = staged[d], cache'[d] = cache[d]
  PROVE  HandOk(d)'
<1>1. hand[d].latest <= primary.file.sv /\ ~hand[d].force
  BY DEF ReadOk, IInv, HandOk
<1>2. Stored' = Stored
  BY DEF Stored
<1>3. Reaches(primary.file, waived, hand[d].latest, known'[d])
  <2>1. Reaches(primary.file, waived, hand[d].latest, have)
    BY DEF Holds
  <2> QED
    BY <2>1, ReachesMore
<1>4. Holds(d, known[d])'
  BY <1>2, <1>3 DEF Holds, ReadNow
<1> QED
  BY <1>1, <1>4 DEF HandOk, At

\* Going on to the commit of the baseline keeps the invariant, when the device holds what was read.
LEMMA AppliedFlow ==
  ASSUME TypeOK, TypeOK', IInv, NEW d \in Client, ReadOk(d), NEW have, Holds(d, have),
         have \subseteq known[d] \cup waived, Goto(d, "applied", hand[d]),
         UNCHANGED <<remote, oplog, adapter>>, stamp' = stamp, waived' = waived
  PROVE  IInv'
<1>1. FlowType /\ "applied" \in Stages /\ hand[d] \in Hand
  BY TypeParts, HandFields DEF Stages
<1>2. stage'[d] = "applied" /\ hand'[d] = hand[d]
  BY <1>1, GotoType
<1>3. primary' = primary /\ known' = known /\ staged' = staged /\ cache' = cache
  BY DEF remote, oplog, adapter
<1>4. HandOk(d)'
  BY <1>2, <1>3, AppliedHand
<1> QED
  BY <1>1, <1>4, OnlyFlow

\* A download with nothing to apply keeps the invariant.
LEMMA ApplyNothingKept ==
  ASSUME TypeOK, TypeOK', IInv, NEW d \in Client, ApplyNothing(d) PROVE IInv'
<1>1. /\ At(d, "got") /\ ~hand[d].fresh /\ hand[d].ops = {}
      /\ Goto(d, "applied", hand[d]) /\ UNCHANGED <<remote, oplog, adapter>>
      /\ stamp' = stamp /\ waived' = waived
  BY DEF ApplyNothing, history
<1>2. ReadOk(d) /\ Holds(d, known[d] \cup hand[d].ops)
  BY <1>1 DEF IInv, HandOk
<1>3. known[d] \cup hand[d].ops \subseteq known[d] \cup waived
  BY <1>1
<1> QED
  BY <1>1, <1>2, <1>3, AppliedFlow

\* A clock that is not behind the snapshot counts all that the snapshot has.
LEMMA HeldSnapshot ==
  ASSUME TypeOK, IInv, NEW d \in Client, ReadOk(d), HoldsSnapshot(clock[d], hand[d].file.clock)
  PROVE  hand[d].file.state \subseteq known[d] \cup waived
<1> DEFINE f == hand[d].file
<1>1. f \in File /\ f.clock \in Clock /\ f.state \in SUBSET Edit /\ clock[d] \in Clock
  BY TypeParts, HandFields, LogFields, FileFields
<1> HIDE DEF f
<1>2. Below(f.clock, clock[d])
  BY <1>1, CompareFacts DEF HoldsSnapshot, f
<1>3. Counts(stamp, waived, clock[d], known[d])
  BY DEF IInv, LogOk
<1>4. Counted(stamp, waived, f.clock, f.state)
  BY DEF ReadOk, GoodFile, f
<1> SUFFICES ASSUME NEW e \in f.state, e \notin waived PROVE e \in known[d]
  BY DEF f
<1>5. e \in Made(stamp) /\ stamp[e][e[1]] <= f.clock[e[1]]
  BY <1>4 DEF Counted
<1>6. e[1] \in Client /\ stamp[e] \in Clock
  BY <1>1, EditPair, SharedFields
<1>7. f.clock[e[1]] <= clock[d][e[1]]
  BY <1>2, <1>6 DEF Below
<1>8. stamp[e][e[1]] \in Nat /\ f.clock[e[1]] \in Nat /\ clock[d][e[1]] \in Nat
  BY <1>1, <1>6 DEF Clock
<1>9. stamp[e][e[1]] <= clock[d][e[1]]
  BY <1>5, <1>7, <1>8
<1> QED
  BY <1>3, <1>5, <1>9 DEF Counts

\* So does a snapshot that the device's clock covers.
LEMMA SkipSnapshotKept ==
  ASSUME TypeOK, TypeOK', IInv, NEW d \in Client, SkipSnapshot(d) PROVE IInv'
<1>1. /\ At(d, "got") /\ hand[d].fresh /\ HoldsSnapshot(clock[d], hand[d].file.clock)
      /\ Goto(d, "applied", hand[d]) /\ UNCHANGED <<remote, oplog, adapter>>
      /\ stamp' = stamp /\ waived' = waived
  BY DEF SkipSnapshot, history
<1>2. ReadOk(d) /\ Holds(d, hand[d].file.state)
  BY <1>1 DEF IInv, HandOk
<1>3. hand[d].file.state \subseteq known[d] \cup waived
  BY <1>1, <1>2, HeldSnapshot
<1> QED
  BY <1>1, <1>2, <1>3, AppliedFlow

\* So does asking the user.
LEMMA AskKept ==
  ASSUME TypeOK, TypeOK', IInv, NEW d \in Client, AskBeforeSnapshot(d) \/ Reconsider(d) PROVE IInv'
<1>1. /\ (At(d, "got") /\ hand[d].fresh) \/ At(d, "confirm")
      /\ UNCHANGED <<remote, oplog, adapter>> /\ stamp' = stamp /\ waived' = waived
      /\ Goto(d, "confirm", hand[d]) \/ Goto(d, "dialog", hand[d])
  BY DEF AskBeforeSnapshot, Reconsider, history
<1>2. FlowType /\ hand[d] \in Hand /\ "confirm" \in Stages /\ ~hand[d].force
  BY TypeParts, HandFields DEF Stages, IInv, HandOk
<1>3. CASE Goto(d, "dialog", hand[d])
  BY <1>1, <1>2, <1>3, FlowNone
<1>4. CASE Goto(d, "confirm", hand[d])
  <2>1. stage'[d] = "confirm" /\ hand'[d] = hand[d]
    BY <1>2, <1>4, GotoType
  <2>2. /\ ReadOk(d) /\ known[d] \subseteq pending[d] \cup hand[d].file.state \cup waived
        /\ Holds(d, hand[d].file.state)
    BY <1>1 DEF IInv, HandOk
  <2>3. /\ primary' = primary /\ known' = known /\ pending' = pending
        /\ staged' = staged /\ cache' = cache
    BY <1>1 DEF remote, oplog, adapter
  <2>4. Stored' = Stored
    BY <2>3 DEF Stored
  <2>5. ReadOk(d)' /\ Holds(d, hand[d].file.state)'
    BY <1>1, <2>1, <2>2, <2>3, <2>4 DEF ReadOk, Holds, ReadNow
  <2>6. HandOk(d)'
    BY <1>1, <1>2, <2>1, <2>2, <2>3, <2>5 DEF HandOk, At
  <2> QED
    BY <1>1, <1>2, <1>4, <2>6, OnlyFlow
<1> QED
  BY <1>1, <1>3, <1>4

\* The device's log after it took in what it read.
LEMMA TakenLog ==
  ASSUME TypeOK, TypeOK', IInv, Still, NEW d \in Client, ReadOk(d), import'[d] = import[d],
         known[d] \subseteq known'[d] \cup waived,
         known'[d] \subseteq Made(stamp) /\ known'[d] \subseteq pending'[d] \cup Stored \cup waived,
         pending'[d] \subseteq pending[d] /\ pending'[d] \subseteq known'[d],
         log'[d] \subseteq log[d] \cup hand[d].ops,
         hand[d].ops \subseteq known'[d] \cup waived, hand[d].file.state \subseteq known'[d] \cup waived,
         Below(clock[d], clock'[d]),
         \A c \in Client \ {d} : \/ clock'[d][c] <= clock[d][c]
                                 \/ clock'[d][c] <= hand[d].file.clock[c]
  PROVE  LogOk(d)'
<1> DEFINE f == hand[d].file
<1>1. /\ f \in File /\ f.clock \in Clock /\ clock[d] \in Clock /\ clock'[d] \in Clock
      /\ primary.file.clock \in Clock
  <2>1. clock'[d] \in Clock
    BY DEF TypeOK
  <2> QED
    BY <2>1, TypeParts, HandFields, LogFields, FileFields, SharedFields
<1>2. /\ LogOk(d) /\ StampsOk /\ Below(f.clock, primary.file.clock)
      /\ Counts(stamp, waived, f.clock, f.state)
  BY DEF IInv, ReadOk, GoodFile
<1> HIDE DEF f
<1>3. Counts(stamp, waived, clock'[d], known'[d])
  <2> SUFFICES ASSUME NEW e \in Made(stamp), stamp[e][e[1]] <= clock'[d][e[1]], e \notin waived
               PROVE  e \in known'[d]
    BY DEF Counts
  <2>1. e[1] \in Client /\ stamp[e] \in Clock
    BY EditPair, SharedFields DEF Made
  <2>2. CASE e[1] = d
    BY <1>2, <2>2 DEF StampsOk
  <2>3. CASE e[1] # d
    <3>1. /\ stamp[e][e[1]] \in Nat /\ clock'[d][e[1]] \in Nat
          /\ clock[d][e[1]] \in Nat /\ f.clock[e[1]] \in Nat
      BY <1>1, <2>1 DEF Clock
    <3>2. stamp[e][e[1]] <= clock[d][e[1]] \/ stamp[e][e[1]] <= f.clock[e[1]]
      BY <2>1, <2>3, <3>1 DEF f
    <3>3. e \in known[d] \cup waived \/ e \in f.state \cup waived
      BY <1>2, <3>2 DEF LogOk, Counts
    <3> QED
      BY <3>3 DEF f
  <2> QED
    BY <2>2, <2>3
<1>4. \A c \in Client \ {d} : clock'[d][c] <= primary.file.clock[c]
  <2> TAKE c \in Client \ {d}
  <2>1. clock[d][c] <= primary.file.clock[c] /\ f.clock[c] <= primary.file.clock[c]
    BY <1>2 DEF LogOk, Below
  <2>2. /\ clock'[d][c] \in Nat /\ clock[d][c] \in Nat /\ f.clock[c] \in Nat
        /\ primary.file.clock[c] \in Nat
    BY <1>1 DEF Clock
  <2> QED
    BY <2>1, <2>2 DEF f
<1>5. primary.file.clock[d] <= clock'[d][d]
  <2>1. primary.file.clock[d] <= clock[d][d] /\ clock[d][d] <= clock'[d][d]
    BY <1>2 DEF LogOk, Below
  <2>2. clock'[d][d] \in Nat /\ clock[d][d] \in Nat /\ primary.file.clock[d] \in Nat
    BY <1>1 DEF Clock
  <2> QED
    BY <2>1, <2>2
<1>6. \A e \in pending'[d] : e[1] = d /\ Below(stamp[e], clock'[d])
  <2> TAKE e \in pending'[d]
  <2>1. e \in pending[d] /\ e \in Edit
    BY LogFields, TypeParts
  <2>2. e[1] = d /\ Below(stamp[e], clock[d]) /\ stamp[e] \in Clock
    BY <1>2, <2>1, SharedFields DEF LogOk
  <2>3. \A c \in Client : /\ stamp[e][c] <= clock[d][c] /\ clock[d][c] <= clock'[d][c]
                          /\ stamp[e][c] \in Nat /\ clock[d][c] \in Nat /\ clock'[d][c] \in Nat
    BY <1>1, <2>2 DEF Below, Clock
  <2>4. Below(stamp[e], clock'[d])
    BY <2>3 DEF Below
  <2> QED
    BY <2>2, <2>4
<1>7. log'[d] \subseteq known'[d] \cup waived /\ import'[d] = NoImport
  BY <1>2 DEF LogOk
<1>8. NoImport' = NoImport /\ Stored' = Stored
  BY DEF NoImport, Still, Stored
<1> QED
  BY <1>3, <1>4, <1>5, <1>6, <1>7, <1>8 DEF LogOk, Still

\* Without an own full-state operation nothing is filtered.
LEMMA AllSurvive ==
  ASSUME IInv, NEW d \in Client
  PROVE  import[d].pending = FALSE /\ import[d].clock = EmptyClock /\ import[d].barred = FALSE
         /\ \A e : Survives(d, e)
<1>1. import[d] = NoImport
  BY DEF IInv, LogOk
<1>2. import[d].pending = FALSE /\ import[d].clock = EmptyClock /\ import[d].barred = FALSE
  BY <1>1 DEF NoImport
<1> QED
  BY <1>2 DEF Survives

\* Applying operations keeps the invariant: device and file are joined at the file's number.
LEMMA ApplyOpsKept ==
  ASSUME TypeOK, TypeOK', IInv, NEW d \in Client, ApplyOps(d) PROVE IInv'
<1> DEFINE ops == hand[d].ops
<1>1. LogType /\ FlowType /\ ops \in SUBSET Edit /\ hand[d] \in Hand /\ clock[d] \in Clock
      /\ stamp \in [Edit -> Clock]
  BY TypeParts, HandFields, LogFields, SharedFields
<1>2. {e \in hand[d].ops : Survives(d, e)} = ops
  BY AllSurvive
<1>3. /\ At(d, "got") /\ ~hand[d].fresh /\ Goto(d, "applied", hand[d])
      /\ log' = [log EXCEPT ![d] = @ \cup ops] /\ known' = [known EXCEPT ![d] = @ \cup ops]
      /\ clock' = [clock EXCEPT ![d] = MergedStamps(@, ops)]
      /\ import' = import /\ UNCHANGED <<remote, pending, rebuild, adapter, history>>
  BY <1>2, AllSurvive, OwnImport DEF ApplyOps
<1>4. /\ ReadOk(d) /\ hand[d].file.state \subseteq known[d] \cup ops \cup waived
      /\ Holds(d, known[d] \cup ops) /\ LogOk(d)
  BY <1>3 DEF IInv, HandOk
<1> HIDE DEF ops
<1>5. /\ log'[d] = log[d] \cup ops /\ known'[d] = known[d] \cup ops
      /\ clock'[d] = MergedStamps(clock[d], ops)
      /\ \A c \in Client \ {d} : log'[c] = log[c] /\ known'[c] = known[c] /\ clock'[c] = clock[c]
  BY <1>1, <1>3 DEF LogType
<1>6. /\ Still /\ pending' = pending /\ import' = import /\ mem' = mem /\ staged' = staged
      /\ cache' = cache
  BY <1>3 DEF Still, remote, adapter, history
<1>7. /\ stage'[d] = "applied" /\ hand'[d] = hand[d]
      /\ \A c \in Client \ {d} : stage'[c] = stage[c] /\ hand'[c] = hand[c]
  <2>1. "applied" \in Stages
    BY DEF Stages
  <2> QED
    BY <1>1, <1>3, <2>1, GotoType
<1>8. OnlyOf(d)
  BY <1>5, <1>6, <1>7 DEF OnlyOf
<1>9. /\ Below(clock[d], clock'[d])
      /\ \A c \in Client : \/ clock'[d][c] = clock[d][c]
                           \/ \E e \in ops : clock'[d][c] = stamp[e][c]
  BY <1>1, <1>5, MergedFacts
<1>10. \A e \in ops : e \in Made(stamp) /\ e \in hand[d].file.state \cup waived
                      /\ Below(stamp[e], hand[d].file.clock)
  BY <1>4 DEF ReadOk, ops
<1>11. ASSUME NEW c \in Client \ {d}
       PROVE  clock'[d][c] <= clock[d][c] \/ clock'[d][c] <= hand[d].file.clock[c]
  <2>1. clock[d][c] \in Nat
    BY <1>1 DEF Clock
  <2>2. CASE clock'[d][c] = clock[d][c]
    BY <2>1, <2>2
  <2>3. CASE \E e \in ops : clock'[d][c] = stamp[e][c]
    BY <1>10, <2>3 DEF Below
  <2> QED
    BY <1>9, <2>2, <2>3
<1>12. hand[d].file.state \subseteq Stored \cup waived
  BY <1>4 DEF ReadOk
<1>13. /\ known'[d] \subseteq Made(stamp) /\ known'[d] \subseteq pending'[d] \cup Stored \cup waived
       /\ pending'[d] \subseteq pending[d] /\ pending'[d] \subseteq known'[d]
       /\ log'[d] \subseteq log[d] \cup hand[d].ops
       /\ hand[d].ops \subseteq known'[d] \cup waived
       /\ hand[d].file.state \subseteq known'[d] \cup waived
       /\ known[d] \subseteq known'[d] \cup waived
  BY <1>4, <1>5, <1>6, <1>10, <1>12 DEF LogOk, ops
<1>14. LogOk(d)'
  BY <1>4, <1>6, <1>9, <1>11, <1>13, TakenLog
<1>15. MemOk(d)' /\ CacheOk(d)'
  BY <1>6, <1>13, MemStill, CacheStill
<1>16. HandOk(d)'
  <2>1. known[d] \cup ops \subseteq known'[d] \cup waived
    BY <1>5
  <2> QED
    BY <1>4, <1>6, <1>7, <2>1, AppliedHand DEF Still
<1> QED
  BY <1>6, <1>8, <1>13, <1>14, <1>15, <1>16, StillKept

\* What a snapshot drops of the pending edits, it has.
LEMMA KeptPending ==
  ASSUME TypeOK, IInv, NEW d \in Client, ReadOk(d), NEW e \in pending[d],
         \/ SnapshotAhead(clock[d], hand[d].file.clock)
         \/ Compare(stamp[e], hand[d].file.clock) \notin {"GREATER_THAN", "CONCURRENT"}
  PROVE  e \in hand[d].file.state \cup waived
<1> DEFINE f == hand[d].file
<1>1. /\ f \in File /\ f.clock \in Clock /\ clock[d] \in Clock
      /\ e \in Edit /\ stamp[e] \in Clock /\ e[1] \in Client
  <2>1. e \in Edit
    BY TypeParts, LogFields
  <2> QED
    BY <2>1, TypeParts, HandFields, LogFields, FileFields, SharedFields, EditPair
<1>2. /\ e \in Made(stamp) /\ Below(stamp[e], clock[d])
      /\ Counts(stamp, waived, f.clock, f.state)
  BY DEF IInv, LogOk, ReadOk, GoodFile
<1> HIDE DEF f
<1>3. Below(stamp[e], f.clock)
  <2>1. CASE SnapshotAhead(clock[d], f.clock)
    <3>1. Below(clock[d], f.clock)
      BY <1>1, <2>1, CompareFacts DEF SnapshotAhead
    <3>2. \A c \in Client : /\ stamp[e][c] <= clock[d][c] /\ clock[d][c] <= f.clock[c]
                            /\ stamp[e][c] \in Nat /\ clock[d][c] \in Nat /\ f.clock[c] \in Nat
      BY <1>1, <1>2, <3>1 DEF Below, Clock
    <3> QED
      BY <3>2 DEF Below
  <2>2. CASE Compare(stamp[e], f.clock) \notin {"GREATER_THAN", "CONCURRENT"}
    BY <1>1, <2>2, CompareFacts
  <2> QED
    BY <2>1, <2>2 DEF f
<1>4. stamp[e][e[1]] <= f.clock[e[1]]
  BY <1>1, <1>3 DEF Below
<1> QED
  BY <1>2, <1>4 DEF Counts, f

\* Applying a snapshot keeps the invariant: of its own edits the device drops none but waived ones.
LEMMA ApplySnapshotKept ==
  ASSUME TypeOK, TypeOK', IInv, NEW d \in Client, ApplySnapshot(d) PROVE IInv'
<1> DEFINE f == hand[d].file
           kept == IF Unsynced(d) /\ ~SnapshotAhead(clock[d], f.clock)
                   THEN {e \in pending[d] : Compare(stamp[e], f.clock) \in {"GREATER_THAN", "CONCURRENT"}}
                   ELSE {}
           v == Increment(Merge(clock[d], f.clock), d)
<1>1. /\ LogType /\ FlowType /\ hand[d] \in Hand /\ f \in File /\ f.clock \in Clock
      /\ clock[d] \in Clock
  BY TypeParts, HandFields, LogFields, FileFields
<1>2. /\ (At(d, "got") /\ hand[d].fresh) \/ At(d, "confirm")
      /\ known' = [known EXCEPT ![d] = f.state \cup kept]
      /\ pending' = [pending EXCEPT ![d] = kept]
      /\ log' = [log EXCEPT ![d] = @ \cup hand[d].ops]
      /\ clock' = [clock EXCEPT ![d] = v]
      /\ Goto(d, "applied", hand[d])
      /\ UNCHANGED <<remote, rebuild, adapter, history>>
  BY DEF ApplySnapshot, Hydrate
<1>3. import' = import
  BY OwnImport DEF ApplySnapshot, Hydrate
<1>4. /\ ReadOk(d) /\ known[d] \subseteq pending[d] \cup f.state \cup waived
      /\ Holds(d, f.state) /\ LogOk(d)
  BY <1>2 DEF IInv, HandOk
<1>5. pending[d] \ kept \subseteq f.state \cup waived /\ kept \subseteq pending[d]
  <2>1. ASSUME NEW e \in pending[d], e \notin kept PROVE e \in f.state \cup waived
    <3>1. Unsynced(d)
      BY <2>1 DEF Unsynced
    <3>2. SnapshotAhead(clock[d], f.clock) \/ Compare(stamp[e], f.clock) \notin {"GREATER_THAN", "CONCURRENT"}
      BY <2>1, <3>1
    <3> QED
      BY <1>4, <3>2, KeptPending
  <2> QED
    BY <2>1
<1>v. v = Increment(Merge(clock[d], f.clock), d)
  OBVIOUS
<1> HIDE DEF kept, v
<1>6. /\ log'[d] = log[d] \cup hand[d].ops /\ known'[d] = f.state \cup kept
      /\ pending'[d] = kept /\ clock'[d] = v
      /\ \A c \in Client \ {d} : /\ log'[c] = log[c] /\ known'[c] = known[c]
                                 /\ pending'[c] = pending[c] /\ clock'[c] = clock[c]
  BY <1>1, <1>2 DEF LogType
<1>7. import'[d] = import[d] /\ \A c \in Client \ {d} : import'[c] = import[c]
  BY <1>3
<1>8. Still /\ mem' = mem /\ staged' = staged /\ cache' = cache
  BY <1>2 DEF Still, remote, adapter, history
<1>9. /\ stage'[d] = "applied" /\ hand'[d] = hand[d]
      /\ \A c \in Client \ {d} : stage'[c] = stage[c] /\ hand'[c] = hand[c]
  <2>1. "applied" \in Stages
    BY DEF Stages
  <2> QED
    BY <1>1, <1>2, <2>1, GotoType
<1>10. OnlyOf(d)
  BY <1>6, <1>7, <1>8, <1>9 DEF OnlyOf
<1>11. /\ Below(clock[d], v)
       /\ \A c \in Client \ {d} : v[c] <= clock[d][c] \/ v[c] <= f.clock[c]
  <2> DEFINE w == Merge(clock[d], f.clock)
  <2>1. w \in Clock /\ Below(clock[d], w) /\ \A c \in Client : w[c] \in {clock[d][c], f.clock[c]}
    BY <1>1, MergeFacts
  <2>2. v = Increment(w, d)
    BY <1>v
  <2> HIDE DEF w, f
  <2>3. v \in Clock /\ Below(w, v) /\ \A c \in Client \ {d} : v[c] = w[c]
    BY <2>1, <2>2, IncrementFacts
  <2>4. \A c \in Client : /\ clock[d][c] <= w[c] /\ w[c] <= v[c]
                          /\ clock[d][c] \in Nat /\ w[c] \in Nat /\ v[c] \in Nat /\ f.clock[c] \in Nat
    BY <1>1, <2>1, <2>3 DEF Below, Clock
  <2>5. Below(clock[d], v)
    BY <2>4 DEF Below
  <2> QED
    BY <2>1, <2>3, <2>4, <2>5
<1>12. \A e \in hand[d].ops : e \in Made(stamp) /\ e \in f.state \cup waived
  BY <1>4 DEF ReadOk
<1>13. f.state \subseteq Stored \cup waived /\ f.state \subseteq Made(stamp)
  BY <1>4 DEF ReadOk, GoodFile, Counted
<1>14. /\ known[d] \subseteq known'[d] \cup waived
       /\ known'[d] \subseteq Made(stamp) /\ known'[d] \subseteq pending'[d] \cup Stored \cup waived
       /\ pending'[d] \subseteq pending[d] /\ pending'[d] \subseteq known'[d]
       /\ log'[d] \subseteq log[d] \cup hand[d].ops
       /\ hand[d].ops \subseteq known'[d] \cup waived /\ f.state \subseteq known'[d] \cup waived
  BY <1>4, <1>5, <1>6, <1>12, <1>13 DEF LogOk
<1>15. LogOk(d)'
  BY <1>4, <1>6, <1>7, <1>8, <1>11, <1>14, TakenLog
<1>16. MemOk(d)' /\ CacheOk(d)'
  BY <1>8, <1>14, MemStill, CacheStill
<1>17. HandOk(d)'
  BY <1>4, <1>8, <1>9, <1>14, AppliedHand DEF Still
<1> QED
  BY <1>8, <1>10, <1>14, <1>15, <1>16, <1>17, StillKept

\* What was applied is remembered.
LEMMA PromotedKept ==
  ASSUME TypeOK, TypeOK', IInv, Still, NEW d \in Client,
         hand[d].latest <= primary.file.sv, Holds(d, known[d]),
         mem'[d] = Promoted(d, hand[d].latest), staged'[d] = NoStage, cache'[d] = cache[d],
         known'[d] = known[d]
  PROVE  MemOk(d)' /\ CacheOk(d)'
<1>1. AdapterType /\ MemOk(d) /\ CacheOk(d) /\ hand[d].latest \in Nat
      /\ primary.rev \in Nat /\ primary.file.sv \in Nat
  BY TypeParts, HandFields, SharedFields DEF IInv
<1>2. /\ mem'[d].cursor = hand[d].latest
      /\ mem'[d].expected \in {staged[d].expected, mem[d].expected}
      /\ mem'[d].rev = (IF staged[d].rev # 0 THEN staged[d].rev ELSE mem[d].rev)
  BY <1>1, PromotedType
<1>3. Stored' = Stored
  BY DEF Still, Stored
<1>4. MemOk(d)'
  <2>1. mem'[d].expected <= primary.file.sv /\ mem'[d].rev <= primary.rev
    BY <1>1, <1>2 DEF MemOk, CacheOk
  <2>2. Reaches(primary.file, waived, mem'[d].cursor, known[d])
    BY <1>2 DEF Holds
  <2>3. ASSUME mem'[d].rev = primary.rev, primary.rev > 0 PROVE Stored \subseteq known[d] \cup waived
    <3>1. staged[d].rev = primary.rev \/ mem[d].rev = primary.rev
      BY <1>2, <2>3
    <3> QED
      BY <1>1, <2>3, <3>1 DEF Holds, ReadNow, MemOk
  <2> QED
    BY <1>2, <1>3, <2>1, <2>2, <2>3 DEF MemOk, Still
<1>5. CacheOk(d)'
  <2>1. NoStage.rev = 0 /\ NoStage.expected = 0 /\ NoCache' = NoCache
    BY DEF NoStage, NoCache
  <2>2. cache[d].rev = primary.rev /\ primary.rev > 0 => Stored \subseteq known[d] \cup waived
    BY DEF Holds, ReadNow
  <2> QED
    BY <1>1, <1>3, <2>1, <2>2 DEF CacheOk, Still
<1> QED
  BY <1>4, <1>5

\* Committing the staged baseline keeps the invariant: the device holds what the baseline stands for.
LEMMA CommitKept ==
  ASSUME TypeOK, TypeOK', IInv, NEW d \in Client, Commit(d) \/ FinishRebuild(d) PROVE IInv'
<1>1. AdapterType /\ FlowType /\ "synced" \in Stages /\ "idle" \in Stages
      /\ NoHand \in Hand /\ NoHand.force = FALSE
  BY TypeParts, NothingTypes DEF Stages, NoHand
<1>2. /\ At(d, "applied") \/ At(d, "rebuilt")
      /\ Goto(d, "synced", NoHand) \/ Goto(d, "idle", NoHand)
      /\ mem' = [mem EXCEPT ![d] = Promoted(d, hand[d].latest)]
      /\ staged' = [staged EXCEPT ![d] = NoStage] /\ cache' = cache
      /\ log' = log /\ pending' = pending /\ known' = known /\ clock' = clock /\ import' = import
      /\ Still
  BY DEF Commit, FinishRebuild, Quit, Still, remote, oplog, history
<1>3. hand[d].latest <= primary.file.sv /\ Holds(d, known[d])
  BY <1>2 DEF IInv, HandOk
<1>4. /\ stage'[d] \in {"synced", "idle"} /\ hand'[d] = NoHand
      /\ \A c \in Client \ {d} : stage'[c] = stage[c] /\ hand'[c] = hand[c]
  BY <1>1, <1>2, GotoType
<1>5. /\ mem'[d] = Promoted(d, hand[d].latest) /\ staged'[d] = NoStage
      /\ \A c \in Client \ {d} : mem'[c] = mem[c] /\ staged'[c] = staged[c]
  BY <1>1, <1>2 DEF AdapterType
<1>6. OnlyOf(d)
  BY <1>2, <1>4, <1>5 DEF OnlyOf
<1>7. LogOk(d)'
  BY <1>2, LogStill DEF SameLog
<1>8. MemOk(d)' /\ CacheOk(d)'
  BY <1>2, <1>3, <1>5, PromotedKept
<1>9. HandOk(d)'
  BY <1>1, <1>4, HandNone
<1> QED
  BY <1>2, <1>6, <1>7, <1>8, <1>9, StillKept

\* Steps that end a cycle, and those that no folder without replacements sees.
LEMMA QuitKept ==
  ASSUME TypeOK, TypeOK', IInv, NEW d \in Client, Finish(d) \/ PutMismatch(d) \/ Cancel(d) PROVE IInv'
<1>1. Quit(d) /\ UNCHANGED <<remote, oplog, adapter>> /\ stamp' = stamp /\ waived' = waived
  BY DEF Finish, PutMismatch, Cancel, history
<1> QED
  BY <1>1, FlowQuit

\* In a folder without replacement nobody overwrites, and a put needs the revision it read.
LEMMA NoOverwriting ==
  ASSUME TypeOK, IInv, NoReplacement, NEW d \in Client
  PROVE  ~UseLocal(d) /\ ~StartReplacement(d) /\ ~Unmoved(d) = (primary.rev # hand[d].rev)
         /\ Overwritten(d) = {}
<1>1. ~UseLocal(d)
  BY DEF NoReplacement, UseLocal
<1>2. ~StartReplacement(d)
  BY AllSurvive DEF StartReplacement
<1>3. hand[d].force = FALSE
  BY HandFields, TypeParts DEF IInv, HandOk
<1> QED
  BY <1>1, <1>2, <1>3 DEF Unmoved, Overwritten

\* Giving up an upload before its put keeps the invariant.
LEMMA AbortKept ==
  ASSUME TypeOK, TypeOK', IInv, NEW d \in Client, AbortUpload(d) PROVE IInv'
<1>1. Quit(d) /\ UNCHANGED <<remote, oplog>> /\ stamp' = stamp /\ waived' = waived
  BY DEF AbortUpload, history
<1>2. (Readable /\ Stage(d)) \/ UNCHANGED adapter
  BY DEF AbortUpload
<1>3. CASE UNCHANGED adapter
  BY <1>1, <1>3, FlowQuit
<1>4. CASE Readable /\ Stage(d)
  <2>1. "idle" \in Stages /\ NoHand \in Hand /\ NoHand.force = FALSE
    BY NothingTypes DEF Stages, NoHand
  <2>2. stage'[d] = "idle" /\ hand'[d] = NoHand
    BY <1>1, TypeParts, QuitType
  <2>3. HandOk(d)'
    BY <2>1, <2>2, HandNone
  <2> QED
    BY <1>1, <1>4, <2>1, <2>3, StageStep DEF Quit
<1> QED
  BY <1>2, <1>3, <1>4

\* Reading the file to take it whole keeps the invariant.
LEMMA FetchRemoteKept ==
  ASSUME TypeOK, TypeOK', IInv, NEW d \in Client, FetchRemote(d) PROVE IInv'
<1>1. UNCHANGED <<remote, oplog>> /\ stamp' = stamp /\ waived' = waived
  BY DEF FetchRemote
<1>2. CASE Readable /\ Stage(d) /\ Goto(d, "remote", Answer(d, 0))
  <2>1. Answer(d, 0) \in Hand /\ "remote" \in Stages
    BY TypeParts, AnswerType DEF Stages
  <2>2. stage'[d] = "remote" /\ hand'[d] = Answer(d, 0)
    BY <1>2, <2>1, TypeParts, GotoType
  <2>3. HandOk(d)'
    BY <1>1, <1>2, <2>2, FreshHand
  <2> QED
    BY <1>1, <1>2, <2>1, <2>3, StageStep
<1>3. CASE Quit(d) /\ UNCHANGED adapter
  BY <1>1, <1>3, FlowQuit
<1> QED
  BY <1>2, <1>3 DEF FetchRemote

-----------------------------------------------------------------------------
(* Uploads *)

\* A file extended by what is pending, by a device that has all that it holds,
\* is what Extends says.
LEMMA AppendixGood ==
  ASSUME TypeOK, IInv, NEW d \in Client, Stored \subseteq known[d] \cup waived,
         NEW f, f = Appendix(d, primary.file)
  PROVE  /\ f \in File /\ f.sv = primary.file.sv + 1
         /\ f.recent = Trim(Append(primary.file.recent,
                                   [sv |-> primary.file.sv + 1, ops |-> pending[d]]))
         /\ f.state = known[d] /\ known[d] \subseteq Stored \cup pending[d] \cup waived
         /\ Below(primary.file.clock, f.clock)
         /\ \A c \in Client \ {d} : f.clock[c] <= primary.file.clock[c]
         /\ f.clock[d] <= clock[d][d]
         /\ GoodFile(stamp, waived, f)
<1> DEFINE p == primary.file
<1>1. /\ p \in File /\ p.clock \in Clock /\ p.sv \in Nat /\ stamp \in [Edit -> Clock]
      /\ pending[d] \in SUBSET Edit /\ known[d] \in SUBSET Edit /\ clock[d] \in Clock
  BY TypeParts, SharedFields, LogFields
<1>2. /\ LogOk(d) /\ StampsOk /\ GoodFile(stamp, waived, p)
  BY DEF IInv, FileOk
<1>s. Stored = p.state
  BY DEF Stored
<1>p. p = primary.file
  OBVIOUS
<1> HIDE DEF p
<1>3. /\ f \in File /\ f.sv = p.sv + 1 /\ f.clock = MergedStamps(p.clock, pending[d])
      /\ f.state = known[d]
      /\ f.recent = Trim(Append(p.recent, [sv |-> p.sv + 1, ops |-> pending[d]]))
  BY <1>1, <1>p, TypeParts, AppendixFacts
<1>4. f.clock \in Clock
  BY <1>3, FileFields
<1>5. /\ Below(p.clock, f.clock) /\ \A e \in pending[d] : Below(stamp[e], f.clock)
      /\ \A c \in Client : \/ f.clock[c] = p.clock[c]
                           \/ \E e \in pending[d] : f.clock[c] = stamp[e][c]
  BY <1>1, <1>3, MergedFacts
<1>6. \A e \in pending[d] : e \in Made(stamp) /\ e[1] = d /\ Below(stamp[e], clock[d])
  BY <1>2 DEF LogOk
<1>7. \A c \in Client : /\ p.clock[c] \in Nat /\ f.clock[c] \in Nat /\ clock[d][c] \in Nat
  BY <1>1, <1>4 DEF Clock
<1>8. \A c \in Client \ {d} : f.clock[c] <= p.clock[c]
  <2> TAKE c \in Client \ {d}
  <2>1. clock[d][c] <= p.clock[c]
    BY <1>2, <1>p DEF LogOk
  <2>2. CASE f.clock[c] = p.clock[c]
    BY <1>7, <2>2
  <2>3. CASE \E e \in pending[d] : f.clock[c] = stamp[e][c]
    <3>1. f.clock[c] <= clock[d][c]
      BY <1>6, <2>3 DEF Below
    <3> QED
      BY <1>7, <2>1, <3>1
  <2> QED
    BY <1>5, <2>2, <2>3
<1>9. f.clock[d] <= clock[d][d]
  <2>1. p.clock[d] <= clock[d][d]
    BY <1>2, <1>p DEF LogOk
  <2> QED
    BY <1>5, <1>6, <2>1 DEF Below
<1>10. known[d] \subseteq Stored \cup pending[d] \cup waived
  BY <1>2 DEF LogOk
<1>11. Counts(stamp, waived, f.clock, f.state)
  <2> SUFFICES ASSUME NEW e \in Made(stamp), stamp[e][e[1]] <= f.clock[e[1]], e \notin waived
               PROVE  e \in known[d]
    BY <1>3 DEF Counts
  <2>1. e[1] \in Client /\ stamp[e] \in Clock
    BY <1>1, EditPair DEF Made
  <2>2. CASE e[1] = d
    BY <1>2, <2>2 DEF StampsOk
  <2>3. CASE e[1] # d
    <3>1. stamp[e][e[1]] \in Nat
      BY <2>1 DEF Clock
    <3>2. stamp[e][e[1]] <= p.clock[e[1]]
      BY <1>7, <1>8, <2>1, <2>3, <3>1
    <3>3. e \in Stored
      BY <1>2, <1>s, <3>2 DEF GoodFile, Counts
    <3> QED
      BY <3>3
  <2> QED
    BY <2>2, <2>3
<1>12. \A e \in Made(stamp) : Below(stamp[e], p.clock) => Below(stamp[e], f.clock)
  <2> TAKE e \in Made(stamp)
  <2>1. stamp[e] \in Clock
    BY <1>1 DEF Made
  <2>2. \A c \in Client : stamp[e][c] \in Nat /\ p.clock[c] <= f.clock[c]
    BY <1>5, <2>1 DEF Clock, Below
  <2> QED
    BY <1>7, <2>2 DEF Below
<1>13. Counted(stamp, waived, f.clock, f.state)
  <2> SUFFICES ASSUME NEW e \in known[d]
               PROVE  e \in Made(stamp) /\ (stamp[e][e[1]] <= f.clock[e[1]] \/ e \in waived)
    BY <1>3 DEF Counted
  <2>1. e \in Made(stamp)
    BY <1>2 DEF LogOk
  <2>2. e[1] \in Client /\ stamp[e] \in Clock
    BY <1>1, <2>1, EditPair DEF Made
  <2>3. CASE e \in pending[d]
    BY <1>5, <2>1, <2>2, <2>3 DEF Below
  <2>4. CASE e \in Stored
    <3>1. stamp[e][e[1]] <= p.clock[e[1]] \/ e \in waived
      BY <1>2, <1>s, <2>4 DEF GoodFile, Counted
    <3>2. p.clock[e[1]] <= f.clock[e[1]] /\ stamp[e][e[1]] \in Nat
      BY <1>5, <2>2 DEF Below, Clock
    <3> QED
      BY <1>7, <2>1, <2>2, <3>1, <3>2
  <2> QED
    BY <1>10, <2>1, <2>3, <2>4
<1>14. /\ Numbered(f) /\ Reaches(f, waived, 0, {})
       /\ \A i \in DOMAIN f.recent : \/ f.recent[i].ops = pending[d]
                                     \/ \E j \in DOMAIN p.recent : f.recent[i] = p.recent[j]
  <2>1. Numbered(p) /\ Reaches(p, waived, 0, {})
    BY <1>2 DEF GoodFile
  <2>2. f.state \subseteq p.state \cup pending[d] \cup waived
    BY <1>3, <1>10, <1>s
  <2>3. /\ Numbered(f)
        /\ \A i \in DOMAIN f.recent : \/ f.recent[i].ops = pending[d]
                                      \/ \E j \in DOMAIN p.recent : f.recent[i] = p.recent[j]
        /\ \A k \in Nat : \A have : k <= p.sv /\ Reaches(p, waived, k, have) => Reaches(f, waived, k, have)
    <3>1. /\ p \in File /\ f \in File /\ pending[d] \in SUBSET Edit /\ f.sv = p.sv + 1
          /\ f.recent = Trim(Append(p.recent, [sv |-> p.sv + 1, ops |-> pending[d]]))
      BY <1>1, <1>3
    <3>2. waived \subseteq waived
      OBVIOUS
    <3> QED
      BY <2>1, <2>2, <3>1, <3>2, ExtendedFile, SMTT(30)
  <2>4. 0 \in Nat /\ 0 <= p.sv
    BY <1>1
  <2> QED
    BY <2>1, <2>3, <2>4
<1>15. Batches(stamp, waived, f)
  <2> SUFFICES ASSUME NEW i \in DOMAIN f.recent, NEW e \in f.recent[i].ops
               PROVE  e \in Made(stamp) /\ e \in known[d] \cup waived /\ Below(stamp[e], f.clock)
    BY <1>3 DEF Batches
  <2>1. CASE f.recent[i].ops = pending[d]
    BY <1>2, <1>5, <1>6, <2>1 DEF LogOk
  <2>2. CASE \E j \in DOMAIN p.recent : f.recent[i] = p.recent[j]
    <3>1. e \in Made(stamp) /\ e \in p.state \cup waived /\ Below(stamp[e], p.clock)
      BY <1>2, <2>2 DEF GoodFile, Batches
    <3> QED
      BY <1>12, <1>s, <3>1
  <2> QED
    BY <1>14, <2>1, <2>2
<1>16. GoodFile(stamp, waived, f)
  BY <1>11, <1>13, <1>14, <1>15 DEF GoodFile
<1> QED
  BY <1>3, <1>5, <1>8, <1>9, <1>10, <1>16, <1>p

\* An upload in hand.
LEMMA UploadStart ==
  ASSUME TypeOK, TypeOK', IInv, NEW d \in Client, NEW h \in Hand, NEW s \in {"back", "put"},
         NEW f \in File, h.file = Appendix(d, f), h.ops = pending[d], ~h.force,
         h.rev <= primary.rev,
         h.rev = primary.rev => f = primary.file /\ Stored \subseteq known[d] \cup waived,
         s = "back" => h.rev > 0 /\ h.back = f,
         s = "put" => primary.kind = "none",
         Goto(d, s, h), UNCHANGED <<remote, oplog, adapter>>, stamp' = stamp, waived' = waived
  PROVE  IInv'
<1>1. s \in Stages /\ FlowType /\ SharedType /\ LogType
  BY TypeParts DEF Stages
<1>2. stage'[d] = s /\ hand'[d] = h
  BY <1>1, GotoType
<1>3. /\ primary' = primary /\ known' = known /\ pending' = pending /\ clock' = clock
  BY DEF remote, oplog
<1>4. Stored' = Stored
  BY <1>3 DEF Stored
<1>5. pending[d] \subseteq known[d]
  BY DEF IInv, LogOk
<1>6. h.file.state = known[d]
  BY <1>1, AppendixFacts
<1>7. ASSUME h.rev = primary.rev PROVE Extends(d)'
  <2> DEFINE g == h.file
  <2>1. g = Appendix(d, primary.file)
    BY <1>7
  <2> HIDE DEF g
  <2>2. /\ g \in File /\ g.sv = primary.file.sv + 1
        /\ g.recent = Trim(Append(primary.file.recent,
                                  [sv |-> primary.file.sv + 1, ops |-> pending[d]]))
        /\ g.state = known[d] /\ known[d] \subseteq Stored \cup pending[d] \cup waived
        /\ Below(primary.file.clock, g.clock)
        /\ \A c \in Client \ {d} : g.clock[c] <= primary.file.clock[c]
        /\ g.clock[d] <= clock[d][d]
        /\ GoodFile(stamp, waived, g)
    BY <1>7, <2>1, AppendixGood
  <2>3. hand'[d].file = g /\ hand'[d].ops = pending[d]
    BY <1>2 DEF g
  <2> QED
    BY <1>3, <1>4, <1>7, <2>2, <2>3 DEF Extends
<1>8. UploadOk(d)'
  BY <1>2, <1>3, <1>5, <1>6, <1>7 DEF UploadOk
<1>9. HandOk(d)'
  BY <1>2, <1>3, <1>8 DEF HandOk, At
<1> QED
  BY <1>1, <1>9, OnlyFlow

\* Preparing an upload keeps the invariant: what will be put extends what was read.
LEMMA StartUploadKept ==
  ASSUME TypeOK, TypeOK', IInv, NEW d \in Client, StartUpload(d) \/ StartFirstUpload(d) PROVE IInv'
<1>1. /\ SharedType /\ AdapterType /\ LogType /\ pending[d] \in SUBSET Edit
      /\ CacheOk(d) /\ MemOk(d) /\ FileOk
      /\ primary.rev \in Nat /\ primary.file \in File
  BY TypeParts, LogFields, SharedFields DEF IInv
<1>2. CASE StartUpload(d)
  <2> DEFINE r == Current(d).rev
             f == Current(d).file
             a == Appendix(d, f)
             h == [NoHand EXCEPT !.rev = r, !.ops = pending[d], !.file = a, !.back = f]
  <2>1. /\ MayExtend(d) /\ Goto(d, "back", h) /\ UNCHANGED <<remote, oplog, adapter>>
        /\ stamp' = stamp /\ waived' = waived
    BY <1>2 DEF StartUpload, history
  <2>2. r \in Nat /\ f \in File
    BY <1>1, CurrentType
  <2>3. r > 0 /\ r <= primary.rev /\ (r = primary.rev => f = primary.file /\ Stored \subseteq known[d] \cup waived)
    <3>1. CASE cache[d] # NoCache
      <4>1. r = cache[d].rev /\ f = cache[d].file /\ ~staged[d].held
        BY <2>1, <3>1 DEF Current, MayExtend
      <4> QED
        BY <1>1, <3>1, <4>1 DEF CacheOk
    <3>2. CASE cache[d] = NoCache
      <4>1. r = primary.rev /\ f = primary.file /\ primary.kind = "good" /\ mem[d].rev = primary.rev
        BY <2>1, <3>2 DEF Current, MayExtend
      <4> QED
        BY <1>1, <4>1 DEF FileOk, MemOk
    <3> QED
      BY <3>1, <3>2
  <2> HIDE DEF r, f
  <2>4. a \in File
    BY <1>1, <2>2, AppendixFacts
  <2>a. a = Appendix(d, f)
    OBVIOUS
  <2> HIDE DEF a
  <2>5. h \in Hand /\ h.rev = r /\ h.ops = pending[d] /\ h.file = a /\ h.back = f /\ ~h.force
    BY <1>1, <2>2, <2>4, UploadHand
  <2> HIDE DEF h
  <2> QED
    BY <2>1, <2>2, <2>3, <2>5, <2>a, UploadStart
<1>3. CASE StartFirstUpload(d)
  <2> DEFINE a == Appendix(d, Blank)
             h == [NoHand EXCEPT !.ops = pending[d], !.file = a]
  <2>1. /\ primary.kind = "none" /\ Goto(d, "put", h) /\ UNCHANGED <<remote, oplog, adapter>>
        /\ stamp' = stamp /\ waived' = waived
    BY <1>3 DEF StartFirstUpload, history
  <2>2. Blank \in File /\ Blank.state = {}
    BY BlankFile
  <2>3. primary.rev = 0 /\ primary.file = Blank
    BY <1>1, <2>1 DEF FileOk
  <2>4. a \in File
    BY <1>1, <2>2, AppendixFacts
  <2>a. a = Appendix(d, Blank)
    OBVIOUS
  <2> HIDE DEF a
  <2>5. h \in Hand /\ h.rev = 0 /\ h.ops = pending[d] /\ h.file = a /\ ~h.force
    BY <1>1, <2>4, FirstUploadHand
  <2>6. Stored = {}
    BY <2>2, <2>3 DEF Stored
  <2> HIDE DEF h
  <2> QED
    BY <2>1, <2>2, <2>3, <2>5, <2>6, <2>a, UploadStart
<1> QED
  BY <1>2, <1>3

\* Committing the baseline after the put keeps the invariant.
LEMMA CommitUploadKept ==
  ASSUME TypeOK, TypeOK', IInv, NEW d \in Client, CommitUpload(d) PROVE IInv'
<1>1. AdapterType /\ FlowType /\ hand[d] \in Hand /\ "counted" \in Stages
      /\ mem \in [Client -> Memory] /\ MemOk(d)
  BY TypeParts, HandFields DEF Stages, AdapterType, IInv
<1>2. /\ At(d, "stored") /\ mem' = [mem EXCEPT ![d].cursor = hand[d].file.sv]
      /\ Goto(d, "counted", hand[d])
      /\ log' = log /\ pending' = pending /\ known' = known /\ clock' = clock
      /\ import' = import /\ staged' = staged /\ cache' = cache /\ Still
  BY DEF CommitUpload, Still, remote, oplog, history
<1>3. /\ hand[d].file.sv <= primary.file.sv
      /\ Reaches(primary.file, waived, hand[d].file.sv, known[d])
      /\ hand[d].ops \subseteq known[d] /\ hand[d].ops \subseteq Stored \cup waived /\ ~hand[d].force
  BY <1>2 DEF IInv, HandOk
<1>4. /\ stage'[d] = "counted" /\ hand'[d] = hand[d]
      /\ \A c \in Client \ {d} : stage'[c] = stage[c] /\ hand'[c] = hand[c]
  BY <1>1, <1>2, GotoType
<1>5. /\ mem'[d].cursor = hand[d].file.sv /\ mem'[d].expected = mem[d].expected
      /\ mem'[d].rev = mem[d].rev /\ \A c \in Client \ {d} : mem'[c] = mem[c]
  BY <1>1, <1>2 DEF Memory
<1>6. OnlyOf(d)
  BY <1>2, <1>4, <1>5 DEF OnlyOf
<1>7. LogOk(d)'
  BY <1>2, LogStill DEF SameLog
<1>8. CacheOk(d)'
  BY <1>2, CacheStill
<1>9. Stored' = Stored
  BY <1>2 DEF Still, Stored
<1>10. MemOk(d)'
  BY <1>1, <1>2, <1>3, <1>5, <1>9 DEF MemOk, Still
<1>11. HandOk(d)'
  BY <1>2, <1>3, <1>4, <1>9 DEF HandOk, At, Still
<1> QED
  BY <1>2, <1>6, <1>7, <1>8, <1>10, <1>11, StillKept

\* Marking the edits synced keeps the invariant: by now the file has them, or they are waived.
LEMMA AcknowledgeKept ==
  ASSUME TypeOK, TypeOK', IInv, NEW d \in Client, Acknowledge(d) PROVE IInv'
<1>1. LogType /\ FlowType /\ NoHand \in Hand /\ NoHand.force = FALSE /\ "idle" \in Stages
      /\ LogOk(d)
  BY TypeParts, NothingTypes DEF Stages, IInv, NoHand
<1>2. /\ At(d, "counted") /\ ~hand[d].force
      /\ hand[d].ops \subseteq known[d] /\ hand[d].ops \subseteq Stored \cup waived
  BY DEF Acknowledge, IInv, HandOk
<1>3. /\ pending' = [pending EXCEPT ![d] = @ \ hand[d].ops]
      /\ log' = [log EXCEPT ![d] = @ \cup hand[d].ops]
      /\ import' = import /\ Goto(d, "idle", NoHand)
      /\ known' = known /\ clock' = clock /\ mem' = mem /\ staged' = staged /\ cache' = cache
      /\ Still
  BY <1>2 DEF Acknowledge, Still, remote, adapter, history
<1>4. /\ pending'[d] = pending[d] \ hand[d].ops /\ log'[d] = log[d] \cup hand[d].ops
      /\ \A c \in Client \ {d} : pending'[c] = pending[c] /\ log'[c] = log[c]
  BY <1>1, <1>3 DEF LogType
<1>5. /\ stage'[d] = "idle" /\ hand'[d] = NoHand
      /\ \A c \in Client \ {d} : stage'[c] = stage[c] /\ hand'[c] = hand[c]
  BY <1>1, <1>3, GotoType
<1>6. OnlyOf(d)
  BY <1>3, <1>4, <1>5 DEF OnlyOf
<1>7. Stored' = Stored /\ NoImport' = NoImport
  BY <1>3 DEF Still, Stored, NoImport
<1>8. LogOk(d)'
  <2>1. /\ import'[d] = NoImport /\ known'[d] \subseteq Made(stamp')
        /\ log'[d] \subseteq known'[d] \cup waived' /\ pending'[d] \subseteq known'[d]
        /\ known'[d] \subseteq pending'[d] \cup Stored' \cup waived'
    BY <1>1, <1>2, <1>3, <1>4, <1>7 DEF LogOk, Still
  <2>2. \A e \in pending'[d] : e[1] = d /\ Below(stamp'[e], clock'[d])
    BY <1>1, <1>3, <1>4 DEF LogOk, Still
  <2>3. /\ Counts(stamp', waived', clock'[d], known'[d])
        /\ \A c \in Client \ {d} : clock'[d][c] <= primary'.file.clock[c]
        /\ primary'.file.clock[d] <= clock'[d][d]
    BY <1>1, <1>3 DEF LogOk, Still
  <2> QED
    BY <1>7, <2>1, <2>2, <2>3 DEF LogOk
<1>9. MemOk(d)' /\ CacheOk(d)'
  BY <1>3, MemStill, CacheStill
<1>10. HandOk(d)'
  BY <1>1, <1>5, HandNone
<1> QED
  BY <1>3, <1>6, <1>8, <1>9, <1>10, StillKept

-----------------------------------------------------------------------------
(* Steps that change what the devices share *)

\* What the clocks of edits promise, when no edit is made.
LEMMA StampsLater ==
  ASSUME TypeOK, TypeOK', StampsOk, Later, stamp' = stamp, waived' \subseteq Made(stamp),
         \A c \in Client : known[c] \subseteq known'[c] \cup waived'
  PROVE  StampsOk'
<1>1. ASSUME NEW d \in Client PROVE Written(d)' = Written(d)
  BY DEF Written
<1>2. \A d \in Client : (Written(d) = {d} \X (1..Cardinality(Written(d))))'
  BY <1>1 DEF StampsOk
<1>3. ASSUME NEW e \in Made(stamp)
      PROVE  /\ stamp[e][e[1]] >= 1 /\ e \in known'[e[1]] \cup waived'
             /\ \A c \in Client \ {e[1]} : stamp[e][c] <= primary'.file.clock[c]
  <2>1. e[1] \in Client /\ stamp[e] \in Clock
    BY EditPair, SharedFields DEF Made
  <2>2. stamp[e][e[1]] >= 1 /\ e \in known[e[1]] \cup waived
    BY DEF StampsOk
  <2>3. e \in known'[e[1]] \cup waived'
    BY <2>1, <2>2 DEF Later
  <2>4. ASSUME NEW c \in Client \ {e[1]} PROVE stamp[e][c] <= primary'.file.clock[c]
    <3>1. stamp[e][c] <= primary.file.clock[c] /\ primary.file.clock[c] <= primary'.file.clock[c]
      BY DEF StampsOk, Later, Below
    <3>2. primary.file \in File /\ primary'.file \in File
      BY DEF TypeOK
    <3>3. primary.file.clock \in Clock /\ primary'.file.clock \in Clock
      BY <3>2, FileFields
    <3>4. stamp[e][c] \in Nat /\ primary.file.clock[c] \in Nat /\ primary'.file.clock[c] \in Nat
      BY <2>1, <3>3 DEF Clock
    <3> QED
      BY <3>1, <3>4
  <2> QED
    BY <2>2, <2>3, <2>4
<1> QED
  BY <1>2, <1>3 DEF StampsOk

\* Writing the backup keeps the invariant.
LEMMA WriteBackupKept ==
  ASSUME TypeOK, TypeOK', IInv, NoReplacement, NEW d \in Client, WriteBackup(d) PROVE IInv'
<1>1. FlowType /\ hand[d] \in Hand /\ "put" \in Stages /\ primary.rev \in Nat
      /\ FileOk /\ StampsOk /\ LogOk(d) /\ MemOk(d) /\ CacheOk(d) /\ \A c \in Client : LogOk(c)
  BY TypeParts, HandFields, SharedFields DEF Stages, IInv
<1>2. /\ At(d, "back") /\ ~hand[d].force /\ UploadOk(d)
      /\ hand[d].rev = primary.rev => hand[d].back = primary.file
  BY DEF WriteBackup, IInv, HandOk
<1>3. /\ primary' = primary /\ stamp' = stamp /\ waived' = waived
      /\ log' = log /\ pending' = pending /\ known' = known /\ clock' = clock /\ import' = import
      /\ mem' = mem /\ staged' = staged /\ cache' = cache /\ Goto(d, "put", hand[d])
  BY NoOverwriting DEF WriteBackup, oplog, adapter
<1>4. bak' = primary.file \/ bak' = bak
  BY <1>2 DEF WriteBackup, NoReplacement, Unmoved
<1>5. hand[d].rev = primary.rev => bak' = primary.file
  BY <1>2 DEF WriteBackup, Unmoved
<1>6. Later
  <2>1. primary.file.sv \in Nat /\ primary.file.clock \in Clock
    BY SharedFields
  <2>2. Below(primary.file.clock, primary.file.clock)
    BY <2>1 DEF Below, Clock
  <2> QED
    BY <1>1, <1>3, <1>4, <2>1, <2>2 DEF Later, SameStamps, Stored
<1>7. /\ stage'[d] = "put" /\ hand'[d] = hand[d]
      /\ \A c \in Client \ {d} : stage'[c] = stage[c] /\ hand'[c] = hand[c]
  BY <1>1, <1>3, GotoType
<1>8. \A c \in Client : primary'.file.clock[c] <= primary.file.clock[c]
  BY <1>3, SharedFields DEF Clock
<1>9. \A c \in Client \ {d} : Untouched(c)
  BY <1>3, <1>7, <1>8 DEF Untouched
<1>10. FileOk'
  BY <1>1, <1>3, <1>4 DEF FileOk
<1>11. StampsOk'
  <2>1. waived' \subseteq Made(stamp)
    BY <1>1, <1>3 DEF StampsOk
  <2> QED
    BY <1>1, <1>3, <1>6, <2>1, StampsLater
<1>12. LogOk(d)'
  <2>1. primary'.file.clock[d] <= clock[d][d]
    BY <1>1, <1>3 DEF LogOk
  <2> QED
    BY <1>1, <1>3, <1>6, <2>1, LogLater
<1>13. MemOk(d)' /\ CacheOk(d)'
  <2>1. known[d] \subseteq known'[d] \cup waived'
    BY <1>3
  <2> QED
    BY <1>1, <1>3, <1>6, <2>1, MemLater, CacheLater
<1>14. UploadOk(d)'
  <2>1. Stored' = Stored
    BY <1>3 DEF Stored
  <2> QED
    BY <1>2, <1>3, <1>7, <2>1 DEF UploadOk, Extends
<1>15. HandOk(d)'
  BY <1>2, <1>3, <1>5, <1>7, <1>14 DEF HandOk, At
<1> QED
  BY <1>6, <1>9, <1>10, <1>11, <1>12, <1>13, <1>15, StepKept

-----------------------------------------------------------------------------
(* The write of the file *)

\* The file in hand goes to the folder.
LEMMA WrittenLater ==
  ASSUME TypeOK, TypeOK', IInv, NoReplacement, NEW d \in Client, At(d, "put"), Unmoved(d),
         primary' = [rev |-> primary.rev + 1, kind |-> "good", file |-> hand[d].file],
         bak' = bak, stamp' = stamp, waived' = waived, known' = known
  PROVE  /\ Later /\ FileOk' /\ StampsOk'
         /\ \A c \in Client \ {d} : primary'.file.clock[c] <= primary.file.clock[c]
         /\ primary'.file.clock[d] <= clock[d][d]
         /\ Stored' \subseteq known[d] /\ hand[d].ops \subseteq Stored'
         /\ primary'.rev > 0 /\ primary'.rev > primary.rev
<1> DEFINE p == primary.file
           g == hand[d].file
<1>1. /\ p \in File /\ g \in File /\ p.sv \in Nat /\ g.sv \in Nat /\ primary.rev \in Nat
      /\ hand[d].ops \in SUBSET Edit
  BY SharedFields, HandFields, TypeParts, FileFields
<1>2. hand[d].rev = primary.rev
  <2>1. ~hand[d].force
    BY DEF IInv, HandOk
  <2> QED
    BY <2>1 DEF Unmoved
<1>3. UploadOk(d) /\ Extends(d)
  BY <1>2 DEF IInv, HandOk, UploadOk
<1>4. FileOk /\ StampsOk /\ GoodFile(stamp, waived, p)
  BY DEF IInv, FileOk
<1>5. Stored = p.state /\ Stored' = g.state
  BY DEF Stored
<1>6. /\ g.sv = p.sv + 1
      /\ g.recent = Trim(Append(p.recent, [sv |-> p.sv + 1, ops |-> hand[d].ops]))
      /\ p.state \subseteq g.state \cup waived
      /\ g.state \subseteq p.state \cup hand[d].ops \cup waived
      /\ Below(p.clock, g.clock) /\ GoodFile(stamp, waived, g)
      /\ \A c \in Client \ {d} : g.clock[c] <= p.clock[c]
      /\ g.clock[d] <= clock[d][d]
  BY <1>3, <1>5 DEF Extends
<1>7. primary'.file = g /\ primary'.rev = primary.rev + 1 /\ primary'.kind = "good"
  OBVIOUS
<1>p. p = primary.file
  OBVIOUS
<1>g. g.state \subseteq known[d] /\ hand[d].ops \subseteq g.state
  BY <1>3 DEF UploadOk
<1> HIDE DEF p, g
<1>8. /\ g.recent # <<>>
      /\ \A k \in Nat : \A have : k <= p.sv /\ Reaches(p, waived, k, have) => Reaches(g, waived, k, have)
  <2>1. Numbered(p)
    BY <1>4 DEF GoodFile
  <2> QED
    BY <1>1, <1>6, <2>1, ExtendedFile
<1>9. Later
  <2>1. SameStamps(stamp, stamp') /\ Made(stamp') \ Made(stamp) = {}
    BY DEF SameStamps
  <2>2. /\ Stored \subseteq Stored' \cup waived'
        /\ Below(primary.file.clock, primary'.file.clock)
        /\ primary.file.sv <= primary'.file.sv
    BY <1>1, <1>5, <1>6, <1>7, <1>p
  <2>3. primary.rev <= primary'.rev /\ primary'.rev # primary.rev
    BY <1>1, <1>7
  <2>4. \A k \in Nat : \A have :
          k <= primary.file.sv /\ Reaches(primary.file, waived, k, have)
            => Reaches(primary'.file, waived', k, have)
    BY <1>7, <1>8, <1>p
  <2> QED
    BY <2>1, <2>2, <2>3, <2>4 DEF Later
<1>10. FileOk'
  BY <1>1, <1>6, <1>7, <1>8 DEF FileOk
<1>11. StampsOk'
  <2>1. waived' \subseteq Made(stamp)
    BY <1>4 DEF StampsOk
  <2> QED
    BY <1>4, <1>9, <2>1, StampsLater
<1> QED
  BY <1>1, <1>5, <1>6, <1>7, <1>9, <1>10, <1>11, <1>p, <1>g

\* The put keeps the invariant: only the file as it was read is replaced.
LEMMA PutKept ==
  ASSUME TypeOK, TypeOK', IInv, NoReplacement, NEW d \in Client, Put(d) PROVE IInv'
<1>1. AdapterType /\ FlowType /\ hand[d] \in Hand /\ "stored" \in Stages
      /\ LogOk(d) /\ MemOk(d) /\ \A c \in Client : LogOk(c)
  BY TypeParts, HandFields DEF Stages, IInv
<1> DEFINE m == [cursor |-> mem[d].cursor, expected |-> hand[d].file.sv,
                 rev |-> primary'.rev, clock |-> hand[d].file.clock]
<1>2. ~hand[d].force
  BY DEF IInv, HandOk
<1>3. /\ At(d, "put") /\ Unmoved(d)
      /\ primary' = [rev |-> primary.rev + 1, kind |-> "good", file |-> hand[d].file]
      /\ bak' = bak /\ stamp' = stamp /\ waived' = waived
      /\ log' = log /\ pending' = pending /\ known' = known /\ clock' = clock /\ import' = import
      /\ staged' = [staged EXCEPT ![d] = NoStage] /\ cache' = [cache EXCEPT ![d] = NoCache]
      /\ Goto(d, "stored", hand[d])
  BY NoOverwriting, OwnImport DEF Put
<1>4. mem' = [mem EXCEPT ![d] = m]
  BY <1>2 DEF Put
<1>5. m.cursor = mem[d].cursor /\ m.expected = hand[d].file.sv /\ m.rev = primary'.rev
  OBVIOUS
<1> HIDE DEF m
<1>6. /\ mem'[d] = m /\ staged'[d] = NoStage /\ cache'[d] = NoCache
      /\ \A c \in Client \ {d} : mem'[c] = mem[c] /\ staged'[c] = staged[c] /\ cache'[c] = cache[c]
  BY <1>1, <1>3, <1>4 DEF AdapterType
<1>7. /\ stage'[d] = "stored" /\ hand'[d] = hand[d]
      /\ \A c \in Client \ {d} : stage'[c] = stage[c] /\ hand'[c] = hand[c]
  BY <1>1, <1>3, GotoType
<1>8. /\ Later /\ FileOk' /\ StampsOk'
      /\ \A c \in Client \ {d} : primary'.file.clock[c] <= primary.file.clock[c]
      /\ primary'.file.clock[d] <= clock[d][d]
      /\ Stored' \subseteq known[d] /\ hand[d].ops \subseteq Stored'
      /\ primary'.rev > 0 /\ primary'.rev > primary.rev
  BY <1>3, WrittenLater
<1>9. \A c \in Client \ {d} : Untouched(c)
  BY <1>3, <1>6, <1>7, <1>8 DEF Untouched
<1>10. LogOk(d)'
  BY <1>1, <1>3, <1>8, LogLater
<1>11. /\ primary'.rev \in Nat /\ primary'.file.sv \in Nat /\ primary.file.sv \in Nat
       /\ mem[d].cursor \in Nat /\ primary'.file = hand[d].file
  <2>1. primary'.file \in File /\ primary'.rev \in Nat
    BY DEF TypeOK
  <2> QED
    BY <1>1, <1>3, <2>1, FileFields, AdapterFields, SharedFields
<1>12. \A k : Reaches(primary'.file, waived', k, known'[d])
  <2>1. primary'.file.state \subseteq known'[d] \cup waived'
    BY <1>3, <1>8 DEF Stored
  <2> QED
    BY <2>1, ReachesAll
<1>13. MemOk(d)'
  <2>1. mem'[d].cursor <= primary'.file.sv
    BY <1>1, <1>5, <1>6, <1>8, <1>11 DEF MemOk, Later
  <2>2. mem'[d].expected <= primary'.file.sv /\ mem'[d].rev <= primary'.rev
    BY <1>5, <1>6, <1>11
  <2>3. Stored' \subseteq known'[d] \cup waived'
    BY <1>3, <1>8
  <2> QED
    BY <1>12, <2>1, <2>2, <2>3 DEF MemOk
<1>14. CacheOk(d)'
  <2>1. NoCache.rev = 0 /\ NoCache' = NoCache
        /\ NoStage.rev = 0 /\ NoStage.expected = 0 /\ NoStage.held = FALSE
    BY DEF NoCache, NoStage
  <2> QED
    BY <1>6, <1>8, <1>11, <2>1 DEF CacheOk
<1>15. HandOk(d)'
  <2>1. hand'[d].file.sv <= primary'.file.sv
    BY <1>7, <1>11
  <2>2. hand'[d].ops \subseteq known'[d] /\ hand'[d].ops \subseteq Stored' \cup waived'
    BY <1>3, <1>7, <1>8
  <2> QED
    BY <1>2, <1>7, <1>12, <2>1, <2>2 DEF HandOk, At
<1> QED
  BY <1>8, <1>9, <1>10, <1>13, <1>14, <1>15, StepKept

\* A put whose answer is lost, or that tears the file, keeps the invariant.
LEMMA PutFailsKept ==
  ASSUME TypeOK, TypeOK', IInv, NoReplacement, NEW d \in Client, PutFails(d) PROVE IInv'
<1>1. FlowType /\ LogOk(d) /\ MemOk(d) /\ CacheOk(d) /\ FileOk /\ StampsOk
      /\ (\A c \in Client : LogOk(c)) /\ primary \in Primary /\ primary.rev \in Nat
      /\ primary.file.sv \in Nat /\ primary.file.clock \in Clock
  BY TypeParts, SharedFields DEF IInv, SharedType
<1>2. /\ At(d, "put") /\ Quit(d)
      /\ UNCHANGED <<bak, log, pending, known, clock, rebuild, adapter, stamp>>
      /\ (Sends(d) \/ import' = import) /\ Overwritten(d) = {}
  BY NoOverwriting DEF PutFails
<1>3. /\ bak' = bak /\ stamp' = stamp
      /\ log' = log /\ pending' = pending /\ known' = known /\ clock' = clock /\ import' = import
      /\ mem' = mem /\ staged' = staged /\ cache' = cache
  BY <1>2, OwnImport DEF adapter
<1>4. waived' = waived
  BY <1>2 DEF PutFails
<1>5. CASE primary' = primary
  <2>1. UNCHANGED <<remote, oplog, adapter, stamp, waived>>
    BY <1>2, <1>3, <1>4, <1>5 DEF remote, oplog
  <2> QED
    BY <1>2, <2>1, FlowQuit
<1>6. ASSUME Later, FileOk', StampsOk',
             \A c \in Client \ {d} : primary'.file.clock[c] <= primary.file.clock[c],
             primary'.file.clock[d] <= clock[d][d]
      PROVE  IInv'
  <2>1. /\ stage'[d] = "idle" /\ hand'[d] = NoHand
        /\ \A c \in Client \ {d} : stage'[c] = stage[c] /\ hand'[c] = hand[c]
    BY <1>1, <1>2, QuitType
  <2>2. \A c \in Client \ {d} : Untouched(c)
    BY <1>3, <1>6, <2>1 DEF Untouched
  <2>3. LogOk(d)'
    BY <1>1, <1>3, <1>6, LogLater
  <2>4. MemOk(d)' /\ CacheOk(d)'
    <3>1. known[d] \subseteq known'[d] \cup waived'
      BY <1>3
    <3> QED
      BY <1>1, <1>3, <1>6, <3>1, MemLater, CacheLater
  <2>5. HandOk(d)'
    BY <2>1, HandNone DEF NoHand
  <2> QED
    BY <1>6, <2>2, <2>3, <2>4, <2>5, StepKept
<1>7. CASE Unmoved(d) /\ primary' = [rev |-> primary.rev + 1, kind |-> "good", file |-> hand[d].file]
  <2>1. /\ Later /\ FileOk' /\ StampsOk'
        /\ \A c \in Client \ {d} : primary'.file.clock[c] <= primary.file.clock[c]
        /\ primary'.file.clock[d] <= clock[d][d]
    BY <1>2, <1>3, <1>4, <1>7, WrittenLater
  <2> QED
    BY <1>6, <2>1
<1>8. CASE /\ Unmoved(d) /\ primary.kind = "good"
           /\ primary' = [primary EXCEPT !.rev = @ + 1, !.kind = "torn"]
  <2>1. primary'.file = primary.file /\ primary'.rev = primary.rev + 1 /\ primary'.kind = "torn"
    BY <1>1, <1>8, TornFacts
  <2>2. Stored' = Stored
    BY <2>1 DEF Stored
  <2>3. bak = primary.file
    <3>1. hand[d].rev = primary.rev
      BY <1>8 DEF Unmoved, IInv, HandOk
    <3> QED
      BY <1>2, <1>8, <3>1 DEF IInv, HandOk
  <2>4. Later
    <3>1. Below(primary.file.clock, primary.file.clock)
      BY <1>1 DEF Below, Clock
    <3>2. primary.rev <= primary'.rev /\ primary'.rev # primary.rev
      BY <1>1, <2>1
    <3>3. primary.file.sv <= primary'.file.sv
      BY <1>1, <2>1
    <3>4. SameStamps(stamp, stamp') /\ Made(stamp') \ Made(stamp) = {}
      BY <1>3 DEF SameStamps
    <3> QED
      BY <1>3, <1>4, <2>1, <2>2, <3>1, <3>2, <3>3, <3>4 DEF Later
  <2>5. FileOk'
    BY <1>1, <1>3, <1>4, <1>8, <2>1, <2>3 DEF FileOk
  <2>6. StampsOk'
    <3>1. waived' \subseteq Made(stamp)
      BY <1>1, <1>4 DEF StampsOk
    <3> QED
      BY <1>1, <1>3, <2>4, <3>1, StampsLater
  <2>7. /\ \A c \in Client : primary'.file.clock[c] <= primary.file.clock[c]
        /\ primary'.file.clock[d] <= clock[d][d]
    BY <1>1, <2>1 DEF Clock, LogOk
  <2> QED
    BY <1>6, <2>4, <2>5, <2>6, <2>7
<1> QED
  BY <1>5, <1>7, <1>8 DEF PutFails

-----------------------------------------------------------------------------
(* A new edit *)

\* The n-th edit of a device is not written before the n-th.
LEMMA NewEdit ==
  ASSUME TypeOK, TypeOK', IInv, NEW d \in Client, Write(d),
         NEW e, e = <<d, Cardinality(Written(d)) + 1>>
  PROVE  /\ e \in Edit /\ e[1] = d /\ e \notin Made(stamp)
         /\ clock'[d] \in Clock /\ stamp'[e] = clock'[d] /\ clock'[d][d] = clock[d][d] + 1
         /\ \A c \in Client \ {d} : clock'[d][c] = clock[d][c]
         /\ Below(clock[d], clock'[d])
         /\ Made(stamp') = Made(stamp) \cup {e} /\ SameStamps(stamp, stamp')
         /\ \A c \in Client : (Written(c) = {c} \X (1..Cardinality(Written(c))))'
<1>1. /\ e \in Edit /\ clock' = [clock EXCEPT ![d] = Increment(@, d)]
      /\ stamp' = [stamp EXCEPT ![e] = clock'[d]]
  BY DEF Write
<1>2. e[1] = d
  OBVIOUS
<1>3. /\ clock[d] \in Clock /\ clock \in [Client -> Clock] /\ stamp \in [Edit -> Clock]
      /\ stamp' \in [Edit -> Clock]
  BY LogFields, TypeParts, SharedFields DEF TypeOK
<1>4. clock'[d] = Increment(clock[d], d)
  BY <1>1, <1>3
<1>5. /\ clock'[d] \in Clock /\ clock'[d][d] = clock[d][d] + 1
      /\ \A c \in Client \ {d} : clock'[d][c] = clock[d][c] /\ Below(clock[d], clock'[d])
      /\ Below(clock[d], clock'[d])
  BY <1>3, <1>4, IncrementFacts
<1>6. \A c \in Client : Written(c) = {c} \X (1..Cardinality(Written(c)))
  BY DEF IInv, StampsOk
<1>7. \A c \in Client : IsFiniteSet(Written(c)) /\ Cardinality(Written(c)) \in Nat
  <2> TAKE c \in Client
  <2>1. Written(c) \subseteq Edit
    BY DEF Written
  <2>2. IsFiniteSet(Written(c))
    BY <2>1, EditFinite, FS_Subset
  <2> QED
    BY <2>2, FS_CardinalityType
<1> DEFINE n == Cardinality(Written(d))
<1>8. n \in Nat /\ Written(d) = {d} \X (1..n) /\ e = <<d, n + 1>>
  BY <1>6, <1>7
<1> HIDE DEF n
<1>9. e \notin Written(d)
  BY <1>8
<1>10. e \notin Made(stamp)
  BY <1>1, <1>2, <1>9 DEF Made, Written
<1>11. stamp'[e] = clock'[d] /\ \A o \in Edit \ {e} : stamp'[o] = stamp[o]
  BY <1>1, <1>3
<1>12. clock'[d] # EmptyClock
  <2>1. clock[d][d] \in Nat /\ EmptyClock[d] = 0
    BY <1>3, EmptyClockFacts DEF Clock
  <2>2. clock'[d][d] # EmptyClock[d]
    BY <1>5, <2>1
  <2> QED
    BY <2>2
<1>13. Made(stamp') = Made(stamp) \cup {e}
  BY <1>1, <1>11, <1>12 DEF Made
<1>14. SameStamps(stamp, stamp')
  BY <1>10, <1>11, <1>13 DEF SameStamps, Made
<1>15. ASSUME NEW c \in Client \ {d} PROVE Written(c)' = Written(c)
  BY <1>2, <1>11 DEF Written
<1>16. Written(d)' = Written(d) \cup {e}
  BY <1>1, <1>2, <1>11, <1>12 DEF Written
<1>17. Cardinality(Written(d)') = n + 1
  BY <1>7, <1>9, <1>16, FS_AddElement DEF n
<1>18. Written(d)' = {d} \X (1..(n + 1))
  <2>1. 1..(n + 1) = (1..n) \cup {n + 1}
    BY <1>8
  <2> QED
    BY <1>8, <1>16, <2>1
<1>19. ASSUME NEW c \in Client PROVE (Written(c) = {c} \X (1..Cardinality(Written(c))))'
  <2>1. CASE c = d
    BY <1>17, <1>18, <2>1
  <2>2. CASE c # d
    <3>1. Written(c)' = Written(c)
      BY <1>15, <2>2
    <3> QED
      BY <1>6, <3>1
  <2> QED
    BY <2>1, <2>2
<1> QED
  BY <1>1, <1>2, <1>5, <1>10, <1>11, <1>13, <1>14, <1>19

\* A user's edit keeps the invariant: it gets a counter that no clock has reached.
LEMMA WriteKept ==
  ASSUME TypeOK, TypeOK', IInv, NEW d \in Client, Write(d) PROVE IInv'
<1> DEFINE e == <<d, Cardinality(Written(d)) + 1>>
<1>1. /\ e \in Edit /\ e[1] = d /\ e \notin Made(stamp)
      /\ clock'[d] \in Clock /\ stamp'[e] = clock'[d] /\ clock'[d][d] = clock[d][d] + 1
      /\ \A c \in Client \ {d} : clock'[d][c] = clock[d][c]
      /\ Below(clock[d], clock'[d])
      /\ Made(stamp') = Made(stamp) \cup {e} /\ SameStamps(stamp, stamp')
      /\ \A c \in Client : (Written(c) = {c} \X (1..Cardinality(Written(c))))'
  BY NewEdit
<1>2. /\ clock' = [clock EXCEPT ![d] = Increment(@, d)]
      /\ pending' = [pending EXCEPT ![d] = @ \cup {e}]
      /\ known' = [known EXCEPT ![d] = @ \cup {e}]
      /\ primary' = primary /\ bak' = bak /\ log' = log /\ import' = import
      /\ mem' = mem /\ staged' = staged /\ cache' = cache /\ stage' = stage /\ hand' = hand
      /\ waived' = waived
  BY OwnImport DEF Write, remote, adapter, flow
<1> HIDE DEF e
<1>3. /\ LogType /\ FileOk /\ StampsOk /\ LogOk(d) /\ MemOk(d) /\ CacheOk(d) /\ HandOk(d)
      /\ (\A c \in Client : LogOk(c)) /\ clock[d] \in Clock /\ stamp \in [Edit -> Clock]
      /\ stamp' \in [Edit -> Clock]
      /\ primary.file \in File /\ primary.file.sv \in Nat /\ primary.file.clock \in Clock
      /\ primary.rev \in Nat
  BY TypeParts, LogFields, SharedFields DEF IInv, TypeOK
<1>4. /\ pending'[d] = pending[d] \cup {e} /\ known'[d] = known[d] \cup {e}
      /\ \A c \in Client \ {d} : pending'[c] = pending[c] /\ known'[c] = known[c] /\ clock'[c] = clock[c]
  BY <1>2, <1>3 DEF LogType
<1>5. clock[d][d] \in Nat /\ clock'[d][d] \in Nat /\ clock[d][d] < clock'[d][d]
  BY <1>1, <1>3 DEF Clock
<1>6. Later
  <2>1. Below(primary.file.clock, primary.file.clock)
    BY <1>3 DEF Below, Clock
  <2>2. \A o \in Made(stamp') \ Made(stamp) : clock[o[1]][o[1]] < stamp'[o][o[1]]
    BY <1>1, <1>5
  <2> QED
    BY <1>1, <1>2, <1>3, <2>1, <2>2 DEF Later, Stored
<1>7. \A c \in Client : primary'.file.clock[c] <= primary.file.clock[c]
  BY <1>2, <1>3 DEF Clock
<1>8. \A c \in Client \ {d} : Untouched(c)
  BY <1>2, <1>4, <1>7 DEF Untouched
<1>9. Stored' = Stored
  BY <1>2 DEF Stored
<1>10. FileOk'
  <2>1. \A c \in Client : primary.file.clock[c] <= clock[c][c]
    BY <1>3 DEF LogOk
  <2>2. GoodFile(stamp', waived', primary.file)
    BY <1>3, <1>6, <2>1, FileAbove DEF FileOk
  <2> QED
    BY <1>2, <1>3, <2>2 DEF FileOk
<1>11. StampsOk'
  <2>1. ASSUME NEW o \in Made(stamp')
        PROVE  /\ stamp'[o][o[1]] >= 1 /\ o \in known'[o[1]] \cup waived'
               /\ \A c \in Client \ {o[1]} : stamp'[o][c] <= primary'.file.clock[c]
    <3>1. CASE o = e
      <4>1. \A c \in Client \ {d} : clock[d][c] <= primary.file.clock[c]
        BY <1>3 DEF LogOk
      <4> QED
        BY <1>1, <1>2, <1>4, <1>5, <3>1, <4>1
    <3>2. CASE o \in Made(stamp)
      <4>1. o[1] \in Client /\ stamp'[o] = stamp[o]
        BY <1>1, <3>2, EditPair DEF Made, SameStamps
      <4>2. known[o[1]] \subseteq known'[o[1]]
        BY <1>4, <4>1
      <4> QED
        BY <1>2, <1>3, <3>2, <4>1, <4>2 DEF StampsOk
    <3> QED
      BY <1>1, <3>1, <3>2
  <2>2. waived' \subseteq Made(stamp')
    BY <1>1, <1>2, <1>3 DEF StampsOk
  <2> QED
    BY <1>1, <2>1, <2>2 DEF StampsOk
<1>12. LogOk(d)'
  <2>1. Counts(stamp', waived', clock'[d], known'[d])
    <3> SUFFICES ASSUME NEW o \in Made(stamp'), stamp'[o][o[1]] <= clock'[d][o[1]]
                 PROVE  o \in known'[d] \cup waived'
      BY DEF Counts
    <3>1. o[1] \in Client /\ o \in Edit
      BY EditPair DEF Made
    <3>2. CASE o[1] = d
      BY <1>11, <3>2 DEF StampsOk
    <3>3. CASE o[1] # d
      <4>1. o \in Made(stamp) /\ stamp'[o] = stamp[o]
        BY <1>1, <3>3 DEF SameStamps
      <4>2. stamp[o][o[1]] <= clock[d][o[1]]
        BY <1>1, <3>1, <3>3, <4>1
      <4> QED
        BY <1>2, <1>3, <1>4, <4>1, <4>2 DEF LogOk, Counts
    <3> QED
      BY <3>2, <3>3
  <2>2. \A o \in pending'[d] : o[1] = d /\ Below(stamp'[o], clock'[d])
    <3> TAKE o \in pending'[d]
    <3>1. CASE o = e
      <4>1. Below(clock'[d], clock'[d])
        BY <1>1 DEF Below, Clock
      <4> QED
        BY <1>1, <3>1, <4>1
    <3>2. CASE o \in pending[d]
      <4>1. o \in Made(stamp) /\ o[1] = d /\ Below(stamp[o], clock[d])
        BY <1>3, <3>2 DEF LogOk
      <4>2. stamp'[o] = stamp[o] /\ stamp[o] \in Clock
        BY <1>1, <1>3, <4>1 DEF SameStamps, Made
      <4>3. \A c \in Client : /\ stamp[o][c] <= clock[d][c] /\ clock[d][c] <= clock'[d][c]
                              /\ stamp[o][c] \in Nat /\ clock[d][c] \in Nat /\ clock'[d][c] \in Nat
        BY <1>1, <1>3, <4>1, <4>2 DEF Below, Clock
      <4>4. Below(stamp[o], clock'[d])
        BY <4>3 DEF Below
      <4> QED
        BY <4>1, <4>2, <4>4
    <3> QED
      BY <1>4, <3>1, <3>2
  <2>3. \A c \in Client \ {d} : clock'[d][c] <= primary'.file.clock[c]
    BY <1>1, <1>2, <1>3 DEF LogOk
  <2>4. primary'.file.clock[d] <= clock'[d][d]
    <3>1. primary.file.clock[d] <= clock[d][d] /\ primary.file.clock[d] \in Nat
      BY <1>3 DEF LogOk, Clock
    <3> QED
      BY <1>2, <1>5, <3>1
  <2>5. /\ import'[d] = NoImport /\ known'[d] \subseteq Made(stamp')
        /\ log'[d] \subseteq known'[d] \cup waived' /\ pending'[d] \subseteq known'[d]
        /\ known'[d] \subseteq pending'[d] \cup Stored' \cup waived'
    BY <1>1, <1>2, <1>3, <1>4, <1>9 DEF LogOk
  <2>6. NoImport' = NoImport
    BY DEF NoImport
  <2> QED
    BY <2>1, <2>2, <2>3, <2>4, <2>5, <2>6 DEF LogOk
<1>13. MemOk(d)' /\ CacheOk(d)'
  <2>1. known[d] \subseteq known'[d] \cup waived'
    BY <1>4
  <2> QED
    BY <1>2, <1>3, <1>6, <2>1, MemLater, CacheLater
<1>14. Waits(d)
  BY <1>2, <1>4, <1>5, <1>7 DEF Waits
<1>15. HandOk(d)'
  BY <1>3, <1>6, <1>14, HandLater
<1> QED
  BY <1>6, <1>8, <1>10, <1>11, <1>12, <1>13, <1>15, StepKept

-----------------------------------------------------------------------------
(* The folder replaces what a device has *)

\* Taking the file whole keeps the invariant: what the device drops is waived.
LEMMA RebuildKept ==
  ASSUME TypeOK, TypeOK', IInv, NEW d \in Client, Rebuild(d) PROVE IInv'
<1> DEFINE f == hand[d].file
           kept == IF rebuild[d] THEN pending[d] ELSE {}
           ops == UNION {f.recent[i].ops : i \in DOMAIN f.recent}
           w == Increment(f.clock, d)
<1>1. /\ LogType /\ FlowType /\ hand[d] \in Hand /\ f \in File /\ f.clock \in Clock
      /\ clock[d] \in Clock /\ pending[d] \in SUBSET Edit /\ known[d] \in SUBSET Edit
      /\ stamp \in [Edit -> Clock] /\ stamp' \in [Edit -> Clock]
      /\ primary.file \in File /\ primary.file.clock \in Clock
      /\ primary.file.sv \in Nat /\ primary.rev \in Nat
  BY TypeParts, HandFields, LogFields, FileFields, SharedFields DEF TypeOK
<1>2. /\ At(d, "remote")
      /\ known' = [known EXCEPT ![d] = f.state \cup kept]
      /\ pending' = [pending EXCEPT ![d] = kept]
      /\ waived' = waived \cup (known[d] \ known'[d])
      /\ log' = [log EXCEPT ![d] = ops]
      /\ clock' = [clock EXCEPT ![d] = MergedStamps(w, kept)]
      /\ import' = [import EXCEPT ![d] = NoImport]
      /\ Goto(d, "rebuilt", hand[d])
      /\ UNCHANGED <<remote, adapter, stamp, faults>>
  BY DEF Rebuild
<1>3. /\ ReadOk(d) /\ primary.file.clock[d] <= f.clock[d] /\ Holds(d, f.state)
      /\ FileOk /\ StampsOk /\ LogOk(d) /\ MemOk(d) /\ CacheOk(d) /\ ~hand[d].force
  BY <1>2 DEF IInv, HandOk
<1>4. kept \subseteq pending[d] /\ \A e : e \in ops <=> \E i \in DOMAIN f.recent : e \in f.recent[i].ops
  OBVIOUS
<1>w. w = Increment(f.clock, d) /\ f = hand[d].file
  OBVIOUS
<1> HIDE DEF f, kept, ops, w
<1>5. /\ known'[d] = f.state \cup kept /\ pending'[d] = kept /\ log'[d] = ops
      /\ clock'[d] = MergedStamps(w, kept) /\ import'[d] = NoImport
      /\ \A c \in Client \ {d} : /\ known'[c] = known[c] /\ pending'[c] = pending[c]
                                 /\ log'[c] = log[c] /\ clock'[c] = clock[c]
                                 /\ import'[c] = import[c]
  BY <1>1, <1>2 DEF LogType
<1>6. /\ primary' = primary /\ bak' = bak /\ stamp' = stamp
      /\ mem' = mem /\ staged' = staged /\ cache' = cache
  BY <1>2 DEF remote, adapter
<1>7. /\ waived \subseteq waived' /\ known[d] \subseteq known'[d] \cup waived'
      /\ waived' \subseteq waived \cup known[d]
  BY <1>2
<1>8. /\ stage'[d] = "rebuilt" /\ hand'[d] = hand[d]
      /\ \A c \in Client \ {d} : stage'[c] = stage[c] /\ hand'[c] = hand[c]
  <2>1. "rebuilt" \in Stages
    BY DEF Stages
  <2> QED
    BY <1>1, <1>2, <2>1, GotoType
<1>9. SameStamps(stamp, stamp') /\ Made(stamp') \ Made(stamp) = {} /\ Stored' = Stored
  BY <1>6 DEF SameStamps, Stored
<1>10. Later
  <2>1. Below(primary.file.clock, primary.file.clock)
    BY <1>1 DEF Below, Clock
  <2>2. \A k, have : Reaches(primary.file, waived, k, have) => Reaches(primary.file, waived', k, have)
    BY <1>7, ReachesMore
  <2> QED
    BY <1>1, <1>6, <1>7, <1>9, <2>1, <2>2 DEF Later
<1>11. \A c \in Client \ {d} : Untouched(c)
  <2>1. \A c \in Client : primary'.file.clock[c] <= primary.file.clock[c]
    BY <1>1, <1>6 DEF Clock
  <2> QED
    BY <1>5, <1>6, <1>8, <2>1 DEF Untouched
<1>12. FileOk'
  <2>1. GoodFile(stamp', waived', primary.file)
    BY <1>1, <1>3, <1>7, <1>9, GoodFileKept DEF FileOk
  <2> QED
    BY <1>3, <1>6, <2>1 DEF FileOk
<1>13. StampsOk'
  <2>1. waived' \subseteq Made(stamp)
    BY <1>3, <1>7 DEF StampsOk, LogOk
  <2>2. \A c \in Client : known[c] \subseteq known'[c] \cup waived'
    BY <1>5, <1>7
  <2> QED
    BY <1>3, <1>6, <1>10, <2>1, <2>2, StampsLater
<1>14. /\ clock'[d] \in Clock /\ Below(w, clock'[d]) /\ \A e \in kept : Below(stamp[e], clock'[d])
       /\ \A c \in Client : clock'[d][c] = w[c] \/ \E e \in kept : clock'[d][c] = stamp[e][c]
       /\ w \in Clock /\ w[d] = f.clock[d] + 1 /\ \A c \in Client \ {d} : w[c] = f.clock[c]
  <2>1. w \in Clock /\ w[d] = f.clock[d] + 1 /\ \A c \in Client \ {d} : w[c] = f.clock[c]
    BY <1>1, <1>w, IncrementFacts
  <2>2. kept \in SUBSET Edit
    BY <1>1, <1>4
  <2> QED
    BY <1>1, <1>5, <2>1, <2>2, MergedFacts
<1>15. \A e \in kept : e \in Made(stamp) /\ e \in known[d] /\ e[1] = d /\ Below(stamp[e], clock[d])
  BY <1>3, <1>4 DEF LogOk
<1>16. \A c \in Client \ {d} : clock'[d][c] <= f.clock[c] \/ clock'[d][c] <= clock[d][c]
  <2> TAKE c \in Client \ {d}
  <2>1. CASE clock'[d][c] = w[c]
    BY <1>1, <1>14, <2>1 DEF Clock
  <2>2. CASE \E e \in kept : clock'[d][c] = stamp[e][c]
    BY <1>15, <2>2 DEF Below
  <2> QED
    BY <1>14, <2>1, <2>2
<1>17. LogOk(d)'
  <2>1. Counts(stamp', waived', clock'[d], known'[d])
    <3> SUFFICES ASSUME NEW e \in Made(stamp), stamp[e][e[1]] <= clock'[d][e[1]]
                 PROVE  e \in known'[d] \cup waived'
      BY <1>6 DEF Counts
    <3>1. e[1] \in Client /\ stamp[e] \in Clock
      BY <1>1, EditPair DEF Made
    <3>2. CASE e[1] = d
      BY <1>3, <1>7, <3>2 DEF StampsOk
    <3>3. CASE e[1] # d
      <4>1. /\ stamp[e][e[1]] \in Nat /\ clock'[d][e[1]] \in Nat
            /\ clock[d][e[1]] \in Nat /\ f.clock[e[1]] \in Nat
        BY <1>1, <1>14, <3>1 DEF Clock
      <4>2. clock'[d][e[1]] <= f.clock[e[1]] \/ clock'[d][e[1]] <= clock[d][e[1]]
        BY <1>16, <3>1, <3>3
      <4>3. stamp[e][e[1]] <= f.clock[e[1]] \/ stamp[e][e[1]] <= clock[d][e[1]]
        BY <4>1, <4>2
      <4>4. e \in f.state \cup waived \/ e \in known[d] \cup waived
        BY <1>3, <1>w, <4>3 DEF ReadOk, GoodFile, LogOk, Counts
      <4> QED
        BY <1>5, <1>7, <4>4
    <3> QED
      BY <3>2, <3>3
  <2>2. \A e \in pending'[d] : e[1] = d /\ Below(stamp'[e], clock'[d])
    BY <1>5, <1>6, <1>14, <1>15
  <2>3. \A c \in Client \ {d} : clock'[d][c] <= primary'.file.clock[c]
    <3> TAKE c \in Client \ {d}
    <3>1. f.clock[c] <= primary.file.clock[c] /\ clock[d][c] <= primary.file.clock[c]
      BY <1>3, <1>w DEF ReadOk, LogOk, Below
    <3>2. /\ clock'[d][c] \in Nat /\ clock[d][c] \in Nat /\ f.clock[c] \in Nat
          /\ primary.file.clock[c] \in Nat
      BY <1>1, <1>14 DEF Clock
    <3> QED
      BY <1>6, <1>16, <3>1, <3>2
  <2>4. primary'.file.clock[d] <= clock'[d][d]
    <3>1. w[d] <= clock'[d][d] /\ w[d] = f.clock[d] + 1
      BY <1>14 DEF Below
    <3>2. clock'[d][d] \in Nat /\ f.clock[d] \in Nat /\ primary.file.clock[d] \in Nat /\ w[d] \in Nat
      BY <1>1, <1>14 DEF Clock
    <3> QED
      BY <1>3, <1>6, <3>1, <3>2
  <2>5. f.state \subseteq Made(stamp) /\ f.state \subseteq Stored \cup waived
    BY <1>3, <1>w DEF ReadOk, GoodFile, Counted
  <2>6. ops \subseteq f.state \cup waived
    BY <1>3, <1>4, <1>w DEF ReadOk, GoodFile, Batches
  <2>7. /\ known'[d] \subseteq Made(stamp')
        /\ log'[d] \subseteq known'[d] \cup waived' /\ pending'[d] \subseteq known'[d]
        /\ known'[d] \subseteq pending'[d] \cup Stored' \cup waived'
    BY <1>5, <1>6, <1>7, <1>9, <1>15, <2>5, <2>6
  <2>8. NoImport' = NoImport
    BY DEF NoImport
  <2> QED
    BY <1>5, <2>1, <2>2, <2>3, <2>4, <2>7, <2>8 DEF LogOk
<1>18. MemOk(d)' /\ CacheOk(d)'
  BY <1>3, <1>6, <1>7, <1>10, MemLater, CacheLater
<1>19. HandOk(d)'
  <2>1. hand[d].latest <= primary.file.sv /\ f.state \subseteq known'[d] \cup waived'
    BY <1>3, <1>5 DEF ReadOk
  <2>2. /\ Reaches(primary'.file, waived', hand'[d].latest, known'[d])
        /\ ReadNow(d)' => Stored' \subseteq known'[d] \cup waived'
    BY <1>3, <1>6, <1>8, <1>10, <2>1, HoldsLater
  <2>3. Holds(d, known[d])'
    BY <2>2 DEF Holds
  <2> QED
    BY <1>3, <1>6, <1>8, <2>1, <2>3 DEF HandOk, At
<1> QED
  BY <1>10, <1>11, <1>12, <1>13, <1>17, <1>18, <1>19, StepKept

-----------------------------------------------------------------------------
(* The invariant, and what it says of the folder *)

\* Every step keeps the invariant.
LEMMA InvStep ==
  ASSUME TypeOK, TypeOK', IInv, NoReplacement, [Next]_vars PROVE IInv'
<1>1. ASSUME NEW d \in Client, Write(d) \/ Prune(d) \/ Crash(d) \/ Expire(d) PROVE IInv'
  BY <1>1, WriteKept, PruneKept, CrashKept, ExpireKept
<1>2. ASSUME NEW d \in Client, Download(d) \/ Apply(d) PROVE IInv'
  BY <1>2, FetchKept, FetchElseKept, ApplyNothingKept, ApplyOpsKept, SkipSnapshotKept,
     AskKept, ApplySnapshotKept, CommitKept DEF Download, Apply
<1>3. ASSUME NEW d \in Client, Upload(d) PROVE IInv'
  BY <1>3, QuitKept, StartUploadKept, AbortKept, NoOverwriting, WriteBackupKept, PutKept,
     PutFailsKept, CommitUploadKept, AcknowledgeKept DEF Upload
<1>4. ASSUME NEW d \in Client, Decide(d) PROVE IInv'
  BY <1>4, QuitKept, AskKept, NoOverwriting, FetchRemoteKept, RebuildKept, CommitKept DEF Decide
<1>5. CASE UNCHANGED vars
  <2>1. /\ Still /\ log' = log /\ pending' = pending /\ known' = known /\ clock' = clock
        /\ import' = import /\ mem' = mem /\ staged' = staged /\ cache' = cache
        /\ stage' = stage /\ hand' = hand
    BY <1>5 DEF vars, remote, oplog, adapter, flow, history, Still
  <2>2. FileOk' /\ StampsOk'
    BY <2>1, StillShared
  <2>3. ASSUME NEW d \in Client PROVE LogOk(d)' /\ MemOk(d)' /\ CacheOk(d)' /\ HandOk(d)'
    <3>1. LogOk(d)' /\ MemOk(d)' /\ CacheOk(d)'
      BY <2>1, LogStill, MemStill, CacheStill DEF SameLog
    <3>2. clock[d][d] \in Nat /\ primary.file.clock[d] \in Nat
      BY TypeParts, LogFields, SharedFields DEF Clock
    <3>3. Waits(d)
      BY <2>1, <3>2 DEF Waits, Still
    <3>4. HandOk(d)'
      BY <2>1, <3>3, StillLater, HandLater DEF IInv
    <3> QED
      BY <3>1, <3>4
  <2> QED
    BY <2>2, <2>3 DEF IInv
<1> QED
  BY <1>1, <1>2, <1>3, <1>4, <1>5 DEF Next, Sync

\* The invariant is one.
LEMMA FolderInvariant == ASSUME NoReplacement PROVE Spec => []IInv
<1>1. Init => IInv
  BY InvInit
<1>2. TypeOK /\ TypeOK' /\ IInv /\ [Next]_vars => IInv'
  BY InvStep
<1> QED
  BY <1>1, <1>2, FileSyncTypes, PTL DEF Spec

\* What the invariant says of the two properties.
LEMMA InvSays == ASSUME IInv PROVE AcknowledgedIsStored /\ NoSilentGap
<1>1. ASSUME NEW d \in Client, UpToDate(d) PROVE known[d] \ waived \subseteq pending[d] \cup Stored
  BY DEF IInv, LogOk
<1>2. ASSUME NEW d \in Client, UpToDate(d) PROVE Stored \ waived \subseteq known[d]
  <2>1. primary.kind = "good" /\ mem[d].rev = primary.rev
    BY <1>2 DEF UpToDate
  <2>2. primary.rev > 0
    BY <2>1 DEF IInv, FileOk
  <2> QED
    BY <2>1, <2>2 DEF IInv, MemOk
<1> QED
  BY <1>1, <1>2 DEF AcknowledgedIsStored, NoSilentGap

\* In a folder that no user replaces, a device that has read the file as it stands has
\* nothing that the file lacks but what it still has to send (the adapter's upload on the
\* revision it read, and its commit order).
THEOREM FolderKeepsAcknowledged == NoReplacement => (Spec => []AcknowledgedIsStored)
<1> SUFFICES ASSUME NoReplacement PROVE Spec => []AcknowledgedIsStored
  OBVIOUS
<1>1. IInv => AcknowledgedIsStored
  BY InvSays
<1> QED
  BY <1>1, FolderInvariant, PTL

\* And it lacks nothing that the file reflects: no gap is passed over (detectDownloadGap,
\* and the baseline committed only after the apply).
THEOREM FolderHasNoSilentGap == NoReplacement => (Spec => []NoSilentGap)
<1> SUFFICES ASSUME NoReplacement PROVE Spec => []NoSilentGap
  OBVIOUS
<1>1. IInv => NoSilentGap
  BY InvSays
<1> QED
  BY <1>1, FolderInvariant, PTL

-----------------------------------------------------------------------------
(* The folder of SyncFolder *)

\* Nobody holds an edit that is not made.
LEMMA HeldMade ==
  ASSUME IInv PROVE Folder!Held \subseteq Made(stamp)
<1>1. \A d \in Client : known[d] \subseteq Made(stamp)
  BY DEF IInv, LogOk
<1>2. waived \subseteq Made(stamp)
  BY DEF IInv, StampsOk
<1>3. Stored \subseteq Made(stamp)
  BY DEF IInv, FileOk, GoodFile, Counted, Stored
<1> QED
  BY <1>1, <1>2, <1>3 DEF Folder!Held

\* An edit is a new one of its author.
LEMMA WriteMakes ==
  ASSUME TypeOK, TypeOK', IInv, NEW d \in Client, Write(d) PROVE Folder!MakeEdit(d)
<1> DEFINE e == <<d, Cardinality(Written(d)) + 1>>
<1>1. e \in Edit /\ e[1] = d /\ e \notin Made(stamp)
  BY NewEdit
<1>2. known' = [known EXCEPT ![d] = @ \cup {e}] /\ primary' = primary /\ waived' = waived
  BY DEF Write, remote
<1> HIDE DEF e
<1>3. e \notin Folder!Held
  BY <1>1, HeldMade
<1>4. Stored' = Stored
  BY <1>2 DEF Stored
<1> QED
  BY <1>1, <1>2, <1>3, <1>4 DEF Folder!MakeEdit

\* A put stores what the device holds, over nothing that it lacks.
LEMMA WritingPushes ==
  ASSUME TypeOK, TypeOK', IInv, NoReplacement, NEW d \in Client, At(d, "put"), Unmoved(d),
         primary' = [rev |-> primary.rev + 1, kind |-> "good", file |-> hand[d].file],
         bak' = bak, stamp' = stamp, waived' = waived, known' = known
  PROVE  Folder!Push(d)
<1>1. Later /\ Stored' \subseteq known[d]
  BY WrittenLater
<1>2. Stored \ Stored' \subseteq waived'
  BY <1>1 DEF Later
<1> QED
  BY <1>1, <1>2 DEF Folder!Push, Folder!Keeps

\* What a device takes, the others or the folder hold; of its own it drops nothing.
LEMMA TakingPulls ==
  ASSUME TypeOK, TypeOK', IInv, IInv', NEW d \in Client, NEW new,
         known' = [known EXCEPT ![d] = new], new \subseteq known[d] \cup Stored \cup waived,
         known[d] \subseteq new \cup waived, primary' = primary, waived' = waived
  PROVE  Folder!Pull(d)
<1>1. known \in [Client -> SUBSET Edit]
  BY DEF TypeOK
<1>2. known'[d] = new
  BY <1>1
<1>3. known' = [known EXCEPT ![d] = known'[d]]
  BY <1>2
<1>4. new \subseteq Folder!Held
  BY DEF Folder!Held
<1>5. known[d] \ new \subseteq waived'
  OBVIOUS
<1>6. Stored' = Stored
  BY DEF Stored
<1> QED
  BY <1>2, <1>3, <1>4, <1>5, <1>6 DEF Folder!Pull, Folder!Take, Folder!Keeps

\* Applying operations or a snapshot is a pull.
LEMMA ApplyPulls ==
  ASSUME TypeOK, TypeOK', IInv, IInv', NEW d \in Client, ApplyOps(d) \/ ApplySnapshot(d)
  PROVE  Folder!Pull(d)
<1>1. CASE ApplyOps(d)
  <2> DEFINE ops == hand[d].ops
  <2>1. {e \in hand[d].ops : Survives(d, e)} = ops
    BY AllSurvive
  <2>2. /\ At(d, "got") /\ ~hand[d].fresh /\ known' = [known EXCEPT ![d] = @ \cup ops]
        /\ primary' = primary /\ waived' = waived
    BY <1>1, <2>1, AllSurvive DEF ApplyOps, remote, history
  <2>3. ops \subseteq Stored \cup waived
    BY <2>2 DEF IInv, HandOk, ReadOk
  <2> HIDE DEF ops
  <2> DEFINE new == known[d] \cup ops
  <2>4. known' = [known EXCEPT ![d] = new]
    BY <2>2
  <2>5. new \subseteq known[d] \cup Stored \cup waived /\ known[d] \subseteq new \cup waived
    BY <2>3
  <2> HIDE DEF new
  <2> QED
    BY <2>2, <2>4, <2>5, TakingPulls
<1>2. CASE ApplySnapshot(d)
  <2> DEFINE f == hand[d].file
             kept == IF Unsynced(d) /\ ~SnapshotAhead(clock[d], f.clock)
                     THEN {e \in pending[d] : Compare(stamp[e], f.clock) \in {"GREATER_THAN", "CONCURRENT"}}
                     ELSE {}
             new == f.state \cup kept
  <2>1. /\ (At(d, "got") /\ hand[d].fresh) \/ At(d, "confirm")
        /\ known' = [known EXCEPT ![d] = new]
        /\ primary' = primary /\ waived' = waived /\ stamp' = stamp
    BY <1>2 DEF ApplySnapshot, Hydrate, remote, history
  <2>2. /\ f.state \subseteq Stored \cup waived
        /\ known[d] \subseteq pending[d] \cup f.state \cup waived
    BY <2>1 DEF IInv, HandOk, ReadOk
  <2>3. kept \subseteq pending[d] /\ pending[d] \subseteq known[d]
    BY DEF IInv, LogOk
  <2>4. new = f.state \cup kept
    OBVIOUS
  <2> HIDE DEF new, kept, f
  <2>5. known'[d] = new
    BY <2>1 DEF TypeOK
  <2>6. ASSUME NEW e \in known[d] PROVE e \in new \cup waived
    <3>1. CASE e \in pending[d]
      <4>1. e[1] = d /\ e \in Made(stamp)
        BY <3>1 DEF IInv, LogOk
      <4>2. e \in known'[d] \cup waived'
        BY <2>1, <4>1 DEF IInv, StampsOk
      <4> QED
        BY <2>1, <2>5, <4>2
    <3>2. CASE e \in f.state \cup waived
      BY <2>4, <3>2
    <3> QED
      BY <2>2, <3>1, <3>2
  <2>7. new \subseteq known[d] \cup Stored \cup waived /\ known[d] \subseteq new \cup waived
    BY <2>2, <2>3, <2>4, <2>6
  <2> QED
    BY <2>1, <2>7, TakingPulls
<1> QED
  BY <1>1, <1>2

\* Taking the file whole is to give in: what the device drops, the user waived.
LEMMA RebuildGivesIn ==
  ASSUME TypeOK, TypeOK', IInv, NEW d \in Client, Rebuild(d) PROVE Folder!GiveIn(d)
<1> DEFINE f == hand[d].file
           kept == IF rebuild[d] THEN pending[d] ELSE {}
<1>1. /\ At(d, "remote") /\ known' = [known EXCEPT ![d] = f.state \cup kept]
      /\ waived' = waived \cup (known[d] \ known'[d]) /\ primary' = primary
  BY DEF Rebuild, remote
<1>2. f.state \subseteq Stored \cup waived
  BY <1>1 DEF IInv, HandOk, ReadOk
<1>3. kept \subseteq known[d]
  BY DEF IInv, LogOk
<1> HIDE DEF f, kept
<1>4. known'[d] = f.state \cup kept /\ known' = [known EXCEPT ![d] = known'[d]]
  BY <1>1 DEF TypeOK
<1>5. known'[d] \subseteq Folder!Held
  BY <1>2, <1>3, <1>4 DEF Folder!Held
<1>6. Stored' = Stored
  BY <1>1 DEF Stored
<1>7. known[d] \ known'[d] \subseteq waived' /\ waived \subseteq waived'
      /\ waived' \subseteq waived \cup known[d]
  BY <1>1
<1> QED
  BY <1>4, <1>5, <1>6, <1>7 DEF Folder!GiveIn, Folder!Take, Folder!Keeps

\* Steps that move no edit.
LEMMA OthersStutter ==
  ASSUME TypeOK, IInv, NoReplacement, NEW d \in Client,
         \/ Prune(d) \/ Crash(d) \/ Expire(d) \/ Download(d)
         \/ ApplyNothing(d) \/ SkipSnapshot(d) \/ AskBeforeSnapshot(d) \/ Commit(d)
         \/ Finish(d) \/ StartUpload(d) \/ StartFirstUpload(d) \/ AbortUpload(d)
         \/ WriteBackup(d) \/ PutMismatch(d) \/ CommitUpload(d) \/ Acknowledge(d)
         \/ Cancel(d) \/ Reconsider(d) \/ FetchRemote(d) \/ FinishRebuild(d)
  PROVE  known' = known /\ Stored' = Stored /\ waived' = waived
<1>1. Overwritten(d) = {}
  BY NoOverwriting
<1>2. known' = known /\ primary' = primary /\ waived' = waived
  <2>1. CASE Prune(d) \/ Crash(d) \/ Expire(d) \/ Download(d)
    BY <2>1 DEF Prune, Crash, Expire, Download, Fetch, FetchUnchanged, FetchNothing, Refetch,
                remote, oplog, history
  <2>2. CASE ApplyNothing(d) \/ SkipSnapshot(d) \/ AskBeforeSnapshot(d) \/ Commit(d)
    BY <2>2 DEF ApplyNothing, SkipSnapshot, AskBeforeSnapshot, Commit, remote, oplog, history
  <2>3. CASE Finish(d) \/ StartUpload(d) \/ StartFirstUpload(d) \/ AbortUpload(d)
    BY <2>3 DEF Finish, StartUpload, StartFirstUpload, AbortUpload, remote, oplog, history
  <2>4. CASE WriteBackup(d) \/ PutMismatch(d) \/ CommitUpload(d) \/ Acknowledge(d)
    BY <1>1, <2>4 DEF WriteBackup, PutMismatch, CommitUpload, Acknowledge, remote, oplog, history
  <2>5. CASE Cancel(d) \/ Reconsider(d) \/ FetchRemote(d) \/ FinishRebuild(d)
    BY <2>5 DEF Cancel, Reconsider, FetchRemote, FinishRebuild, remote, oplog, history
  <2> QED
    BY <2>1, <2>2, <2>3, <2>4, <2>5
<1> QED
  BY <1>2 DEF Stored

\* A put pushes, or changes nothing that counts (a torn or a refused put).
LEMMA PutPushes ==
  ASSUME TypeOK, TypeOK', IInv, NoReplacement, NEW d \in Client, Put(d) \/ PutFails(d)
  PROVE  Folder!Push(d) \/ (known' = known /\ Stored' = Stored /\ waived' = waived)
<1>1. Overwritten(d) = {} /\ primary \in Primary
  BY NoOverwriting, TypeParts DEF SharedType
<1>2. /\ At(d, "put") /\ bak' = bak /\ stamp' = stamp /\ waived' = waived /\ known' = known
  BY <1>1 DEF Put, PutFails
<1>3. \/ Unmoved(d) /\ primary' = [rev |-> primary.rev + 1, kind |-> "good", file |-> hand[d].file]
      \/ primary' = primary
      \/ primary' = [primary EXCEPT !.rev = @ + 1, !.kind = "torn"]
  BY DEF Put, PutFails
<1>4. CASE Unmoved(d) /\ primary' = [rev |-> primary.rev + 1, kind |-> "good", file |-> hand[d].file]
  BY <1>2, <1>4, WritingPushes
<1>5. CASE primary' = primary
  BY <1>2, <1>5 DEF Stored
<1>6. CASE primary' = [primary EXCEPT !.rev = @ + 1, !.kind = "torn"]
  <2>1. primary'.file = primary.file
    BY <1>1, <1>6, TornFacts
  <2> QED
    BY <1>2, <2>1 DEF Stored
<1> QED
  BY <1>3, <1>4, <1>5, <1>6

\* Every step of the protocol is a step of the folder, or none.
LEMMA FolderStep ==
  ASSUME TypeOK, TypeOK', IInv, IInv', NoReplacement, [Next]_vars
  PROVE  [Folder!Next]_(Folder!vars)
<1>1. ASSUME NEW d \in Client, Write(d) \/ Prune(d) \/ Crash(d) \/ Expire(d) \/ Sync(d)
      PROVE  \/ Folder!MakeEdit(d) \/ Folder!Push(d) \/ Folder!Pull(d) \/ Folder!GiveIn(d)
             \/ (known' = known /\ Stored' = Stored /\ waived' = waived)
  <2>1. CASE Write(d)
    BY <2>1, WriteMakes
  <2>2. CASE Prune(d) \/ Crash(d) \/ Expire(d) \/ Download(d)
    BY <2>2, OthersStutter
  <2>3. CASE Apply(d)
    BY <2>3, ApplyPulls, OthersStutter DEF Apply
  <2>4. CASE Upload(d)
    BY <2>4, PutPushes, NoOverwriting, OthersStutter DEF Upload
  <2>5. CASE Decide(d)
    BY <2>5, RebuildGivesIn, NoOverwriting, OthersStutter DEF Decide
  <2> QED
    BY <1>1, <2>1, <2>2, <2>3, <2>4, <2>5 DEF Sync
<1>2. CASE UNCHANGED vars
  <2>1. known' = known /\ Stored' = Stored /\ waived' = waived
    BY <1>2 DEF vars, remote, oplog, history, Stored
  <2> QED
    BY <2>1 DEF Folder!vars
<1>3. CASE Next
  <2>1. PICK d \in Client : Write(d) \/ Prune(d) \/ Crash(d) \/ Expire(d) \/ Sync(d)
    BY <1>3 DEF Next
  <2> QED
    BY <1>1, <2>1 DEF Folder!Next, Folder!vars
<1> QED
  BY <1>2, <1>3

\* The protocol over the files implements replicas and a folder that lose no edit but those
\* that a user gives up.
THEOREM FileSyncImplementsFolder == NoReplacement => (Spec => ImplementsSyncFolder)
<1> SUFFICES ASSUME NoReplacement PROVE Spec => ImplementsSyncFolder
  OBVIOUS
<1>1. Init => Folder!Init
  <2> SUFFICES ASSUME Init PROVE Folder!Init
    OBVIOUS
  <2>1. Stored = {}
    BY BlankFile DEF Init, Stored
  <2> QED
    BY <2>1 DEF Init, Folder!Init
<1>2. TypeOK /\ TypeOK' /\ IInv /\ IInv' /\ [Next]_vars => [Folder!Next]_(Folder!vars)
  BY FolderStep
<1> QED
  BY <1>1, <1>2, FileSyncTypes, FolderInvariant, PTL DEF Spec, ImplementsSyncFolder, Folder!Spec
=============================================================================
