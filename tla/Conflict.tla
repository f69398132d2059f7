------------------------------- MODULE Conflict -------------------------------
(***************************************************************************)
(* Concurrent edits of one task on several devices: conflict detection and *)
(* last-write-wins resolution on the client (conflict-detection, planner,  *)
(* field patches, local-win operations, conversion of edits that win over a*)
(* delete), the server's refusal of what does not dominate the entity's    *)
(* last row, and the replacement of refused operations.                    *)
(*                                                                         *)
(* An operation writes fields with stamps; a stamp names the user's edit.  *)
(* Local time is skewed: a device's own timestamps only grow.  A download  *)
(* and its processing are one action, for the operation-log lock is held;  *)
(* an upload and its answer are two.  Left out: other entities and what    *)
(* spans several (archives, sections, projects, time deltas, reminders),   *)
(* and the file providers.                                                 *)
(***************************************************************************)
EXTENDS SyncClock, Selection, SequencesExt

CONSTANTS Field,         \* the task's fields
          Plain,         \* PLAIN_TASK_FIELDS: those a later edit is laid over a snapshot
          Plans,         \* what the users are going to do: each a sequence of the fields
                         \* to edit at once for each device, the empty set to delete
          Crashers,      \* devices that may crash within a resolution
          MaxTime,       \* bound: the clocks on the wall show 1..MaxTime
          MaxAttempts,   \* MAX_CONCURRENT_RESOLUTION_ATTEMPTS
          MaxFaults      \* bound: lost answers and crashes

ASSUME ConflictAssumption ==
  /\ Field # {} /\ Plain \subseteq Field /\ Crashers \subseteq Client /\ 0 \notin Client
  /\ \A plan \in Plans : plan \in [Client -> Seq(SUBSET Field)]
  /\ MaxTime \in Nat /\ MaxAttempts \in Nat \ {0} /\ MaxFaults \in Nat

VARIABLES
  shared,    \* the server's rows of this entity, in order
  log,       \* the device's rows: an operation and what became of it
  live,      \* the task on screen, or Gone
  clock,     \* the device's vector clock
  cursor,    \* lastServerSeq
  answer,    \* the upload under way, or what is to be done about its refusals
  attempts,  \* resolution attempts for the entity
  time,      \* the timestamp of the device's last action
  todo,      \* what its user is still going to do
  faults

vars == <<shared, log, live, clock, cursor, answer, attempts, time, todo, faults>>

----------------------------------------------------------------------------
(* Operations *)

Gone == [f \in {} |-> <<0, 0>>]
Original == [f \in Field |-> <<0, 0>>]
Defaults == [f \in Field |-> <<0, 1>>]

Put(entity, vals) ==
  [f \in DOMAIN entity \cup DOMAIN vals |-> IF f \in DOMAIN vals THEN vals[f] ELSE entity[f]]

\* The reducers: a plain update of a missing task does nothing, a patch recreates it
\* over the defaults, a replacement sets every field.
ApplyOp(entity, o) ==
  CASE o.kind = "delete"  -> Gone
    [] o.kind = "replace" -> o.vals
    [] o.kind = "update"  -> IF entity = Gone THEN Gone ELSE Put(entity, o.vals)
    [] o.kind = "patch"   -> Put(IF entity = Gone THEN Defaults ELSE entity, o.vals)

ApplyAll(entity, ops) ==
  LET after[n \in 0..Len(ops)] == IF n = 0 THEN entity ELSE ApplyOp(after[n - 1], ops[n])
  IN after[Len(ops)]

\* An operation that is not in a log yet has no id.
NewOp(d, kind, vals, ts, again, v) ==
  [id |-> <<d, 0>>, dev |-> d, ts |-> ts, kind |-> kind, vals |-> vals,
   again |-> again, clock |-> v]

IdsOf(ops) == {o.id : o \in ToSet(ops)}
IsDelete(o) == o.kind = "delete"
IsUpdate(o) == o.kind = "update"
Deletions(ops) == {o \in ToSet(ops) : IsDelete(o)}
Recreations(ops) == {o \in ToSet(ops) : o.again}
OnlyUpdates(ops) == \A o \in ToSet(ops) : IsUpdate(o)
FirstOf(ops, S) == Kept(ops, S)[1]
LastOf(ops, S) == Last(Kept(ops, S))

MaxTs(ops) == Max({0} \cup {o.ts : o \in ToSet(ops)})
MergeAll(v, ops) == [c \in Client |-> Max({v[c]} \cup {o.clock[c] : o \in ToSet(ops)})]
FieldsOf(ops) == UNION {DOMAIN o.vals : o \in ToSet(ops)}

----------------------------------------------------------------------------
(* The log *)

OpsOf(rows) == [i \in DOMAIN rows |-> rows[i].op]
OpsWith(rows, S) == OpsOf(Kept(rows, {r \in ToSet(rows) : r.st \in S}))

Pending(rows) == OpsWith(rows, {"pending"})

\* getUnsynced rows of the given operations are rejected.
Reject(rows, ids) ==
  [i \in DOMAIN rows |-> IF rows[i].op.id \in ids /\ rows[i].st = "pending"
                         THEN [rows[i] EXCEPT !.st = "rejected"] ELSE rows[i]]

\* appendMixedSourceBatchSkipDuplicates: a local operation extends the durable clock.
AppendLocal(d, v, o) ==
  LET own == Larger(v.clock[d] + 1, o.clock[d])
      c == [Merge(v.clock, o.clock) EXCEPT ![d] = own]
      row == [op |-> [o EXCEPT !.id = <<d, own>>, !.clock = c], st |-> "pending"]
  IN [v EXCEPT !.log = Append(@, row), !.clock = c]

AppendRemote(v, o) == [v EXCEPT !.log = Append(@, [op |-> o, st |-> "remote"])]

\* One operation, or none.
AppendAny(d, v, ops) == IF ops = <<>> THEN v ELSE AppendLocal(d, v, ops[1])

----------------------------------------------------------------------------
(* Detection *)

\* getEntityFrontierWithOps and buildEntityFrontier: the clock of the last row that was
\* not rejected, with those of all pending ones.
Retained(rows) == OpsWith(rows, {"pending", "synced", "remote"})
Frontier(rows) ==
  LET kept == Retained(rows)
      last == IF kept = <<>> THEN EmptyClock ELSE kept[Len(kept)].clock
  IN MergeAll(last, Pending(rows))

\* checkOpForConflicts: what a downloaded operation is, before any of its batch applies.
\* The server's rows of one entity form a chain, so a row is concurrent with the frontier
\* for the pending operations only, and all rows after it are.
Verdict(rows, r) ==
  LET cmp == Compare(Frontier(rows), r.clock)
  IN CASE cmp \in {"GREATER_THAN", "EQUAL"} -> "skip"
       [] cmp = "LESS_THAN"                 -> "apply"
       [] cmp = "CONCURRENT"                -> "conflict"

----------------------------------------------------------------------------
(* Last write wins *)

Newer(o, p) == o.ts > p.ts \/ (o.ts = p.ts /\ o.dev > p.dev)

\* planLwwConflictResolutions: the greater timestamp wins, on a tie the greater client.
Newest(ops) == FirstOf(ops, {o \in ToSet(ops) : o.ts = MaxTs(ops)})
LocalWins(mine, r) == Newer(Newest(mine), r)

\* Faulty variant: the clock covers one's own operations only.
AboveMine(d, ops) == Increment(MergeAll(EmptyClock, Kept(ops, {o \in ToSet(ops) : o.dev = d})), d)

\* mergeAndIncrementClocks of both sides.
Above(d, ops) == Increment(MergeAll(EmptyClock, ops), d)

\* _createLocalWinUpdateOp, _createReplacementDeleteOp: the winning side as one operation
\* that dominates both, or none.
LocalWinOp(d, entity, mine, r) ==
  LET ts == MaxTs(mine)
      v == Above(d, Append(mine, r))
      newest == {o \in Deletions(mine) : o.ts = ts}
      again == IsDelete(r) \/ Recreations(mine) # {}
  IN IF entity # Gone THEN <<NewOp(d, "replace", entity, ts, again, v)>>
     ELSE IF newest # {} THEN <<NewOp(d, "delete", FirstOf(mine, newest).vals, ts, FALSE, v)>>
     ELSE IF IsDelete(r) THEN <<NewOp(d, "replace", r.vals, ts, again, v)>>
     ELSE <<>>

\* Faulty variant: an edit that wins over a delete brings no more than its own fields back.
FoldFromNothing(base, ops) == ApplyAll(IF ops = <<>> THEN base ELSE ops[1].vals, ops)

\* The edits laid over an entity, in order.
Fold(base, ops) == ApplyAll(base, Kept(ops, ToSet(ops) \ Deletions(ops)))

\* convertLocalDeleteRemoteUpdatesToLww, over all winners of the entity: every edit that
\* wins over a local delete becomes the deleted task with all of them laid over it.
Recreated(o, vals) == [o EXCEPT !.kind = "replace", !.vals = vals, !.again = TRUE]

\* Faulty variant: edits that win over a local delete are stored as they are.
Unconverted(mine, winners) == winners

Converted(mine, winners) ==
  IF Deletions(mine) = {} THEN winners
  ELSE LET task == Fold(FirstOf(mine, Deletions(mine)).vals, winners)
       IN [i \in DOMAIN winners |-> IF IsDelete(winners[i]) THEN winners[i]
                                    ELSE Recreated(winners[i], task)]

\* _createRemoteWinCompensationForRejectedTaskRecreation: a remote edit that wins over a
\* local recreation is sent again as a recreation.
NeedsCompensation(mine, r) == ~IsDelete(r) /\ Recreations(mine) # {}
Compensation(d, mine, r) ==
  NewOp(d, "replace", Fold(FirstOf(mine, Recreations(mine)).vals, <<r>>), r.ts, TRUE,
        Above(d, Append(mine, r)))

\* selectTaskReplacementCompensations: a losing replacement is applied before the winning.
AppliesLoser(d, entity, mine, r) ==
  LET w == LocalWinOp(d, entity, mine, r)
  IN /\ r.kind = "replace" /\ ~r.again /\ Deletions(mine) = {}
     /\ w # <<>> /\ w[1].kind = "replace" /\ ~w[1].again

\* foldFieldOps: remote winners are laid over a replacement made here, if they are nothing
\* but plain edits of plain fields.
Overlaid(o, winners) ==
  IF o.kind = "replace" /\ OnlyUpdates(winners) /\ FieldsOf(winners) \subseteq Plain
  THEN [o EXCEPT !.vals = Fold(@, winners)] ELSE o

----------------------------------------------------------------------------
(* Field patches *)

Writers(ops, f) == {o \in ToSet(ops) : f \in DOMAIN o.vals}

\* localWinningFieldGroups: the last local operation that wrote a field, if it is newer
\* than every remote write of it.
FieldWinner(mine, remote, f, o) ==
  /\ o = LastOf(mine, Writers(mine, f))
  /\ \A r \in Writers(remote, f) : Newer(o, r)

\* Faulty variant: the local side's fields win whatever the remote side has written.
AllFields(mine, remote, o) == DOMAIN o.vals

WonFields(mine, remote, o) ==
  {f \in DOMAIN o.vals : FieldWinner(mine, remote, f, o)}

\* In the order of their timestamps.
PatchWinners(mine, remote) ==
  FlattenSeq([t \in 1..MaxTime |->
    Kept(mine, {o \in ToSet(mine) : o.ts = t /\ WonFields(mine, remote, o) # {}})])

\* isFieldPatchEligible and the rest of _tryCreateFieldPatch, over all of the conflicts.
Patchable(entity, mine, remote) ==
  /\ OnlyUpdates(mine) /\ Deletions(remote) = {} /\ entity # Gone
  /\ PatchWinners(mine, remote) # <<>>

\* The patches, each with its own edit's timestamp; their clocks are chained.
Resends(d, mine, remote) ==
  LET v == Above(d, mine \o remote)
  IN [i \in DOMAIN PatchWinners(mine, remote) |->
        LET o == PatchWinners(mine, remote)[i]
        IN NewOp(d, "patch", [f \in WonFields(mine, remote, o) |-> o.vals[f]], o.ts, FALSE,
                 [c \in Client |-> IF c = d THEN v[d] + i - 1 ELSE v[c]])]

----------------------------------------------------------------------------
(* Resolution of a downloaded batch: what is written to the log, in order, and how *)

Steps(ops, how) == [i \in DOMAIN ops |-> [op |-> ops[i], how |-> how]]

\* Whoever wins stays whole: losers are only stored, a local winner is on screen already
\* unless it compensates a remote operation that is applied before it.
WholeSteps(d, entity, mine, remote) ==
  LET beaten == {r \in ToSet(remote) : LocalWins(mine, r)}
      applied == {r \in beaten : AppliesLoser(d, entity, mine, r)}
      won == Kept(remote, beaten)
      lost == Kept(remote, ToSet(remote) \ beaten)
      resent == Kept(lost, {r \in ToSet(lost) : NeedsCompensation(mine, r)})
      converted == Converted(mine, lost)
      winners == Kept(converted, {w \in ToSet(converted) : w.id \notin IdsOf(resent)})
      over(ops) == [i \in DOMAIN ops |-> Overlaid(ops[i], winners)]
      wins(r) == Steps(over(LocalWinOp(d, entity, mine, r)), IF r \in applied THEN "apply" ELSE "keep")
      again == [i \in DOMAIN resent |-> Compensation(d, mine, resent[i])]
      later == IF won = <<>> /\ resent = <<>> THEN <<>> ELSE winners
      first == IF later = <<>> THEN winners ELSE <<>>
  IN Steps(Kept(won, beaten \ applied), "lose")
     \o Steps(first \o resent \o Kept(won, applied), "remote")
     \o FlattenSeq([i \in DOMAIN won |-> wins(won[i])])
     \o Steps(over(again), "apply") \o Steps(later, "remote")

\* Both sides keep their fields: the remote operations apply as they are, the local
\* edits that are newer are sent again on top.
PatchSteps(d, mine, remote) ==
  Steps(remote, "remote") \o Steps(Resends(d, mine, remote), "apply")

\* The log, the screen and the clock of device d after one of these.
Take(d, v, s) ==
  LET w == IF s.how \in {"lose", "remote"} THEN AppendRemote(v, s.op)
           ELSE AppendLocal(d, v, s.op)
  IN [w EXCEPT !.live = IF s.how \in {"remote", "apply"} THEN ApplyOp(@, s.op) ELSE @]

State(d) == [log |-> log[d], live |-> live[d], clock |-> clock[d]]

TakeFrom(d, v, steps) ==
  LET after[n \in 0..Len(steps)] == IF n = 0 THEN v ELSE Take(d, after[n - 1], steps[n])
  IN after[Len(steps)]

TakeAll(d, steps) ==
  LET applied == Kept(steps, {s \in ToSet(steps) : s.how = "remote"})
  IN [TakeFrom(d, State(d), steps) EXCEPT !.clock = MergeAll(@, OpsOf(applied))]

\* _reemitSurvivingLocalFields: fields of a losing local edit that are still on screen.
Surviving(d, entity, mine, r) ==
  LET fields == {f \in FieldsOf(mine) : /\ f \in DOMAIN entity
                                        /\ entity[f] = LastOf(mine, Writers(mine, f)).vals[f]}
  IN IF r.kind \in {"patch", "replace"} /\ OnlyUpdates(mine) /\ fields # {}
     THEN <<NewOp(d, "patch", [f \in fields |-> entity[f]], MaxTs(mine), FALSE,
                  Above(d, Append(mine, r)))>>
     ELSE <<>>

\* The resolution is final: the operations it decided about are rejected.
Finalize(d, v, mine, remote) ==
  LET whole == ~Patchable(live[d], mine, remote)
      lost == Kept(remote, {r \in ToSet(remote) : whole /\ ~LocalWins(mine, r)})
      beaten == {r \in ToSet(remote) : /\ whole /\ LocalWins(mine, r)
                                       /\ ~AppliesLoser(d, live[d], mine, r)}
      rows == [i \in DOMAIN v.log |-> IF v.log[i].op.id \in IdsOf(mine) \cup {r.id : r \in beaten}
                                      THEN [v.log[i] EXCEPT !.st = "rejected"] ELSE v.log[i]]
      again == IF lost = <<>> THEN <<>> ELSE Surviving(d, v.live, mine, lost[1])
  IN AppendAny(d, [v EXCEPT !.log = rows], again)

OfVerdict(d, news, verdict) ==
  Kept(news, {r \in ToSet(news) : Verdict(log[d], r) = verdict})

\* processRemoteOps up to the last append, and to its end.
Stored(d, news) ==
  LET mine == Pending(log[d])
      remote == OfVerdict(d, news, "conflict")
      steps == IF remote = <<>> THEN <<>>
               ELSE IF Patchable(live[d], mine, remote) THEN PatchSteps(d, mine, remote)
               ELSE WholeSteps(d, live[d], mine, remote)
  IN TakeAll(d, steps \o Steps(OfVerdict(d, news, "apply"), "remote"))

Processed(d, news) ==
  LET remote == OfVerdict(d, news, "conflict")
  IN IF remote = <<>> THEN Stored(d, news)
     ELSE Finalize(d, Stored(d, news), Pending(log[d]), remote)

----------------------------------------------------------------------------
(* The user *)

Act(d, o) ==
  LET v == AppendLocal(d, State(d), o)
  IN /\ log' = [log EXCEPT ![d] = v.log]
     /\ live' = [live EXCEPT ![d] = ApplyOp(@, o)]
     /\ clock' = [clock EXCEPT ![d] = v.clock]
     /\ time' = [time EXCEPT ![d] = o.ts]
     /\ todo' = [todo EXCEPT ![d] = Tail(@)]
     /\ UNCHANGED <<shared, cursor, answer, attempts, faults>>

Edit(d) ==
  /\ todo[d] # <<>> /\ Head(todo[d]) # {} /\ live[d] # Gone
  /\ \E ts \in (time[d] + 1)..MaxTime :
       Act(d, NewOp(d, "update", [f \in Head(todo[d]) |-> <<d, clock[d][d] + 1>>], ts, FALSE,
                    Increment(clock[d], d)))

Delete(d) ==
  /\ todo[d] # <<>> /\ Head(todo[d]) = {} /\ live[d] # Gone
  /\ \E ts \in (time[d] + 1)..MaxTime :
       Act(d, NewOp(d, "delete", live[d], ts, FALSE, Increment(clock[d], d)))

----------------------------------------------------------------------------
(* Download and upload *)

Idle == [step |-> "idle", taken |-> {}, known |-> {}, refused |-> <<>>, upto |-> 0,
         seen |-> EmptyClock]
End == Len(shared)

\* Downloaded rows of other devices that the log does not have.
News(d, upto) ==
  Kept(SubSeq(shared, cursor[d] + 1, upto),
       {o \in ToSet(shared) : o.dev # d /\ o.id \notin IdsOf(OpsOf(log[d]))})

Becomes(d, v) ==
  /\ log' = [log EXCEPT ![d] = v.log]
  /\ live' = [live EXCEPT ![d] = v.live]
  /\ clock' = [clock EXCEPT ![d] = v.clock]

Download(d) ==
  /\ answer[d].step = "idle" /\ cursor[d] < End
  /\ Becomes(d, Processed(d, News(d, End)))
  /\ cursor' = [cursor EXCEPT ![d] = End]
  /\ UNCHANGED <<shared, answer, attempts, time, todo, faults>>

\* detectConflict: a row is accepted if it dominates the entity's last one, or is the same
\* device's at the same clock; an id that is known is a duplicate.
Accepts(rows, o) ==
  rows = <<>> \/ LET last == rows[Len(rows)]
                 IN \/ Compare(o.clock, last.clock) = "GREATER_THAN"
                    \/ Compare(o.clock, last.clock) = "EQUAL" /\ o.dev = last.dev

Serve(acc, o) ==
  IF o.id \in IdsOf(acc.rows) THEN acc
  ELSE IF Accepts(acc.rows, o) THEN [acc EXCEPT !.rows = Append(@, o)]
  ELSE [acc EXCEPT !.refused = Append(@, [op |-> o, clock |-> acc.rows[Len(acc.rows)].clock])]

Served(rows, ops) ==
  LET after[n \in 0..Len(ops)] == IF n = 0 THEN [rows |-> rows, refused |-> <<>>]
                                  ELSE Serve(after[n - 1], ops[n])
  IN after[Len(ops)]

Known(ops) == IdsOf(ops) \cap IdsOf(shared)

\* The server takes the pending operations, one by one; its answer is on the way.
Upload(d) ==
  /\ answer[d].step = "idle" /\ Pending(log[d]) # <<>>
  /\ LET acc == Served(shared, Pending(log[d]))
     IN /\ shared' = acc.rows
        /\ answer' = [answer EXCEPT ![d] =
             [Idle EXCEPT !.step = "sent", !.taken = IdsOf(acc.rows) \ IdsOf(shared),
                          !.known = Known(Pending(log[d])),
                          !.refused = acc.refused, !.upto = Len(acc.rows)]]
  /\ UNCHANGED <<log, live, clock, cursor, attempts, time, todo, faults>>

Refused(d) == OpsOf(answer[d].refused)

\* The refusals whose operations are still pending.
Open(d) ==
  Kept(answer[d].refused,
       {x \in ToSet(answer[d].refused) : x.op.id \in IdsOf(Pending(log[d]))})

\* uploadPendingOps processes the server's new rows while all that was uploaded is still
\* pending ...
ProcessPiggyback(d) ==
  /\ answer[d].step = "sent"
  /\ Becomes(d, Processed(d, News(d, answer[d].upto)))
  /\ cursor' = [cursor EXCEPT ![d] = Larger(@, answer[d].upto)]
  /\ answer' = [answer EXCEPT ![d].step = "processed"]
  /\ UNCHANGED <<shared, attempts, time, todo, faults>>

Synced(rows, ids) ==
  [i \in DOMAIN rows |-> IF rows[i].op.id \in ids /\ rows[i].st = "pending"
                         THEN [rows[i] EXCEPT !.st = "synced"] ELSE rows[i]]

\* Faulty variant: duplicates stay pending.
AcknowledgedTaken(a) == a.taken

Acknowledged(a) == a.taken \cup a.known

\* ... and then acknowledges what was taken and, as handleRejectedOps starts with them, the
\* duplicates; the attempts are forgotten if nothing was refused for any reason.
Acknowledge(d) ==
  /\ answer[d].step = "processed"
  /\ log' = [log EXCEPT ![d] = Synced(@, Acknowledged(answer[d]))]
  /\ answer' = [answer EXCEPT ![d] = IF @.refused = <<>> THEN Idle ELSE [@ EXCEPT !.step = "refused"]]
  /\ attempts' = IF answer[d].refused = <<>> /\ answer[d].known = {}
                 THEN [attempts EXCEPT ![d] = 0] ELSE attempts
  /\ UNCHANGED <<shared, live, clock, cursor, time, todo, faults>>

\* handleRejectedOps: nothing is left to do, or the rows that explain the refusal are
\* downloaded.
NothingOpen(d) ==
  /\ answer[d].step \in {"refused", "fetched"} /\ Open(d) = <<>>
  /\ answer' = [answer EXCEPT ![d] = Idle]
  /\ UNCHANGED <<shared, log, live, clock, cursor, attempts, time, todo, faults>>

\* The clocks the replacement has to dominate: those the server named, and all rows' if
\* a download brings nothing and they are not covered.
Seen(d) ==
  LET named == MergeAll(EmptyClock, Open(d))
      covered == Compare(clock[d], named) \in {"GREATER_THAN", "EQUAL"}
  IN IF News(d, End) = <<>> /\ ~covered THEN MergeAll(named, shared) ELSE named

\* After too many attempts the operations are rejected for good.
Refetch(d) ==
  /\ answer[d].step = "refused" /\ Open(d) # <<>>
  /\ IF attempts[d] < MaxAttempts
     THEN /\ answer' = [answer EXCEPT ![d].step = "fetched", ![d].seen = Seen(d)]
          /\ Becomes(d, Processed(d, News(d, End)))
          /\ cursor' = [cursor EXCEPT ![d] = End]
          /\ attempts' = [attempts EXCEPT ![d] = @ + 1]
     ELSE /\ log' = [log EXCEPT ![d] = Reject(@, IdsOf(Refused(d)))]
          /\ answer' = [answer EXCEPT ![d] = Idle]
          /\ attempts' = [attempts EXCEPT ![d] = 0]
          /\ UNCHANGED <<live, clock, cursor>>
  /\ UNCHANGED <<shared, time, todo, faults>>

\* Faulty variant: the replacement repeats the refused values, whatever is on screen now.
ReplacementOfOps(d, ops) ==
  <<NewOp(d, "replace", Fold(IF live[d] = Gone THEN Defaults ELSE live[d], ops), MaxTs(ops),
          Recreations(ops) # {}, Increment(Merge(MergeAll(clock[d], ops), answer[d].seen), d))>>

\* resolveSupersededLocalOps: one operation in place of the refused ones, or none.
Replacement(d, ops) ==
  LET v == Increment(Merge(MergeAll(clock[d], ops), answer[d].seen), d)
      ts == MaxTs(ops)
  IN IF ToSet(ops) = Deletions(ops) THEN <<NewOp(d, "delete", ops[1].vals, ts, FALSE, v)>>
     ELSE IF live[d] = Gone THEN <<>>
     ELSE IF OnlyUpdates(ops)
     THEN <<NewOp(d, "patch", [f \in FieldsOf(ops) |-> live[d][f]], ts, FALSE, v)>>
     ELSE <<NewOp(d, "replace", live[d], ts, Recreations(ops) # {}, v)>>

Supersede(d) ==
  /\ answer[d].step = "fetched" /\ Open(d) # <<>>
  /\ LET ops == OpsOf(Open(d))
         v == [State(d) EXCEPT !.log = Reject(@, IdsOf(ops))]
     IN Becomes(d, AppendAny(d, v, Replacement(d, ops)))
  /\ answer' = [answer EXCEPT ![d] = Idle]
  /\ UNCHANGED <<shared, cursor, attempts, time, todo, faults>>

----------------------------------------------------------------------------
(* Failures *)

\* The answer is lost, or the app stops before it is processed.
LoseAnswer(d) ==
  /\ answer[d].step # "idle" /\ faults < MaxFaults
  /\ answer' = [answer EXCEPT ![d] = Idle]
  /\ faults' = faults + 1
  /\ UNCHANGED <<shared, log, live, clock, cursor, attempts, time, todo>>

\* hydrateStore replays every row, the rejected ones too: each was on screen once.
Replay(rows) == ApplyAll(Original, OpsOf(rows))

\* A crash after the rows of a batch are written and before the resolution is final.
CrashMidway(d) ==
  /\ d \in Crashers /\ faults < MaxFaults
  /\ answer[d].step = "idle" /\ cursor[d] < End /\ News(d, End) # <<>>
  /\ LET v == Stored(d, News(d, End))
     IN Becomes(d, [v EXCEPT !.live = Replay(v.log)])
  /\ attempts' = [attempts EXCEPT ![d] = 0]
  /\ faults' = faults + 1
  /\ UNCHANGED <<shared, cursor, answer, time, todo>>

----------------------------------------------------------------------------

Init ==
  /\ shared = <<>>
  /\ log = [d \in Client |-> <<>>] /\ live = [d \in Client |-> Original]
  /\ clock = [d \in Client |-> EmptyClock] /\ cursor = [d \in Client |-> 0]
  /\ answer = [d \in Client |-> Idle] /\ attempts = [d \in Client |-> 0]
  /\ time = [d \in Client |-> 0] /\ todo \in Plans /\ faults = 0

User(d) == Edit(d) \/ Delete(d)
Answered(d) == ProcessPiggyback(d) \/ Acknowledge(d) \/ NothingOpen(d) \/ Refetch(d) \/ Supersede(d)
Fault(d) == LoseAnswer(d) \/ CrashMidway(d)

CaughtUp(d) == cursor[d] = End /\ Pending(log[d]) = <<>> /\ answer[d] = Idle
Quiet == \A d \in Client : CaughtUp(d)
Finished == Quiet /\ UNCHANGED vars

Next == Finished \/ \E d \in Client : User(d) \/ Download(d) \/ Upload(d) \/ Answered(d) \/ Fault(d)

Spec == Init /\ [][Next]_vars

\* While a device is not caught up, some step of a sync is taken (that there is one, the
\* check for deadlock shows).
Syncs == todo' = todo /\ faults' = faults
FairSpec == Spec /\ ([]<>Quiet \/ []<><<Syncs>>_vars)

----------------------------------------------------------------------------
(* Properties *)

\* Every variable has its type; every row has got an id and a status.
TypeOK ==
  /\ clock \in [Client -> Clock] /\ cursor \in [Client -> 0..End]
  /\ attempts \in [Client -> 0..MaxAttempts]
  /\ time \in [Client -> 0..MaxTime] /\ todo \in [Client -> Seq(SUBSET Field)] /\ faults \in 0..MaxFaults
  /\ \A d \in Client : /\ live[d] = Gone \/ DOMAIN live[d] = Field
                       /\ \A i \in DOMAIN log[d] :
                            /\ log[d][i].op.id \in Client \X (Nat \ {0})
                            /\ log[d][i].st \in {"pending", "synced", "rejected", "remote"}

\* A start rebuilds what is on screen.
LiveIsReplay == \A d \in Client : live[d] = Replay(log[d])

\* Devices that have nothing left to sync show the same task.
CaughtUpDevicesAgree ==
  \A d, e \in Client : CaughtUp(d) /\ CaughtUp(e) => live[d] = live[e]

Acts == UNION {{log[d][i].op : i \in DOMAIN log[d]} : d \in Client}
Edits == {o \in Acts : o.kind = "update"}
EditsOf(f) == {o \in Edits : f \in DOMAIN o.vals}
NoSkew == \A o, p \in Edits : p.clock[o.dev] >= o.clock[o.dev] => o = p \/ Newer(p, o)
LastWrite(f) == CHOOSE o \in EditsOf(f) : \A p \in EditsOf(f) : o = p \/ Newer(o, p)

\* If nobody deletes the task, every field ends with the newest edit of it.
NewestEditSurvives ==
  Quiet /\ NoSkew /\ (\A o \in Acts : ~IsDelete(o)) =>
    \A d \in Client, f \in Field :
      EditsOf(f) # {} => live[d][f] = LastWrite(f).vals[f]

\* The replacement of a refused operation is accepted before the attempts run out, so no
\* edit is given up: its clock dominates all that the server has named.
NeverGivesUp == \A d \in Client : attempts[d] < MaxAttempts
\* When the users stop, the devices do too: replacements do not go on refusing each other.
Settles == <>[]Quiet
=============================================================================
