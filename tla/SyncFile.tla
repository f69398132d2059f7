------------------------------ MODULE SyncFile ------------------------------
(***************************************************************************)
(* The file that file-based sync keeps in the user's folder, and the pure  *)
(* decisions taken over it: file-based-sync-gap.util.ts, the envelope that *)
(* file-based-sync-adapter.service.ts builds, and the snapshot planning of *)
(* packages/sync-core/src/download-planning.ts.                            *)
(*                                                                         *)
(* The application state is the set of edits it reflects (the edits are on *)
(* different entities; conflicts between them are another component's).    *)
(* EmptyClock stands for a clock that is not recorded, Blank for no file.  *)
(***************************************************************************)
EXTENDS SyncClock

CONSTANTS MaxEdits,    \* edits of each device
          MaxRecent    \* MAX_RECENT_OPS

ASSUME SyncFileAssumption == MaxEdits \in [Client -> Nat] /\ MaxRecent \in Nat \ {0}

Edit == UNION {{d} \X (1..MaxEdits[d]) : d \in Client}      \* the n-th edit of its author

Blank == [sv |-> 0, clock |-> EmptyClock, base |-> EmptyClock, by |-> 0,
          state |-> {}, recent |-> <<>>, whole |-> FALSE]

File == [sv : Nat, clock : Clock, base : Clock, by : Client \cup {0}, state : SUBSET Edit,
         recent : Seq([sv : Nat, ops : SUBSET Edit]), whole : BOOLEAN]

-----------------------------------------------------------------------------
(* Writing: _buildMergedSyncData and appendRecentOpsAtBatchBoundary *)

OpCount(batches) == Cardinality(UNION {{i} \X batches[i].ops : i \in DOMAIN batches})

From(batches, k) == SubSeq(batches, k, Len(batches))

\* The newest whole batches that fit, and always the newest one.
Trim(batches) ==
  LET fits == {k \in DOMAIN batches : OpCount(From(batches, k)) <= MaxRecent} \cup {Len(batches)}
  IN  From(batches, CHOOSE k \in fits : \A j \in fits : k <= j)

Appended(file, d, ops, clock, state) ==
  LET all == Append(file.recent, [sv |-> file.sv + 1, ops |-> ops])
  IN  [sv |-> file.sv + 1, clock |-> clock, base |-> file.base, by |-> d, state |-> state,
       recent |-> Trim(all),
       whole |-> file.whole \/ file.recent = <<>> \/ Trim(all) # all]

\* _uploadSnapshot: a full-state operation starts the file afresh.
Replacement(d, clock, state) ==
  [Blank EXCEPT !.sv = 1, !.clock = clock, !.base = clock, !.by = d, !.state = state]

-----------------------------------------------------------------------------
(* Reading.  seen is the clock of the file this device last committed. *)

BaseUnseen(base, seen) ==
  /\ base # EmptyClock /\ seen # EmptyClock
  /\ Compare(base, seen) \in {"GREATER_THAN", "CONCURRENT"}

OwnUploadsMissing(file, d, seen) ==
  seen # EmptyClock /\ file.clock[d] < seen[d] /\ ~BaseUnseen(file.base, seen)

\* doesRemoteExtendLastSeen
ExtendsLastSeen(file, expected, seen) ==
  /\ seen # EmptyClock /\ expected > 0 /\ file.sv >= expected
  /\ file.base # EmptyClock \/ file.sv # 1
  /\ ~BaseUnseen(file.base, seen)
  /\ Compare(file.clock, seen) \in {"GREATER_THAN", "EQUAL"}

OldestKept(file) == IF file.recent = <<>> THEN 0 ELSE file.recent[1].sv

\* detectDownloadGap; baseline is the local clock while no file clock is recorded.
GapDetected(file, d, since, expected, seen, baseline, maybeTrimmed) ==
  LET known == seen # EmptyClock
      order == Compare(file.clock, seen)
  IN  \/ expected > 0 /\ file.sv < expected /\ ~(known /\ order = "EQUAL")
      \/ since > 0 /\ file.recent = <<>> /\ file.by # d
      \/ since > 0 /\ OldestKept(file) > since + 1
      \/ since > 0 /\ OldestKept(file) = since + 1 /\ ~file.whole /\ maybeTrimmed
      \/ since > 0 /\ known /\ order \notin {"EQUAL", "GREATER_THAN"} /\ file.by # d
      \/ since > 0 /\ BaseUnseen(file.base, IF known THEN seen ELSE baseline)

\* planSnapshotHydration: the local history already holds the snapshot.
HoldsSnapshot(local, snapshot) ==
  /\ local # EmptyClock /\ snapshot # EmptyClock
  /\ Compare(local, snapshot) \in {"EQUAL", "GREATER_THAN"}

\* _classifySnapshotConflict: the snapshot holds the local history.
SnapshotAhead(local, snapshot) ==
  /\ local # EmptyClock /\ snapshot # EmptyClock
  /\ Compare(snapshot, local) \in {"EQUAL", "GREATER_THAN"}

\* isOpCoveredByLocalClock
Covered(author, opClock, local) == opClock[author] <= local[author]

=============================================================================
