----------------------------- MODULE FlushLsns -----------------------------
(***************************************************************************)
(* How a MooncakeTable decides which LSN a persisted snapshot may claim.   *)
(*                                                                         *)
(* Flushes start in LSN order and finish in any order; mooncake snapshots  *)
(* take what has finished so far, run detached from the table, and decide  *)
(* whether their result may be persisted.  This is the contract of that    *)
(* bookkeeping, on its own: the caller hands out flush LSNs in increasing  *)
(* order, and in return a persisted payload holds the data of exactly the  *)
(* flushes at or below the LSN it claims.                                  *)
(***************************************************************************)
EXTENDS FlushLsnOps

CONSTANT MaxSlices      \* most flushes in flight when one transaction commits

ASSUME MaxSlicesAssumption == MaxSlices \in Nat \ {0}

VARIABLES
  fl,                   \* the MooncakeTable's flush-LSN fields
  new_disk_slices,      \* next_snapshot_task: disk slices per flush LSN
  task,                 \* the SnapshotTask of the mooncake snapshot in flight
  snap,                 \* SnapshotTableState: flush LSNs and unpersisted slices
  payload,              \* the last PersistenceSnapshotPayload created
  top,                  \* the largest flush LSN handed out by the caller
  written               \* slices each flush LSN was announced with (history)

vars == <<fl, new_disk_slices, task, snap, payload, top, written>>

NoSlices == [l \in Lsn |-> 0]
Slices   == [Lsn -> Nat]

IdleTask == [running |-> FALSE, new_flush_lsn |-> NoLsn,
             new_largest_flush_lsn |-> NoLsn, slices |-> NoSlices, ongoing |-> {}]

AddSlices(a, b) == [l \in Lsn |-> a[l] + b[l]]

(* Types: the fields of MooncakeTable, and the slices of each LSN along the  *)
(* way from the table to a payload                                           *)
TypeOK ==
  /\ fl \in FlushTracker
  /\ new_disk_slices \in Slices
  /\ task \in [running : BOOLEAN, new_flush_lsn : OptLsn,
               new_largest_flush_lsn : OptLsn, slices : Slices, ongoing : SUBSET Lsn]
  /\ snap \in [flush_lsn : OptLsn, largest_flush_lsn : OptLsn, slices : Slices]
  /\ payload \in [flush_lsn : OptLsn, slices : Slices]
  /\ top \in OptLsn
  /\ written \in Slices
-----------------------------------------------------------------------------
(* A table starts empty, or is loaded at the LSN an earlier run persisted;   *)
(* the iceberg loader leaves largest_flush_lsn unset.                        *)
Init ==
  \E loaded \in OptLsn :
    /\ fl = InitFlushTracker
    /\ new_disk_slices = NoSlices
    /\ task = IdleTask
    /\ snap = [flush_lsn |-> loaded, largest_flush_lsn |-> NoLsn, slices |-> NoSlices]
    /\ payload = [flush_lsn |-> loaded, slices |-> NoSlices]
    /\ top = loaded
    /\ written = NoSlices

(* flush(lsn) with rows in the mem slice: one disk slice starts writing      *)
StartFlush(lsn) ==
  /\ lsn > top
  /\ fl' = InsertOngoingFlushLsn(fl, lsn, 1)
  /\ written' = [written EXCEPT ![lsn] = 1]
  /\ top' = lsn
  /\ UNCHANGED <<new_disk_slices, task, snap, payload>>

(* flush(lsn) with nothing to write, or with lsn already being written       *)
EmptyFlush(lsn) ==
  /\ lsn >= top
  /\ fl' = TrySetNextFlushLsn(fl, lsn)
  /\ top' = lsn
  /\ UNCHANGED <<new_disk_slices, task, snap, payload, written>>

(* A streaming transaction commits at lsn with count flushes in flight, the  *)
(* last one started by the commit itself.  Files that finished before the    *)
(* commit (early of them) join the next snapshot with the commit.            *)
CommitStream(lsn, count, early) ==
  /\ lsn > top
  /\ fl' = LET inserted == InsertOngoingFlushLsn(fl, lsn, count)
           IN  IF early > 0 THEN TrySetLargestFlushLsn(inserted, lsn) ELSE inserted
  /\ new_disk_slices' = [new_disk_slices EXCEPT ![lsn] = early]
  /\ written' = [written EXCEPT ![lsn] = count + early]
  /\ top' = lsn
  /\ UNCHANGED <<task, snap, payload>>

(* One flush at lsn has written its slice: apply_flush_result, and the       *)
(* committed branch of apply_stream_flush_result.                            *)
FinishFlush(lsn) ==
  /\ fl.ongoing_flush_lsns[lsn] > 0
  /\ fl' = TrySetNextFlushLsn(RemoveOngoingFlushLsn(fl, lsn), lsn)
  /\ new_disk_slices' = [new_disk_slices EXCEPT ![lsn] = @ + 1]
  /\ UNCHANGED <<task, snap, payload, top, written>>

(* create_snapshot_impl: take the next task, at most one at a time           *)
CreateSnapshot ==
  /\ ~task.running
  /\ fl.new_flush_lsn # NoLsn \/ new_disk_slices # NoSlices
  /\ task' = [running |-> TRUE, new_flush_lsn |-> fl.new_flush_lsn,
              new_largest_flush_lsn |-> fl.new_largest_flush_lsn,
              slices |-> new_disk_slices, ongoing |-> OngoingLsns(fl)]
  /\ fl' = ResetForNextTask(fl)
  /\ new_disk_slices' = NoSlices
  /\ UNCHANGED <<snap, payload, top, written>>

(* A slip of Persistable: slices of a later, finished flush are not noticed. *)
PersistableByOngoing(s, ongoing) == \A l \in ongoing : s.flush_lsn < l

(* The snapshot may be persisted: no flush at or below its LSN was in flight *)
(* when the task was taken, and every LSN it has heard of is covered.        *)
Persistable(s, ongoing) ==
  /\ \A l \in ongoing : s.flush_lsn < l
  /\ s.flush_lsn = s.largest_flush_lsn

(* update_snapshot: apply the task to the snapshot; unless the caller asked   *)
(* to skip it, a persistable snapshot yields a payload.                      *)
UpdateSnapshot(skip) ==
  LET s == [flush_lsn |-> IF task.new_flush_lsn # NoLsn THEN task.new_flush_lsn
                                                        ELSE snap.flush_lsn,
            largest_flush_lsn |-> LargerLsn(snap.largest_flush_lsn, task.new_largest_flush_lsn),
            slices |-> AddSlices(snap.slices, task.slices)]
  IN  /\ task.running
      /\ snap' = s
      /\ payload' = IF ~skip /\ Persistable(s, task.ongoing)
                    THEN [flush_lsn |-> s.flush_lsn, slices |-> s.slices]
                    ELSE payload
      /\ task' = IdleTask
      /\ UNCHANGED <<fl, new_disk_slices, top, written>>

Next ==
  \/ \E lsn \in Lsn : StartFlush(lsn)
  \/ \E lsn \in Lsn : EmptyFlush(lsn)
  \/ \E lsn \in Lsn, count \in 1 .. MaxSlices, early \in 0 .. 1 :
       CommitStream(lsn, count, early)
  \/ \E lsn \in Lsn : FinishFlush(lsn)
  \/ CreateSnapshot
  \/ \E skip \in BOOLEAN : UpdateSnapshot(skip)

Spec == Init /\ [][Next]_vars

(* Spawned flush and snapshot tasks run to completion, and the periodic      *)
(* timer keeps asking for snapshots.  Nothing is assumed of the source.      *)
Fairness ==
  /\ \A lsn \in Lsn : WF_vars(FinishFlush(lsn))
  /\ WF_vars(CreateSnapshot)
  /\ WF_vars(\E skip \in BOOLEAN : UpdateSnapshot(skip))

FairSpec == Spec /\ Fairness
-----------------------------------------------------------------------------
(* "all flushes with LSN <= new_flush_lsn have finished": the flush LSN of    *)
(* the next task, of the task in flight and of the snapshot is below every   *)
(* flush that is still being written.                                        *)
FlushLsnFinished ==
  \A l \in OngoingLsns(fl) :
    /\ fl.new_flush_lsn < l
    /\ task.new_flush_lsn < l
    /\ snap.flush_lsn < l

(* A payload holds every slice of every flush at or below the LSN it claims, *)
(* and no slice of a later one, however flushes and snapshots overlapped.    *)
PayloadExact ==
  \A l \in Lsn :
    payload.slices[l] = IF l <= payload.flush_lsn THEN written[l] ELSE 0

(* Once no flush is in flight, no LSN is lost among the parked ones: the      *)
(* flush LSN on its way to the snapshot is the largest one ever recorded.    *)
QuiescentCaughtUp ==
  OngoingLsns(fl) = {} =>
    LargerLsn(fl.new_flush_lsn, LargerLsn(task.new_flush_lsn, snap.flush_lsn))
      >= LargerLsn(fl.new_largest_flush_lsn,
                   LargerLsn(task.new_largest_flush_lsn, snap.largest_flush_lsn))

(* The assertions of try_set_next_flush_lsn, insert_ongoing_flush_lsn and     *)
(* flush hold whenever the code can reach them.                              *)
AssertionsHold ==
  \A l \in Lsn :
    /\ fl.ongoing_flush_lsns[l] > 0 => RecordAsserts(RemoveOngoingFlushLsn(fl, l), l)
    /\ l >= top => RecordAsserts(fl, l) /\ FlushAsserts(fl, l) /\ InsertAsserts(fl, l)

(* Invariant-1 of the snapshot: its flush LSN never regresses, and neither    *)
(* does the LSN of the payloads handed to persistence.                       *)
FlushLsnMonotone ==
  [][snap.flush_lsn <= snap.flush_lsn' /\ payload.flush_lsn <= payload.flush_lsn']_vars

(* Every slice that was announced is eventually covered by the snapshot.     *)
EventuallyCovered ==
  \A l \in Lsn : (written[l] > 0) ~> (snap.flush_lsn >= l)
=============================================================================
