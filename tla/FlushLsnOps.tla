---------------------------- MODULE FlushLsnOps ----------------------------
(***************************************************************************)
(* The flush-LSN bookkeeping of MooncakeTable, as operators on one record. *)
(*                                                                         *)
(* Flushes are detached tasks that finish in any order.  The table keeps   *)
(* the LSNs of the ones in flight and derives from them the flush LSN it   *)
(* may hand to the next mooncake snapshot, which later becomes the LSN the *)
(* persisted (iceberg) table claims.  The operators below are the only     *)
(* code that writes these fields, batch ingestion apart.                   *)
(***************************************************************************)
EXTENDS Naturals, FiniteSetsExt

CONSTANT Lsn            \* the LSNs a source may hand out

ASSUME LsnAssumption == Lsn \subseteq Nat \ {0}

(* None.  LSNs are positive, and the code reads None as 0 everywhere        *)
(* (unwrap_or(0)), so one value serves for both.                            *)
NoLsn == 0

OptLsn == Lsn \cup {NoLsn}

LargerLsn(a, b) == IF a >= b THEN a ELSE b

(* ongoing_flush_lsns is a map from LSN to the number of flushes in flight; *)
(* an LSN that is not a key of it has count 0 here.                         *)
FlushTracker ==
  [ongoing_flush_lsns              : [Lsn -> Nat],
   completed_unrecorded_flush_lsns : SUBSET Lsn,
   last_flush_lsn                  : OptLsn,
   new_flush_lsn                   : OptLsn,
   new_largest_flush_lsn           : OptLsn]

InitFlushTracker ==
  [ongoing_flush_lsns              |-> [l \in Lsn |-> 0],
   completed_unrecorded_flush_lsns |-> {},
   last_flush_lsn                  |-> NoLsn,
   new_flush_lsn                   |-> NoLsn,
   new_largest_flush_lsn           |-> NoLsn]

OngoingLsns(fl) == {l \in Lsn : fl.ongoing_flush_lsns[l] > 0}

(* lsn < get_min_ongoing_flush_lsn(), which is u64::MAX when none is ongoing *)
BelowOngoing(fl, lsn) == \A l \in OngoingLsns(fl) : lsn < l

TrySetLargestFlushLsn(fl, lsn) ==
  [fl EXCEPT !.new_largest_flush_lsn = LargerLsn(@, lsn)]

(* Mutant: the parked LSNs are dropped instead of recorded *)
TrySetNextFlushLsnForgetful(fl, lsn) ==
  [fl EXCEPT
    !.new_largest_flush_lsn = LargerLsn(@, lsn),
    !.new_flush_lsn = IF BelowOngoing(fl, lsn) THEN lsn ELSE @,
    !.completed_unrecorded_flush_lsns = {}]

(* A finished (or empty) flush at lsn.  Its LSN is recorded at once when no  *)
(* flush at or below it is in flight, and parked otherwise; when nothing is  *)
(* in flight any more, the largest parked LSN is recorded too.               *)
TrySetNextFlushLsn(fl, lsn) ==
  LET recorded == BelowOngoing(fl, lsn)
      flush    == IF recorded THEN lsn ELSE fl.new_flush_lsn
      parked   == fl.completed_unrecorded_flush_lsns \cup (IF recorded THEN {} ELSE {lsn})
      idle     == OngoingLsns(fl) = {}
  IN  [fl EXCEPT
        !.new_largest_flush_lsn = LargerLsn(@, lsn),
        !.new_flush_lsn = IF idle THEN Max(parked \cup {flush}) ELSE flush,
        !.completed_unrecorded_flush_lsns = IF idle THEN {} ELSE parked]

InsertOngoingFlushLsn(fl, lsn, count) ==
  [fl EXCEPT !.ongoing_flush_lsns = [fl.ongoing_flush_lsns EXCEPT ![lsn] = @ + count],
             !.last_flush_lsn = lsn]

RemoveOngoingFlushLsn(fl, lsn) ==
  [fl EXCEPT !.ongoing_flush_lsns = [fl.ongoing_flush_lsns EXCEPT ![lsn] = @ - 1]]

(* What create_snapshot_impl leaves behind when it takes next_snapshot_task  *)
ResetForNextTask(fl) ==
  [fl EXCEPT !.new_flush_lsn = NoLsn, !.new_largest_flush_lsn = NoLsn]

(* The assertions of the code, each naming the step it guards.               *)
RecordAsserts(fl, lsn) == BelowOngoing(fl, lsn) => fl.new_flush_lsn <= lsn
InsertAsserts(fl, lsn) == lsn >= fl.last_flush_lsn
RemoveAsserts(fl, lsn) == fl.ongoing_flush_lsns[lsn] > 0
FlushAsserts(fl, lsn)  == fl.new_flush_lsn <= lsn
=============================================================================
