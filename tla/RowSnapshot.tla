---------------------------- MODULE RowSnapshot ----------------------------
(***************************************************************************)
(* The mooncake snapshot of a RowStore table: SnapshotTableState takes the *)
(* task of the table, brings in the committed streaming transactions, the  *)
(* batches and the flushed slices, moves the deletions whose row moved and *)
(* looks for the rows of the deletions that came without a position        *)
(* (update_snapshot, apply_transaction_stream and what they call).         *)
(*                                                                         *)
(* w is the pair of the snapshot and the task while the update works.      *)
(***************************************************************************)
EXTENDS RowStore, FiniteSetsExt

CheckSnap(w, cond, what) == [w EXCEPT !.s = Check(@, cond, what)]

Restamped(dels, x, lsn) ==
  [i \in DOMAIN dels |-> IF dels[i].lsn = PendingLsn(x) THEN [dels[i] EXCEPT !.lsn = lsn] ELSE dels[i]]

Dismissed(dels, x) == SelectSeq(dels, LAMBDA d : d.lsn # PendingLsn(x))

(* apply_transaction_stream, one output *)
ApplyOutput(w, out) ==
  IF out.commit
  THEN [w EXCEPT !.s.files = out.files @@ @, !.s.findex = @ \cup out.findex,
                 !.s.committed = @ \cup out.local,
                 !.s.uncommitted = Restamped(@, out.xid, out.lsn - 1),
                 !.t.dels = Restamped(@ \o out.pending, out.xid, out.lsn - 1),
                 !.t.files = @ \cup {<<f, out.lsn>> : f \in DOMAIN out.files}]
  ELSE [w EXCEPT !.s.uncommitted = Dismissed(@, out.xid), !.t.dels = Dismissed(@, out.xid)]

ApplyTransactionStream(w) == FoldLeft(ApplyOutput, w, w.t.xacts)

MergeMemIndices(w) == [w EXCEPT !.s.mems = @ \cup w.t.mems]

Finished(b) == [rows |-> b.rows, dels |-> b.dels, data |-> TRUE]

AddBatch(w, b) ==
  [CheckSnap(w, b.id \notin DOMAIN w.s.batches, "batch id exists")
     EXCEPT !.s.batches = (b.id :> Finished(b)) @@ @]

(* Closes the open batch and starts the one after the newest                  *)
CloseOpenBatch(w, main) ==
  LET open == Max(DOMAIN w.s.batches)
      next == Last(main).id + 1
      c    == CheckSnap(w, ~w.s.batches[open].data /\ next \notin DOMAIN w.s.batches, "open batch")
      done == [w.s.batches EXCEPT ![open].rows = Head(main).rows, ![open].data = TRUE]
  IN  [c EXCEPT !.s.batches = (next :> [rows |-> <<>>, dels |-> {}, data |-> FALSE]) @@ done]

(* Mutant: the rows a streaming transaction deleted itself come back          *)
FinalizeBatchesFresh(w) ==
  LET stream == SelectSeq(w.t.batches, LAMBDA b : IsStreaming(b.id))
      main   == SelectSeq(w.t.batches, LAMBDA b : ~IsStreaming(b.id))
      fresh  == [i \in DOMAIN stream |-> [stream[i] EXCEPT !.dels = {}]]
  IN  IF main = <<>> THEN FoldLeft(AddBatch, w, fresh)
      ELSE FoldLeft(AddBatch, CloseOpenBatch(w, main), fresh \o Tail(main))

FinalizeBatches(w) ==
  LET stream == SelectSeq(w.t.batches, LAMBDA b : IsStreaming(b.id))
      main   == SelectSeq(w.t.batches, LAMBDA b : ~IsStreaming(b.id))
  IN  IF main = <<>> THEN FoldLeft(AddBatch, w, stream)
      ELSE FoldLeft(AddBatch, CloseOpenBatch(w, main), stream \o Tail(main))

(* remap_deletion_if_needed on both logs *)
RemapDeletions(s, slice) ==
  [s EXCEPT !.committed = {RemapDeletion(slice, d) : d \in @},
            !.uncommitted = [i \in DOMAIN @ |-> RemapDeletion(slice, @[i])]]

(* integrate_disk_slices, one slice: its rows are deleted in the file as they *)
(* were in the batch                                                          *)
IntegrateDiskSlice(w, slice) ==
  LET out   == OutputFiles(slice)
      ids   == {b.id : b \in Range(slice.batches)}
      moved == {d \in w.s.committed : RemapDeletion(slice, d) # d}
      gone(f) == {p.off : p \in {RemapDeletion(slice, d).pos : d \in moved} \cap {InFile(f, i) : i \in 1 .. 9}}
      files == [f \in {o.id : o \in Range(out)} |->
                  [rows |-> (CHOOSE o \in Range(out) : o.id = f).rows, dels |-> gone(f)]]
      c     == CheckSnap(w, /\ slice.lsn # NoLsn
                            /\ Cardinality({RemapDeletion(slice, d).pos : d \in moved}) = Cardinality(moved)
                            /\ ids \subseteq DOMAIN w.s.batches, "integrate_disk_slices")
  IN  [c EXCEPT !.s = [RemapDeletions(@, slice) EXCEPT
                         !.files = files @@ @, !.findex = @ \cup FileIndex(slice),
                         !.mems = {m \in @ : m.ids # ids}, !.batches = Without(@, ids)],
                !.t.files = @ \cup {<<f, slice.lsn>> : f \in DOMAIN files}]

IntegrateDiskSlices(w) == FoldLeft(IntegrateDiskSlice, w, w.t.slices)
-----------------------------------------------------------------------------
(* is_deleted *)
IsDeletedLoc(s, loc) ==
  loc.off \in (IF loc.mem THEN s.batches[loc.id].dels ELSE s.files[loc.id].dels)

(* is_visible: the row was flushed, or its file arrived, after the deletion   *)
IsVisible(t, loc, lsn) ==
  \A p \in IF loc.mem THEN t.flushing ELSE t.files : p[1] = loc.id => p[2] <= lsn

RowOf(s, loc) == IF loc.mem THEN s.batches[loc.id].rows[loc.off] ELSE s.files[loc.id].rows[loc.off]

(* commit_deletion; a batch that was flushed meanwhile is not there any more  *)
CommitDeletion(s, d) ==
  LET there == IF d.pos.mem THEN d.pos.id \in DOMAIN s.batches ELSE TRUE
      c     == Check(s, there => ~IsDeletedLoc(s, d.pos), "commit_deletion")
      m     == IF ~there THEN c
               ELSE IF d.pos.mem THEN [c EXCEPT !.batches[d.pos.id].dels = @ \cup {d.pos.off}]
               ELSE [c EXCEPT !.files[d.pos.id].dels = @ \cup {d.pos.off}]
  IN  [m EXCEPT !.committed = @ \cup {d}]

(* add_processed_deletion; a row may be chosen that a deletion not committed  *)
(* yet has already                                                            *)
AddProcessed(s, d, baseline) ==
  IF d.lsn < baseline THEN CommitDeletion(s, d)
  ELSE [Blame(s, \E i \in DOMAIN s.uncommitted : s.uncommitted[i].pos = d.pos, "chosen twice")
          EXCEPT !.uncommitted = Append(@, d)]

AddAllProcessed(w, dels) ==
  [w EXCEPT !.s = FoldLeft(LAMBDA s, d : AddProcessed(s, d, w.t.baseline), @, dels)]

(* advance_pending_deletions *)
AdvancePendingDeletions(w) ==
  AddAllProcessed([w EXCEPT !.s.uncommitted = <<>>], w.s.uncommitted)

Processed(d) == [pos |-> d.pos, lsn |-> d.lsn]

(* MemIndex::find_record: of several entries for one key, the one in the      *)
(* table's probe order (pick)                                                 *)
FindRecord(index, row, pick) ==
  LET locs == {e.loc : e \in Answering(Identity, index, row)}
  IN  IF Identity = "FullRow" \/ locs = {} THEN locs
      ELSE {CHOOSE l \in locs : \A m \in locs : IF pick THEN Before(l, m) ELSE Before(m, l)}

(* find_records: what the lookup of one key answers                           *)
FindRecords(s, dels, key, pick) ==
  UNION {FindRecord(m.entries, dels[i].row, pick) :
           m \in s.mems, i \in {j \in DOMAIN dels : LookupKey(Identity, dels[j].row) = key}}
    \cup {e.loc : e \in {f \in s.findex : f.key = key}}

(* Identity comparison, one deletion after the other                          *)
MatchOne(s, acc, d) ==
  LET hits == {l \in acc.left : SameIdentity(Identity, RowOf(s, l), d.row)}
  IN  IF hits = {} THEN [acc EXCEPT !.ok = FALSE]
      ELSE [acc EXCEPT !.left = @ \ {FirstOf(hits)}, !.out = Append(@, [pos |-> FirstOf(hits), lsn |-> d.lsn])]

(* match_deletions_with_identical_key_and_lsn *)
MatchDeletions(w, dels, found) ==
  LET lsn   == Head(dels).lsn
      maybe == Head(dels).maybe
      cands == {l \in found : ~IsDeletedLoc(w.s, l) /\ IsVisible(w.t, l, lsn)}
      n     == Cardinality(cands)
      plain == SetToSortSeq({[pos |-> l, lsn |-> lsn] : l \in cands}, LAMBDA a, b : Before(a.pos, b.pos))
      same  == FoldLeft(LAMBDA acc, d : MatchOne(w.s, acc, d), [left |-> cands, out |-> <<>>, ok |-> TRUE], dels)
  IN  IF maybe THEN AddAllProcessed(CheckSnap(w, Len(dels) = 1, "delete_if_exists"), same.out)
      ELSE IF n = Len(dels) THEN AddAllProcessed(w, plain)
      ELSE IF n < Len(dels) THEN CheckSnap(w, FALSE, "find less than expected candidates")
      ELSE AddAllProcessed(CheckSnap(w, Identity # "Single" /\ same.ok, "row_identity"), same.out)

(* apply_new_deletions: those with a position, then key by key, LSN by LSN    *)
ApplyNewDeletions(w, pick) ==
  LET placed == SelectSeq(w.t.dels, LAMBDA d : d.pos # Nowhere)
      raw    == SelectSeq(w.t.dels, LAMBDA d : d.pos = Nowhere)
      group(d) == <<LookupKey(Identity, d.row), d.lsn>>
      groups == SetToSortSeq({group(d) : d \in Range(raw)},
                             LAMBDA a, b : a[1] < b[1] \/ (a[1] = b[1] /\ a[2] <= b[2]))
      first  == AddAllProcessed(w, [i \in DOMAIN placed |-> Processed(placed[i])])
      c      == CheckSnap(first, \A a, b \in Range(raw) : a.maybe = b.maybe, "delete_if_exists")
      stale  == \E m \in w.s.mems, i \in DOMAIN raw :
                  Identity # "FullRow" /\ Cardinality(Answering(Identity, m.entries, raw[i].row)) > 1
      found  == [g \in Range(groups) |-> FindRecords(c.s, raw, g[1], pick)]
      step(v, g) == MatchDeletions(v, SelectSeq(raw, LAMBDA d : group(d) = g), found[g])
  IN  [FoldLeft(step, c, groups) EXCEPT !.s = Blame(@, stale, "stale entry")]

(* update_snapshot *)
UpdateSnapshot(s, t, pick) ==
  LET w1 == FinalizeBatches(MergeMemIndices(ApplyTransactionStream([s |-> s, t |-> t])))
      w2 == IntegrateDiskSlices(w1)
      w3 == ApplyNewDeletions(AdvancePendingDeletions([w2 EXCEPT !.s.rows = t.rows]), pick)
  IN  [w3.s EXCEPT !.version = IF t.baseline # NoLsn THEN t.baseline ELSE @,
                   !.point = IF t.point # Nowhere THEN t.point ELSE @]
-----------------------------------------------------------------------------
Running == tbl.panic = "" /\ snap.panic = ""

(* History: what the next operation of the source does to the rows            *)
Seen(x) == [r \in Row |-> ref.base[r] + ref.delta[x][r]]

Changed(op) ==
  LET x == op[2]  r == op[3]
      same == {q \in Row : q[1] = r[1] /\ Seen(x)[q] > 0}
  IN  CASE op[1] = "ins" -> [ref EXCEPT !.delta[x][r] = @ + 1]
        [] op[1] = "del" -> [ref EXCEPT !.delta[x][r] = @ - 1]
        [] op[1] = "ups" -> [ref EXCEPT !.delta[x] = [q \in Row |-> @[q] + (IF q = r THEN 1 ELSE 0)
                                                                        - (IF q \in same THEN 1 ELSE 0)]]
        [] op[1] = "end" -> [base |-> Seen(x), at |-> Append(ref.at, Seen(x)),
                             delta |-> [ref.delta EXCEPT ![x] = NoRows]]
        [] op[1] = "abt" -> [ref EXCEPT !.delta[x] = NoRows]

Take(op) ==
  /\ Running
  /\ script # <<>> /\ Head(script) = op
  /\ script' = Tail(script)
  /\ ref' = Changed(op)
  /\ UNCHANGED <<scenario, snap>>

NextOp == IF script = <<>> THEN <<"none", 0, 0>> ELSE Head(script)

(* append, delete and delete_if_exists followed by append                      *)
Insert ==
  /\ NextOp[1] = "ins" /\ Take(NextOp)
  /\ tbl' = IF NextOp[2] = 0 THEN TableAppend(tbl, NextOp[3]) ELSE StreamAppend(tbl, NextOp[2], NextOp[3])

Delete ==
  /\ NextOp[1] = "del" /\ Take(NextOp)
  /\ IF NextOp[2] = 0
     THEN \E d \in DeleteFromSlice(Identity, tbl.main, NextOp[3]) :
            tbl' = TableDelete(tbl, NextOp[3], FALSE, d)
     ELSE tbl' \in StreamDeletes(tbl, NextOp[2], NextOp[3])

Upsert ==
  /\ NextOp[1] = "ups" /\ Take(NextOp)
  /\ \E d \in DeleteFromSlice(Identity, tbl.main, NextOp[3]) :
       tbl' = TableAppend(TableDelete(tbl, NextOp[3], TRUE, d), NextOp[3])

Commit ==
  /\ NextOp[1] = "end" /\ Take(NextOp)
  /\ IF NextOp[2] = 0
     THEN LET c == TableCommit(tbl, CommitLsn)
          IN  \/ tbl' = c
              \/ NumRows(tbl.main) > 0 /\ tbl' = Flush(c, CommitLsn)
     ELSE tbl' = StreamCommit(tbl, NextOp[2], CommitLsn)

Abort ==
  /\ NextOp[1] = "abt" /\ Take(NextOp)
  /\ tbl' = StreamAbort(tbl, NextOp[2])

FinishFlush ==
  /\ Running
  /\ \E job \in tbl.jobs : tbl' = ApplyFlushResult(tbl, job)
  /\ UNCHANGED <<scenario, snap, script, ref>>

(* create_snapshot_impl: the task with the rows of the open batch, and a fresh *)
(* one; the update itself only touches the snapshot                            *)
Snapshot ==
  /\ Running
  /\ tbl.task # NewTask(tbl.task.baseline)
  /\ LET t == [tbl.task EXCEPT !.rows = OpenBatch(tbl.main).rows]
     IN  \E pick \in BOOLEAN : snap' = UpdateSnapshot(snap, [files |-> {}] @@ t, pick)
  /\ tbl' = [tbl EXCEPT !.task = NewTask(tbl.task.baseline)]
  /\ UNCHANGED <<scenario, script, ref>>

RNext == Insert \/ Delete \/ Upsert \/ Commit \/ Abort \/ FinishFlush \/ Snapshot

RSpec == RInit /\ [][RNext]_rvars
-----------------------------------------------------------------------------
(* request_read: files without their deletion vectors, batches before the      *)
(* commit point, and the rows of the open batch up to it                       *)
ReadLocs(s) ==
  LET b == s.point.id
      rows(i) == IF i < b THEN Len(s.batches[i].rows) ELSE IF i = b THEN s.point.off ELSE 0
  IN  {l \in UNION {{InFile(f, i) : i \in DOMAIN s.files[f].rows} : f \in DOMAIN s.files} : ~IsDeletedLoc(s, l)}
      \cup {l \in UNION {{InBatch(i, k) : k \in 1 .. rows(i)} : i \in DOMAIN s.batches} : ~IsDeletedLoc(s, l)}

ReadRow(s, l) == IF l.mem /\ ~s.batches[l.id].data THEN s.rows[l.off] ELSE RowOf(s, l)

Contents(s) ==
  LET locs == ReadLocs(s) IN [r \in Row |-> Cardinality({l \in locs : ReadRow(s, l) = r})]

(* A read of the snapshot returns the rows the source had at the commit the     *)
(* snapshot says it is at, each as often as the source had it: after            *)
(* update_snapshot request_read finds them wherever their deletions went.       *)
SnapshotIsHistory ==
  snap.panic = "" /\ snap.blame \cup tbl.blame = {}
    => Contents(snap) = (IF snap.version = NoLsn THEN NoRows ELSE ref.at[snap.version \div 2])

(* What request_read hides and what aggregate_committed_deletion_logs persists  *)
(* is the same: a deletion vector of a data file holds exactly the offsets the  *)
(* committed deletion log has for the file.                                     *)
VectorsMatchLog ==
  Running => \A f \in DOMAIN snap.files :
    snap.files[f].dels = {d.pos.off : d \in {c \in snap.committed : ~c.pos.mem /\ c.pos.id = f}}

(* The row of a later deletion can be found (find_records): every row of a data *)
(* file has exactly one entry in the file index, and every row still there in a *)
(* batch that is being flushed exactly one in the index that left the mem slice *)
(* with it, each under its own key; and no entry points at a file or a batch    *)
(* that is gone (is_deleted would panic).                                       *)
IndexFindsRows ==
  Running =>
    /\ \A f \in DOMAIN snap.files : \A i \in DOMAIN snap.files[f].rows :
         {e.key : e \in {d \in snap.findex : d.loc = InFile(f, i)}}
           = {LookupKey(Identity, snap.files[f].rows[i])}
    /\ \A m \in snap.mems : \A b \in m.ids : \A i \in DOMAIN snap.batches[b].rows \ snap.batches[b].dels :
         {e.key : e \in {d \in m.entries : d.loc = InBatch(b, i)}}
           = {LookupKey(Identity, snap.batches[b].rows[i])}
    /\ \A e \in snap.findex : e.loc.id \in DOMAIN snap.files
    /\ \A m \in snap.mems : {e.loc.id : e \in m.entries} \subseteq m.ids /\ m.ids \subseteq DOMAIN snap.batches

(* No assertion, unwrap or panic of the flush, the transaction stream or the    *)
(* snapshot fails, unless one of the three known defects came first: an index   *)
(* entry left behind by try_delete_at_pos, a flushed batch without a row left,  *)
(* a row chosen twice by deletions of one open transaction.                     *)
NoPanic == Running \/ snap.blame \cup tbl.blame # {}

(* Rows are found by deletions, and deletions by reads and persistences: the    *)
(* index has the rows, the log the vectors, and no lookup on the way panics     *)
(* (update_snapshot, add_processed_deletion, commit_deletion).                   *)
RowsAreFound == IndexFindsRows /\ VectorsMatchLog /\ NoPanic

(* No assertion or panic at all: what the code says of itself.                  *)
NeverPanics == Running
=============================================================================
