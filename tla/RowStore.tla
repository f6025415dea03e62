------------------------------ MODULE RowStore ------------------------------
(***************************************************************************)
(* A table at the level of row positions: which row a deletion finds, in   *)
(* the mem slice, in a streaming transaction, in a batch being flushed or  *)
(* in a data file, and where the deletion goes when the row moves.         *)
(* MooncakeTable abstracts all of this (a row there is never written       *)
(* twice); here keys are written again, rows have duplicates, hashes       *)
(* collide and batches are emptied before their flush.                     *)
(*                                                                         *)
(*   tbl    what the event loop owns (mooncake_table.rs,                   *)
(*          transaction_stream.rs); its flushes run detached               *)
(*   snap   SnapshotTableState (snapshot.rs)                               *)
(*   script the rest of the source's history, tbl.commits of it committed  *)
(*   ref    history variable: the rows after each commit                   *)
(***************************************************************************)
EXTENDS RowSlices

CONSTANTS Row, Xact, Scenarios   \* Xact: streaming transactions; 0 is the main one

VARIABLES scenario, tbl, snap, script, ref

rvars == <<scenario, tbl, snap, script, ref>>

NoStream == [status |-> "None"]

NewStream(id) ==
  [status |-> "Pending", slice |-> NewSlice(id), local |-> <<>>, pending |-> <<>>, mems |-> {},
   findex |-> {}, files |-> <<>>, batches |-> <<>>, flushing |-> 0, lsn |-> NoLsn]

NewTask(baseline) ==
  [batches |-> <<>>, mems |-> {}, dels |-> <<>>, slices |-> <<>>, xacts |-> <<>>,
   baseline |-> baseline, point |-> Nowhere, flushing |-> {}, rows |-> <<>>]

NewTable ==
  [main |-> NewSlice(StreamingMax + 1), ctr |-> StreamingMax + 1, sctr |-> 0, next |-> 1,
   streams |-> [x \in Xact |-> NoStream], task |-> NewTask(NoLsn), jobs |-> {}, commits |-> 0,
   panic |-> "", blame |-> {}]

(* SnapshotTableState::new; batches and files are functions of their ids     *)
NewSnap ==
  [batches |-> (StreamingMax + 1 :> [rows |-> <<>>, dels |-> {}, data |-> FALSE]),
   files |-> <<>>, mems |-> {}, findex |-> {}, committed |-> {}, uncommitted |-> <<>>,
   version |-> NoLsn, point |-> InBatch(StreamingMax + 1, 0), rows |-> <<>>, lsns |-> {},
   panic |-> "", blame |-> {}]

NoRows == [r \in Row |-> 0]

RInit ==
  /\ scenario \in Scenarios
  /\ tbl = NewTable /\ snap = NewSnap
  /\ script = scenario.script
  /\ ref = [base |-> NoRows, delta |-> [x \in Xact \cup {0} |-> NoRows], at |-> <<>>]

Identity == scenario.identity

Check(s, cond, what) == IF s.panic = "" /\ ~cond THEN [s EXCEPT !.panic = what] ELSE s

Blame(s, cond, what) == IF cond THEN [s EXCEPT !.blame = @ \cup {what}] ELSE s

(* Commit LSNs are even; the rows of a transaction come at the LSN before it  *)
CommitLsn == 2 * (tbl.commits + 1)

PendingLsn(x) == 1000 + x

Raw(row, pos, lsn, maybe) == [row |-> row, pos |-> pos, lsn |-> lsn, maybe |-> maybe]

Without(f, keys) == [k \in DOMAIN f \ keys |-> f[k]]
-----------------------------------------------------------------------------
(* Non-streaming transactions *)

Unfinished(batch) == [id |-> batch.id, rows |-> batch.rows, dels |-> {}]

(* MooncakeTable::append: a full batch is finalized first; the id it is       *)
(* reported under is the one before the next                                  *)
TableAppend(t, row) ==
  LET must == MustFinalize(t.main)
      id   == t.ctr + 1
      main == IF must THEN FinalizeCurrentBatch(t.main, id) ELSE t.main
      done == [Unfinished(OpenBatch(t.main)) EXCEPT !.id = id - 1]
  IN  [t EXCEPT !.main = AppendRow(Identity, main, row),
                !.ctr = IF must THEN id ELSE @,
                !.task.batches = IF must THEN Append(@, done) ELSE @]

(* The deletion took the entry of a row already deleted and left the other    *)
TookStale(t, row, d) ==
  /\ d.pos = Nowhere
  /\ \E e \in Answering(Identity, d.slice.index, row) : ~IsDeletedIn(d.slice.batches, e.loc)

(* delete_impl *)
TableDelete(t, row, maybe, d) ==
  [Blame(t, TookStale(t, row, d), "stale entry")
     EXCEPT !.main = d.slice,
            !.task.dels = Append(@, Raw(row, d.pos, CommitLsn - 1, maybe))]

TableCommit(t, lsn) ==
  [t EXCEPT !.task.baseline = lsn, !.task.point = CommitCheckPoint(t.main), !.commits = @ + 1]

(* A batch without a row left, in a slice that still has rows                 *)
EmptiedBatch(slice) == ~BatchesAreKnown(slice)

StartFlush(t, x, slice) ==
  [Blame(t, EmptiedBatch(slice), "emptied batch")
     EXCEPT !.jobs = @ \cup {[xid |-> x, slice |-> slice]}, !.next = @ + 1]

MemIndexOf(slice) ==
  IF slice.batches = <<>> THEN {}
  ELSE {[ids |-> {b.id : b \in Range(slice.batches)}, entries |-> slice.index]}

DiskSlice(t, drained, lsn) ==
  [id |-> t.next, lsn |-> lsn, batches |-> drained.batches, index |-> drained.index]

(* flush, prepare_disk_slice *)
Flush(t, lsn) ==
  LET must  == OpenBatch(t.main).rows # <<>>
      id    == t.ctr + 1
      d     == Drained(FinalizeCurrentBatch(t.main, id))
      slice == DiskSlice(t, d, lsn)
      ids   == {b.id : b \in Range(d.batches)}
      done  == [Unfinished(OpenBatch(t.main)) EXCEPT !.id = id - 1]
  IN  IF NumRows(t.main) = 0 THEN t
      ELSE [StartFlush(Check(t, ids \cap {p[1] : p \in t.task.flushing} = {}, "flushing_batch_lsn_map"), 0, slice)
              EXCEPT !.main = d.slice,
                     !.ctr = IF must THEN id ELSE @,
                     !.task.batches = IF must THEN Append(@, done) ELSE @,
                     !.task.flushing = @ \cup {<<b, lsn>> : b \in ids},
                     !.task.mems = @ \cup MemIndexOf(slice)]
-----------------------------------------------------------------------------
(* Streaming transactions *)

(* get_or_create_stream_state *)
WithStream(t, x) ==
  IF t.streams[x].status # "None" THEN t
  ELSE [t EXCEPT !.streams[x] = NewStream(t.sctr + 1), !.sctr = @ + 1]

(* flush_stream, prepare_stream_disk_slice *)
FlushStream(t, x, lsn) ==
  LET st    == t.streams[x]
      must  == OpenBatch(st.slice).rows # <<>>
      d     == Drained(FinalizeCurrentBatch(st.slice, t.sctr + 1))
      slice == DiskSlice(t, d, lsn)
  IN  [StartFlush(Check(t, st.status # "None", "flush_stream"), x, slice)
         EXCEPT !.sctr = IF must THEN @ + 1 ELSE @,
                !.streams[x] = [st EXCEPT !.slice = d.slice, !.batches = @ \o d.batches,
                                          !.mems = @ \cup MemIndexOf(slice), !.flushing = @ + 1]]

(* append_in_stream_batch; the event loop then flushes a full mem slice        *)
StreamAppend(t, x, row) ==
  LET o    == WithStream(t, x)
      st   == o.streams[x]
      must == MustFinalize(st.slice)
      sl   == IF must THEN FinalizeCurrentBatch(st.slice, o.sctr + 1) ELSE st.slice
      a    == [o EXCEPT !.sctr = IF must THEN @ + 1 ELSE @,
                        !.streams[x].slice = AppendRow(Identity, sl, row)]
  IN  IF NumRows(a.streams[x].slice) >= MemSliceSize THEN FlushStream(a, x, NoLsn) ELSE a

(* The rows of the transaction that stream_indices find and that are there:   *)
(* in a batch the index has compared the key, in a file the row is read        *)
StreamMatches(st, row) ==
  LET mem  == UNION {Answering(Identity, m.entries, row) : m \in st.mems}
      disk == {e \in st.findex : e.key = LookupKey(Identity, row)}
  IN  {e.loc : e \in {m \in mem : /\ ~IsDeletedIn(st.batches, m.loc)
                                  /\ Identity = "FullRow" => RowAt(st.batches, m.loc) = row}}
      \cup {e.loc : e \in {d \in disk : /\ d.loc.off \notin st.files[d.loc.id].dels
                                        /\ SameIdentity(Identity, st.files[d.loc.id].rows[d.loc.off], row)}}

LocalDeletion(st, loc, lsn) ==
  [st EXCEPT !.local = Append(@, [pos |-> loc, lsn |-> lsn]),
             !.batches = IF loc.mem THEN DeleteRow(@, loc) ELSE @,
             !.files = IF loc.mem THEN @ ELSE [@ EXCEPT ![loc.id].dels = @ \cup {loc.off}]]

(* delete_in_stream_batch: own mem slice, own batches and files, the main mem  *)
(* slice (kept until the commit), and otherwise left for the snapshot to find  *)
StreamDeletes(t, x, row) ==
  LET o    == WithStream(t, x)
      st   == o.streams[x]
      lsn  == PendingLsn(x)
      mine == StreamMatches(st, row)
      own  == DeleteFromSlice(Identity, st.slice, row)
      left(d) == [o EXCEPT !.streams[x].slice = d.slice]
      main(d) == {IF p # Nowhere
                  THEN [left(d) EXCEPT !.streams[x].pending = Append(@, Raw(row, p, lsn, FALSE))]
                  ELSE [left(d) EXCEPT !.task.dels = Append(@, Raw(row, Nowhere, lsn, FALSE))] :
                    p \in NonDeletedPositions(Identity, t.main, row)}
  IN  UNION {IF d.pos # Nowhere THEN {left(d)}
             ELSE IF mine # {} THEN {[left(d) EXCEPT !.streams[x] = LocalDeletion(@, FirstOf(mine), lsn)]}
             ELSE main(d) : d \in own}

(* try_delete_at_pos, for each pending deletion in turn                        *)
DeleteAtPos(t, d) ==
  IF \E b \in Range(t.main.batches) : b.id = d.pos.id
  THEN [Check(t, ~IsDeletedIn(t.main.batches, d.pos), "try_delete_at_pos")
          EXCEPT !.main.batches = DeleteRow(@, d.pos)]
  ELSE t

StillThere(t, d) ==
  [d EXCEPT !.pos = IF \E b \in Range(t.main.batches) : b.id = @.id THEN @ ELSE Nowhere]

(* commit_transaction_stream: flush, then hand everything to the snapshot      *)
StreamCommit(t, x, lsn) ==
  LET f   == FlushStream(t, x, lsn)
      st  == f.streams[x]
      ids == {b.id : b \in Range(st.batches)}
      c   == Check(f, ids \cap {p[1] : p \in f.task.flushing} = {}, "flushing_batch_lsn_map")
      m   == FoldLeft(DeleteAtPos, c, st.pending)
      out == [xid |-> x, commit |-> TRUE, lsn |-> lsn, files |-> st.files, findex |-> st.findex,
              local |-> {[d EXCEPT !.lsn = lsn - 1] : d \in Range(st.local)},
              pending |-> [i \in DOMAIN st.pending |-> StillThere(t, st.pending[i])]]
  IN  [m EXCEPT !.task.flushing = @ \cup {<<b, lsn>> : b \in ids},
                !.task.batches = @ \o st.batches, !.task.mems = @ \cup st.mems,
                !.task.baseline = lsn, !.task.xacts = Append(@, out), !.commits = @ + 1,
                !.streams[x] = [st EXCEPT !.status = "Committed", !.lsn = lsn,
                                          !.local = <<>>, !.pending = <<>>]]

StreamAbort(t, x) ==
  LET st == t.streams[x]
      c  == Check(t, st.status # "None", "abort_in_stream_batch")
  IN  [c EXCEPT !.streams[x] = IF st.flushing = 0 THEN NoStream ELSE [st EXCEPT !.status = "Aborted"],
                !.task.xacts = Append(@, [xid |-> x, commit |-> FALSE])]

(* apply_stream_flush_result while the transaction is open *)
FlushedInStream(st, slice) ==
  LET out   == OutputFiles(slice)
      moved == [i \in DOMAIN st.local |-> RemapDeletion(slice, st.local[i])]
      gone(id) == {moved[i].pos.off : i \in {j \in DOMAIN moved : ~moved[j].pos.mem
                                               /\ moved[j].pos.id = id /\ st.local[j].pos.mem}}
      new   == [id \in {f.id : f \in Range(out)} |->
                  [rows |-> (CHOOSE f \in Range(out) : f.id = id).rows, dels |-> gone(id)]]
      ids   == {b.id : b \in Range(slice.batches)}
  IN  [st EXCEPT !.files = new @@ @, !.findex = @ \cup FileIndex(slice),
                 !.batches = SelectSeq(@, LAMBDA b : b.id \notin ids),
                 !.mems = {m \in @ : m.ids # ids}, !.local = moved]

(* apply_flush_result, apply_stream_flush_result *)
ApplyFlushResult(t, job) ==
  LET x    == job.xid
      c    == Check(Check(t, BatchesAreKnown(job.slice), "remap_into_vec"),
                    EntriesMatchRows(job.slice), "remap_index")
      left == [c EXCEPT !.jobs = @ \ {job}]
      st   == [t.streams[x] EXCEPT !.flushing = @ - 1]
      done == IF st.flushing = 0 THEN NoStream ELSE st
  IN  IF x = 0 THEN [left EXCEPT !.task.slices = Append(@, job.slice)]
      ELSE IF st.status = "Committed"
      THEN [left EXCEPT !.streams[x] = done, !.task.slices = Append(@, [job.slice EXCEPT !.lsn = st.lsn])]
      ELSE IF st.status = "Aborted" THEN [left EXCEPT !.streams[x] = done]
      ELSE [left EXCEPT !.streams[x] = FlushedInStream(st, job.slice)]
=============================================================================
