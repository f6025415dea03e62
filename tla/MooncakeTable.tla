--------------------------- MODULE MooncakeTable ---------------------------
(***************************************************************************)
(* The MooncakeTable and its SnapshotTableState, as operators on records.  *)
(*                                                                         *)
(* A table record t holds what the event loop owns:                        *)
(*   fl         the flush-LSN fields (FlushLsnOps)                         *)
(*   rows, dead the mem slice: its rows, and those deleted in place        *)
(*   streams    one TransactionStreamState per streaming transaction       *)
(*   task       next_snapshot_task, what the next mooncake snapshot takes  *)
(*   flushes    disk slices being written by detached tasks                *)
(*   manager    iceberg_table_manager.is_some()                            *)
(*   persisted  last_persistence_snapshot_lsn                              *)
(*   panic      the first assertion of the code that failed, or ""         *)
(*                                                                         *)
(* A row stands for its contents and never reappears once deleted, so its  *)
(* position is the batch or file that holds it.  A data file, a disk slice *)
(* and a batch of the mem slice are the sets of rows they were made with.  *)
(***************************************************************************)
EXTENDS FlushLsnOps, Integers, Sequences, FiniteSets

CONSTANTS
  Row,                    \* the rows transactions append and delete
  Xact,                   \* transaction numbers, in commit order
  None,                   \* an absent record
  MemSliceSize,           \* mem_slice_size: rows that trigger a flush
  SnapshotDeletionCount,  \* snapshot_deletion_record_count
  PersistFileCount,       \* iceberg_snapshot_new_data_file_count
  PersistDeletionCount    \* iceberg_snapshot_new_committed_deletion_log

ASSUME TableAssumption ==
  /\ Xact \subseteq Nat \ {0}
  /\ MemSliceSize \in Nat \ {0}
  /\ SnapshotDeletionCount \in Nat \ {0}
  /\ PersistFileCount \in Nat \ {0}
  /\ PersistDeletionCount \in Nat \ {0}

(* get_lsn_for_pending_xact: above every real LSN, one for each transaction  *)
PendingLsn(x) == Max(Lsn) + 1 + x

(* RawDeletionRecord; found: the mem slice held the row (pos.is_some())      *)
Deletion(row, lsn, found) == [row |-> row, lsn |-> lsn, found |-> found]

(* A stream's rows go from its mem slice to memory (new_record_batches) when *)
(* their flush starts and to files when it ends.                             *)
NoStream == [status |-> "None", rows |-> {}, dead |-> {}, memory |-> {}, files |-> {},
             local |-> {}, in_main |-> {}, flushing |-> 0, commit_lsn |-> NoLsn]

EmptyTask == [slices |-> {}, batches |-> {}, xacts |-> {}, deletions |-> {},
              last_deletion |-> NoLsn, baseline |-> NoLsn, prev_baseline |-> NoLsn,
              force_empty |-> FALSE, persisted |-> None, maintenance |-> FALSE]

(* new_with_table_manager: a table loaded at the LSN iceberg persisted       *)
NewTable(persisted) ==
  [fl |-> InitFlushTracker, rows |-> {}, dead |-> {},
   streams |-> [x \in Xact |-> NoStream], task |-> EmptyTask, flushes |-> {},
   manager |-> TRUE, persisted |-> persisted, panic |-> ""]

(* assert!(cond): the first one that fails ends the task that evaluates it   *)
Check(t, cond, what) ==
  IF t.panic = "" /\ ~cond THEN [t EXCEPT !.panic = what] ELSE t

SetNextFlushLsn(t, lsn) ==
  [Check(t, RecordAsserts(t.fl, lsn), "try_set_next_flush_lsn")
     EXCEPT !.fl = TrySetNextFlushLsn(@, lsn)]

(* flush_disk_slice: announce count flushes at lsn (none before a streaming  *)
(* transaction commits) and write the slice in the background.               *)
FlushDiskSlice(t, x, rows, lsn, count) ==
  LET c == Check(t, count > 0 => InsertAsserts(t.fl, lsn), "insert_ongoing_flush_lsn")
  IN  [c EXCEPT
        !.fl = IF count > 0 THEN InsertOngoingFlushLsn(@, lsn, count) ELSE @,
        !.flushes = @ \cup {[xid |-> x, lsn |-> lsn, rows |-> rows]}]
-----------------------------------------------------------------------------
(* Non-streaming transactions *)

TableAppend(t, row) == [t EXCEPT !.rows = @ \cup {row}]

TableDelete(t, row, lsn) ==
  [t EXCEPT !.dead = @ \cup ({row} \cap t.rows),
            !.task.deletions = @ \cup {Deletion(row, lsn, row \in t.rows \ t.dead)},
            !.task.last_deletion = lsn]

TableCommit(t, lsn) ==
  LET last == t.task.last_deletion
      c    == Check(t, lsn >= t.task.baseline /\ (last < lsn \/ last >= PendingLsn(0)), "commit")
  IN  [c EXCEPT !.task.baseline = lsn]

Flush(t, lsn) ==
  LET c    == Check(t, FlushAsserts(t.fl, lsn), "flush")
      live == t.rows \ t.dead
  IN  IF t.rows = {} \/ t.fl.ongoing_flush_lsns[lsn] > 0
      THEN SetNextFlushLsn(c, lsn)
      ELSE [FlushDiskSlice(c, 0, live, lsn, 1) EXCEPT
             !.rows = {}, !.dead = {},
             !.task.batches = @ \cup {[rows |-> live, lsn |-> lsn]}]

ShouldFlush(t) == Cardinality(t.rows) >= MemSliceSize

ApplyFlushResult(t, slice) ==
  LET c == Check(t, RemoveAsserts(t.fl, slice.lsn), "remove_ongoing_flush_lsn")
  IN  SetNextFlushLsn([c EXCEPT !.fl = RemoveOngoingFlushLsn(@, slice.lsn),
                                !.task.slices = @ \cup {[rows |-> slice.rows, lsn |-> slice.lsn]}],
                      slice.lsn)
-----------------------------------------------------------------------------
(* Streaming transactions *)

(* Appending, and flushing without an LSN once the transaction's own mem     *)
(* slice is full: invisible to the rest of the table until it commits.       *)
FlushStream(t, x, lsn) ==
  LET s     == t.streams[x]
      count == s.flushing + 1
      r     == FlushDiskSlice(Check(t, s.status # "None", "flush_stream"), x,
                              s.rows \ s.dead, lsn, IF lsn = NoLsn THEN 0 ELSE count)
  IN  [r EXCEPT !.streams[x] = [s EXCEPT !.rows = {}, !.dead = {}, !.flushing = count,
                                         !.memory = @ \cup (s.rows \ s.dead)]]

OpenStream(s) == [s EXCEPT !.status = IF @ = "None" THEN "Pending" ELSE @]

StreamAppend(t, x, row) ==
  LET s == OpenStream(t.streams[x])
      r == [t EXCEPT !.streams[x] = [s EXCEPT !.rows = @ \cup {row}]]
  IN  IF Cardinality(r.streams[x].rows) >= MemSliceSize THEN FlushStream(r, x, NoLsn) ELSE r

(* A row of the transaction itself is deleted in place or locally; a row of  *)
(* the main mem slice waits for the commit; any other row is left for the    *)
(* snapshot to find.                                                         *)
StreamDelete(t, x, row) ==
  LET s       == OpenStream(t.streams[x])
      own     == s.rows \ s.dead
      flushed == (s.memory \cup UNION s.files) \ s.local
      main    == t.rows \ t.dead
      left    == row \notin own \cup flushed \cup main
  IN  [t EXCEPT
        !.streams[x] =
          CASE row \in own -> [s EXCEPT !.dead = @ \cup {row}]
            [] row \in flushed \ own -> [s EXCEPT !.local = @ \cup {row}]
            [] row \in main \ (own \cup flushed) -> [s EXCEPT !.in_main = @ \cup {row}]
            [] left -> s,
        !.task.deletions =
          IF left THEN @ \cup {Deletion(row, PendingLsn(x), FALSE)} ELSE @,
        !.task.last_deletion = IF left THEN PendingLsn(x) ELSE @]

(* TransactionStreamCommit, and the Abort of TransactionStreamOutput         *)
StreamCommit(x, lsn, files, local, pending) ==
  [xid |-> x, commit |-> TRUE, lsn |-> lsn, files |-> files, local |-> local, pending |-> pending]

StreamAbort(x) == [StreamCommit(x, NoLsn, {}, {}, {}) EXCEPT !.commit = FALSE]

CommitTransactionStream(t, x, lsn) ==
  LET s == t.streams[x]
      f == FlushStream(t, x, lsn)
      c == Check(f, lsn >= t.task.baseline, "commit_transaction_stream")
  IN  [c EXCEPT
        !.fl = IF s.files # {} THEN TrySetLargestFlushLsn(@, lsn) ELSE @,
        !.dead = @ \cup (s.in_main \cap t.rows),
        !.streams[x].status = "Committed",
        !.streams[x].commit_lsn = lsn,
        !.streams[x].local = {},
        !.streams[x].in_main = {},
        !.task.baseline = lsn,
        !.task.batches = @ \cup {[rows |-> f.streams[x].memory, lsn |-> lsn]},
        !.task.xacts = @ \cup {StreamCommit(x, lsn, s.files, s.local,
                                 {Deletion(r, PendingLsn(x), r \in t.rows) : r \in s.in_main})}]

AbortInStreamBatch(t, x) ==
  LET s == t.streams[x]
      c == Check(t, s.status # "None", "abort_in_stream_batch")
  IN  [c EXCEPT
        !.streams[x] = IF s.flushing = 0 THEN NoStream ELSE [s EXCEPT !.status = "Aborted"],
        !.task.xacts = @ \cup {StreamAbort(x)}]

ApplyStreamFlushResult(t, slice) ==
  LET x    == slice.xid
      s    == [t.streams[x] EXCEPT !.flushing = @ - 1]
      done == IF s.flushing = 0 THEN NoStream ELSE s
      c    == Check(t, t.streams[x].status # "None", "apply_stream_flush_result")
  IN  CASE s.status = "Committed" ->
             ApplyFlushResult([c EXCEPT !.streams[x] = done],
                              [slice EXCEPT !.lsn = s.commit_lsn])
        [] s.status = "Aborted" -> [c EXCEPT !.streams[x] = done]
        [] OTHER -> [c EXCEPT !.streams[x] =
                       [s EXCEPT !.files = @ \cup ({slice.rows} \ {{}}),
                                 !.memory = @ \ slice.rows]]

(* batch_ingest: files of the caller become a committed transaction, and     *)
(* the flush LSN is taken to be theirs.                                      *)
BatchIngest(t, rows, lsn) ==
  [t EXCEPT
    !.fl.new_flush_lsn = lsn,
    !.fl.new_largest_flush_lsn = lsn,
    !.task.baseline = lsn,
    !.task.xacts = @ \cup {StreamCommit(0, lsn, {rows}, {}, {})}]
-----------------------------------------------------------------------------
(* The mooncake snapshot.  A snapshot record s is the SnapshotTableState:    *)
(*   disk, memory   rows in data files, and rows still only in batches         *)
(*   deleted        rows whose deletion is committed                           *)
(*   unpersisted    the data files iceberg has not yet got                     *)
(*   maintenance    it has not yet got the last index merge or compaction      *)
(*   committed, uncommitted   the two deletion logs                            *)

NewSnapshot(flush_lsn, rows, deleted) ==
  [flush_lsn |-> flush_lsn, largest_flush_lsn |-> NoLsn, version |-> flush_lsn,
   disk |-> rows, memory |-> {}, deleted |-> deleted, unpersisted |-> {},
   maintenance |-> FALSE, committed |-> {}, uncommitted |-> {}]

ShouldCreateSnapshot(t) ==
  \/ t.task.baseline > 0 /\ t.task.baseline # t.task.prev_baseline
  \/ t.task.force_empty
  \/ t.task.xacts # {}
  \/ t.task.slices # {}
  \/ Cardinality(t.task.deletions) >= SnapshotDeletionCount
  \/ t.task.persisted # None /\ \/ t.task.persisted.files # {}
                                \/ t.task.persisted.deleted # {}
                                \/ t.task.persisted.maintenance

(* SnapshotTask::is_empty *)
TaskIsEmpty(task) ==
  /\ task.slices = {}
  /\ task.batches = {}
  /\ task.deletions = {}
  /\ task.xacts = {}
  /\ ~task.maintenance
  /\ task.persisted = None

(* create_snapshot_impl: the task handed to the detached snapshot, and the   *)
(* table left behind, which carries the commit baseline forward.             *)
TakenTask(t, opt) ==
  [task |-> t.task, opt |-> opt, new_flush_lsn |-> t.fl.new_flush_lsn,
   new_largest_flush_lsn |-> t.fl.new_largest_flush_lsn, ongoing |-> OngoingLsns(t.fl)]

AfterTake(t) ==
  [t EXCEPT !.fl = ResetForNextTask(@),
            !.task = [EmptyTask EXCEPT !.baseline = t.task.baseline,
                                       !.prev_baseline = t.task.baseline]]

(* validate_mooncake_table_invariants *)
SnapshotInvariants(s, job) ==
  LET lsn  == job.new_flush_lsn
      base == job.task.baseline
  IN  lsn # NoLsn /\ s.flush_lsn # NoLsn =>
        IF job.opt.force
        THEN /\ s.flush_lsn <= lsn
             /\ base = NoLsn \/ base >= lsn \/ base = job.task.prev_baseline
        ELSE s.flush_lsn < lsn /\ base >= lsn

(* Mutant: deletions of a streaming transaction at its commit LSN itself      *)
ResolveDeletionsAtCommit(deletions, xacts) ==
  LET of(d) == {x \in xacts : d.lsn = PendingLsn(x.xid)}
  IN  {IF of(d) = {} THEN d ELSE [d EXCEPT !.lsn = (CHOOSE x \in of(d) : TRUE).lsn] :
         d \in {e \in deletions : \A x \in of(e) : x.commit}}

(* apply_transaction_stream: deletions of a committed streaming transaction  *)
(* get its LSN, those of an aborted one go.                                  *)
ResolveDeletions(deletions, xacts) ==
  LET of(d) == {x \in xacts : d.lsn = PendingLsn(x.xid)}
  IN  {IF of(d) = {} THEN d ELSE [d EXCEPT !.lsn = (CHOOSE x \in of(d) : TRUE).lsn - 1] :
         d \in {e \in deletions : \A x \in of(e) : x.commit}}

Commits(task) == {x \in task.xacts : x.commit}

(* Data files the task brings in, with the LSN they became visible at        *)
NewFiles(task) ==
  task.slices \cup UNION {{[rows |-> f, lsn |-> x.lsn] : f \in x.files} : x \in Commits(task)}

RowsIn(files) == UNION {f.rows : f \in files}

(* The deletions the task adds to the logs of s, once resolved               *)
NewDeletions(task) ==
  ResolveDeletions(task.deletions \cup UNION {x.pending : x \in Commits(task)}, task.xacts)

(* match_deletions_with_identical_key_and_lsn: a deletion the mem slice did  *)
(* not resolve finds its row in the snapshot, undeleted, and written no      *)
(* later than the deletion when written by this very task.                   *)
FindsRow(s, task, d) ==
  /\ d.row \in (s.disk \cup s.memory \cup RowsIn(NewFiles(task) \cup task.batches)) \ s.deleted
  /\ \A f \in NewFiles(task) \cup task.batches : d.row \in f.rows => f.lsn <= d.lsn

(* prune_persisted_records, then buffer_unpersisted_records; a slice without  *)
(* rows writes no file.                                                      *)
Unpersisted(unpersisted, saved, new_files) ==
  (unpersisted \ saved) \cup ({f.rows : f \in new_files} \ {{}})

(* update_snapshot up to the payload decision                                *)
ApplyTask(s, job) ==
  LET task      == job.task
      saved     == IF task.persisted = None THEN [files |-> {}, deleted |-> {}, maintenance |-> FALSE]
                                            ELSE task.persisted
      new_files == NewFiles(task)
      local     == UNION {{Deletion(r, x.lsn - 1, TRUE) : r \in x.local} : x \in Commits(task)}
      logged    == ResolveDeletions(s.uncommitted, task.xacts) \cup NewDeletions(task)
      committed == {d \in logged : d.lsn < task.baseline} \cup local
  IN  [flush_lsn |-> IF job.new_flush_lsn # NoLsn THEN job.new_flush_lsn ELSE s.flush_lsn,
       largest_flush_lsn |-> LargerLsn(s.largest_flush_lsn, job.new_largest_flush_lsn),
       version |-> IF task.baseline # NoLsn THEN task.baseline ELSE s.version,
       disk |-> s.disk \cup RowsIn(new_files),
       memory |-> (s.memory \cup RowsIn(task.batches)) \ RowsIn(new_files),
       deleted |-> s.deleted \cup {d.row : d \in committed},
       unpersisted |-> Unpersisted(s.unpersisted, saved.files, new_files),
       maintenance |-> (s.maintenance /\ ~saved.maintenance) \/ task.maintenance,
       committed |-> {d \in s.committed : d.row \notin saved.deleted} \cup committed,
       uncommitted |-> logged \ committed]

(* The assertions update_snapshot makes, s being the snapshot it finds       *)
UpdateAsserts(s, job) ==
  /\ SnapshotInvariants(s, job)
  /\ \A d \in NewDeletions(job.task) : d.found \/ FindsRow(s, job.task, d)
  /\ \A d \in ApplyTask(s, job).committed : d.lsn <= ApplyTask(s, job).version

(* The deletions a payload at the snapshot's flush LSN carries               *)
PersistableDeletions(s) ==
  {d.row : d \in {c \in s.committed : c.lsn < s.flush_lsn /\ c.row \in s.disk}}

(* The payload decision of update_snapshot, s being the updated snapshot.    *)
(* One unpersisted maintenance result is taken to reach its threshold.       *)
PersistencePayload(s, job) ==
  LET at_least(n) == IF job.opt.force THEN 1 ELSE n
      by_files    == Cardinality(s.unpersisted) >= at_least(PersistFileCount) \/ s.maintenance
      by_deletion == Cardinality(s.committed) >= at_least(PersistDeletionCount)
      deleted     == PersistableDeletions(s)
      wanted      == \/ job.task.force_empty
                     \/ s.flush_lsn # NoLsn /\ (by_files \/ by_deletion)
  IN  IF /\ ~job.opt.skip_persist
         /\ wanted
         /\ \A l \in job.ongoing : s.flush_lsn < l
         /\ s.flush_lsn = s.largest_flush_lsn
         /\ deleted # {} \/ by_files \/ job.task.force_empty
      THEN [lsn |-> s.flush_lsn, files |-> s.unpersisted, deleted |-> deleted,
            maintenance |-> s.maintenance]
      ELSE None

(* set_persistence_snapshot_res *)
SetPersistenceResult(t, res) ==
  LET c == Check(t, /\ t.persisted <= res.lsn
                    /\ ~t.manager
                    /\ t.task.persisted = None, "set_persistence_snapshot_res")
  IN  [c EXCEPT !.manager = TRUE, !.persisted = res.lsn, !.task.persisted = res]
=============================================================================
