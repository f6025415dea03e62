-------------------------- MODULE TableHandlerOps --------------------------
(***************************************************************************)
(* The handlers of the table event loop, as operators on one record lp:    *)
(*   table   the MooncakeTable (module MooncakeTable)                      *)
(*   state   the TableHandlerState                                         *)
(*   tasks   the detached tasks in flight, flushes apart                   *)
(*   chan    the events those tasks and the loop sent to the loop itself   *)
(*   client  what callers asked for and what they were last told           *)
(***************************************************************************)
EXTENDS MooncakeTable

SE == INSTANCE SequencesExt

Event(type, xid, row, lsn) == [type |-> type, xid |-> xid, row |-> row, lsn |-> lsn]

NoTasks == [snapshot |-> None, persist |-> None, maintenance |-> "none", wal |-> FALSE]

(* Mutant: a recovered table does not know what it has already persisted      *)
NewStateUnseeded(persisted) ==
  [initial_persistence_lsn |-> NoLsn, table_consistent_view_lsn |-> persisted,
   latest_commit_lsn |-> NoLsn, last_unflushed_commit_lsn |-> NoLsn,
   result_consumed |-> TRUE, persist_ongoing |-> FALSE, snapshot_ongoing |-> FALSE,
   force_lsn |-> NoLsn, special |-> "Normal", alter_lsn |-> NoLsn, buffered |-> <<>>,
   index_merge |-> "Unrequested", compaction |-> "Unrequested",
   maintenance |-> "Unrequested", wal_ongoing |-> FALSE]

NewState(persisted) ==
  [initial_persistence_lsn |-> persisted, table_consistent_view_lsn |-> persisted,
   latest_commit_lsn |-> NoLsn, last_unflushed_commit_lsn |-> NoLsn,
   result_consumed |-> TRUE, persist_ongoing |-> FALSE, snapshot_ongoing |-> FALSE,
   force_lsn |-> NoLsn, special |-> "Normal", alter_lsn |-> NoLsn, buffered |-> <<>>,
   index_merge |-> "Unrequested", compaction |-> "Unrequested",
   maintenance |-> "Unrequested", wal_ongoing |-> FALSE]

NewLoop(persisted) ==
  [table |-> NewTable(persisted), state |-> NewState(persisted), tasks |-> NoTasks,
   chan |-> <<>>, client |-> [wanted |-> NoLsn, acked |-> NoLsn, error |-> FALSE,
                               maintenance |-> "none"]]

Assert(lp, cond, what) == [lp EXCEPT !.table = Check(@, cond, what)]

Send(lp, event) == [lp EXCEPT !.chan = Append(@, event)]
-----------------------------------------------------------------------------
(* TableHandlerState *)

UpdateTableLsns(st, e) ==
  CASE e.type \in {"Commit", "CommitFlush"} ->
         [st EXCEPT !.latest_commit_lsn = e.lsn, !.table_consistent_view_lsn = e.lsn,
                    !.last_unflushed_commit_lsn =
                      IF e.type = "Commit" /\ e.xid = 0 THEN e.lsn ELSE @]
    [] e.type \in {"Append", "Delete", "StreamAbort"} ->
         [st EXCEPT !.table_consistent_view_lsn = NoLsn]
    [] e.type = "StreamFlush" -> st

ShouldDiscard(st, e) ==
  /\ st.initial_persistence_lsn # NoLsn
  /\ e.xid = 0
  /\ e.lsn <= st.initial_persistence_lsn

(* Mutant: a commit at the requested LSN itself does not force a flush        *)
ShouldForceFlushAfter(st, commit_lsn, last_flush_lsn) ==
  /\ st.force_lsn # NoLsn
  /\ commit_lsn > st.force_lsn
  /\ last_flush_lsn < st.force_lsn

ShouldForceFlush(st, commit_lsn, last_flush_lsn) ==
  /\ st.force_lsn # NoLsn
  /\ commit_lsn >= st.force_lsn
  /\ last_flush_lsn < st.force_lsn

(* Mutant: the replication LSN is told whatever the table has not persisted   *)
PersistedTableLsnEager(st, persisted, replication_lsn) == LargerLsn(replication_lsn, persisted)

(* The three cases of the code are two once None is 0 *)
PersistedTableLsn(st, persisted, replication_lsn) ==
  IF persisted = st.table_consistent_view_lsn
  THEN LargerLsn(replication_lsn, persisted) ELSE persisted

NotifyPersisted(lp, lsn) == [lp EXCEPT !.client.acked = lsn, !.client.error = FALSE]

UpdateIcebergPersistedLsn(lp, lsn, replication_lsn) ==
  LET told == PersistedTableLsn(lp.state, lsn, replication_lsn)
  IN  [NotifyPersisted(lp, told) EXCEPT
        !.state.force_lsn = IF told >= @ THEN NoLsn ELSE @]

(* reset_iceberg_state_at_mooncake_snapshot *)
ResetIcebergState(lp) ==
  LET st == lp.state
  IN  [Assert(lp, st.persist_ongoing => st.result_consumed, "reset_iceberg_state") EXCEPT
        !.state.result_consumed = TRUE,
        !.state.persist_ongoing = IF st.result_consumed THEN @ ELSE FALSE]

MaintenanceOption(st, request) ==
  CASE st.maintenance # "Unrequested" -> "Skip"
    [] request = "Unrequested" -> "BestEffort"
    [] OTHER -> "Force"

SnapshotOption(st, forced) ==
  LET requested == st.index_merge # "Unrequested" \/ st.compaction # "Unrequested"
  IN  [force |-> \/ forced
                 \/ st.maintenance = "ReadyToPersist"
                 \/ requested /\ st.maintenance = "Unrequested",
       skip_persist |-> st.persist_ongoing,
       index_merge |-> MaintenanceOption(st, st.index_merge),
       compaction |-> MaintenanceOption(st, st.compaction)]

CanStartNewMaintenance(st) ==
  /\ st.maintenance = "Unrequested"
  /\ st.index_merge = "Unrequested"
  /\ st.compaction = "Unrequested"

CanDropTableNow(lp) ==
  /\ ~lp.state.snapshot_ongoing
  /\ ~lp.state.persist_ongoing
  /\ ~lp.state.wal_ongoing
  /\ lp.state.maintenance = "Unrequested"
  /\ OngoingLsns(lp.table.fl) = {}

(* The drop_table closure; the loop returns after it *)
DropTable(lp) ==
  [Assert(lp, lp.table.manager, "drop_iceberg_table") EXCEPT !.state.special = "Dropped"]

DropIfRequested(lp) ==
  IF lp.state.special = "DropTable" /\ CanDropTableNow(lp) THEN DropTable(lp) ELSE lp
-----------------------------------------------------------------------------
(* Replication events *)

CommitStreaming(lp, e) ==
  LET st == lp.state
      t  == IF st.last_unflushed_commit_lsn = NoLsn THEN lp.table
            ELSE Flush(lp.table, st.last_unflushed_commit_lsn)
  IN  [lp EXCEPT
        !.state.last_unflushed_commit_lsn = NoLsn,
        !.table = IF e.lsn <= st.initial_persistence_lsn
                  THEN AbortInStreamBatch(t, e.xid)
                  ELSE CommitTransactionStream(t, e.xid, e.lsn)]

CommitNonStreaming(lp, e) ==
  LET t     == TableCommit(lp.table, e.lsn)
      flush == \/ e.type = "CommitFlush"
               \/ ShouldFlush(t)
               \/ ShouldForceFlush(lp.state, e.lsn, lp.table.fl.last_flush_lsn)
  IN  IF flush
      THEN [lp EXCEPT !.table = Flush(t, e.lsn), !.state.last_unflushed_commit_lsn = NoLsn]
      ELSE [lp EXCEPT !.table = t]

(* process_cdc_table_event of an event that is not blocked.  The LSNs are    *)
(* updated first, for an event that is then discarded too.                   *)
ApplyCdc(lp, e) ==
  LET u == [lp EXCEPT !.state = UpdateTableLsns(@, e)]
  IN  CASE ShouldDiscard(u.state, e) -> u
        [] e.type = "Append" /\ e.xid = 0 -> [u EXCEPT !.table = TableAppend(@, e.row)]
        [] e.type = "Append" /\ e.xid # 0 -> [u EXCEPT !.table = StreamAppend(@, e.xid, e.row)]
        [] e.type = "Delete" /\ e.xid = 0 -> [u EXCEPT !.table = TableDelete(@, e.row, e.lsn)]
        [] e.type = "Delete" /\ e.xid # 0 -> [u EXCEPT !.table = StreamDelete(@, e.xid, e.row)]
        [] e.type \in {"Commit", "CommitFlush"} /\ e.xid = 0 -> CommitNonStreaming(u, e)
        [] e.type \in {"Commit", "CommitFlush"} /\ e.xid # 0 -> CommitStreaming(u, e)
        [] e.type = "StreamAbort" -> [u EXCEPT !.table = AbortInStreamBatch(@, e.xid)]
        [] e.type = "StreamFlush" -> [u EXCEPT !.table = FlushStream(@, e.xid, NoLsn)]

ProcessCdc(lp, e) ==
  IF lp.state.special # "Normal"
  THEN [lp EXCEPT !.state.buffered = Append(@, e)]
  ELSE ApplyCdc(lp, e)

(* ProcessCdc(lp, e), with the loop it starts from evaluated once: TLC expands *)
(* a fold into nested calls, and would evaluate it at each of its uses.        *)
ProcessNext(lp, e) == CHOOSE next \in {ProcessCdc(l, e) : l \in {lp}} : TRUE

ProcessBlockedEvents(lp) ==
  SE!FoldLeft(ProcessNext, [lp EXCEPT !.state.buffered = <<>>], lp.state.buffered)
-----------------------------------------------------------------------------
(* Snapshots *)

CreateSnapshot(lp, opt) ==
  [Assert(lp, ~lp.state.snapshot_ongoing, "create_snapshot_impl") EXCEPT
    !.tasks.snapshot = TakenTask(lp.table, opt),
    !.table = AfterTake(@),
    !.state.snapshot_ongoing = TRUE]

TryCreateSnapshot(lp, opt) ==
  IF opt.force \/ ShouldCreateSnapshot(lp.table) THEN CreateSnapshot(lp, opt) ELSE lp

PeriodicalSnapshot(lp) ==
  LET st      == lp.state
      view    == st.table_consistent_view_lsn
      pending == st.force_lsn # NoLsn /\ ~st.persist_ongoing
      flush   == /\ pending
                 /\ view # NoLsn
                 /\ ShouldForceFlush(st, view, lp.table.fl.last_flush_lsn)
      flushed == IF flush THEN [lp EXCEPT !.table = Flush(@, view),
                                          !.state.last_unflushed_commit_lsn = NoLsn]
                          ELSE lp
      forced  == pending /\ BelowOngoing(flushed.table.fl, st.force_lsn)
      reset   == ResetIcebergState(flushed)
      ready   == IF forced /\ st.special = "AlterTable"
                 THEN [reset EXCEPT !.table.task.force_empty = TRUE] ELSE reset
  IN  TryCreateSnapshot(ready, SnapshotOption(ready.state, forced))

(* What the snapshot's result starts when no maintenance is under way.  A    *)
(* forced request that finds nothing to do is answered and forgotten.        *)
StartMaintenance(lp, r) ==
  IF lp.state.maintenance # "Unrequested" THEN lp
  ELSE LET task == CASE r.compaction = "Payload" -> "compaction"
                     [] r.index_merge = "Payload" -> "index_merge"
                     [] OTHER -> "none"
           told == \/ r.compaction = "Nothing" /\ lp.state.compaction # "Unrequested"
                   \/ r.index_merge = "Nothing" /\ lp.state.index_merge # "Unrequested"
       IN  [lp EXCEPT
             !.client.maintenance = IF told THEN "ok" ELSE @,
             !.state.compaction = IF r.compaction = "Nothing" THEN "Unrequested" ELSE @,
             !.state.index_merge = IF r.index_merge = "Nothing" THEN "Unrequested" ELSE @,
             !.state.maintenance = IF task = "none" THEN @ ELSE "InProcess",
             !.tasks.maintenance = IF task = "none" THEN @ ELSE task]

HandleSnapshotResult(lp, r) ==
  LET done     == [lp EXCEPT !.state.snapshot_ongoing = FALSE]
      initiate == /\ done.state.result_consumed
                  /\ ~done.state.persist_ongoing
                  /\ BelowOngoing(done.table.fl, r.version)
                  /\ r.payload # None
      sent     == IF initiate
                  THEN Send(done, [type |-> "RegularIcebergSnapshot", payload |-> r.payload])
                  ELSE done
  IN  IF done.state.special = "DropTable" /\ CanDropTableNow(done)
      THEN DropTable(done)
      ELSE StartMaintenance(sent, r)

(* MooncakeTable::alter_table.  reset_for_alter takes the snapshot's lock     *)
(* with try_write().unwrap(); locked: a snapshot task in flight holds it.    *)
CompleteAlterTable(lp, locked) ==
  LET c == Assert(Assert(Assert(lp,
             lp.table.rows = {}, "alter_table: mem slice"),
             TaskIsEmpty(lp.table.task), "alter_table: pending snapshot task"),
             ~locked, "alter_table: snapshot lock")
  IN  ProcessBlockedEvents([c EXCEPT !.state.special = "Normal", !.state.alter_lsn = NoLsn])

HandleRegularIcebergSnapshot(lp, payload, locked) ==
  LET st       == lp.state
      altering == st.special = "AlterTable"
      marked   == [Assert(lp, altering => payload.lsn <= st.alter_lsn, "should_complete_alter_table")
                    EXCEPT !.state.persist_ongoing = TRUE,
                           !.state.maintenance =
                             IF payload.maintenance /\ @ = "ReadyToPersist" THEN "InPersist" ELSE @]
      ready    == IF altering /\ payload.lsn = st.alter_lsn
                  THEN CompleteAlterTable(marked, locked) ELSE marked
  IN  [Assert(ready, ready.table.manager, "persist_iceberg_snapshot") EXCEPT
        !.table.manager = FALSE, !.tasks.persist = payload]

HandlePersistenceResult(lp, res, replication_lsn) ==
  LET kept == lp.state.maintenance = "InPersist" /\ res.maintenance
      done == [lp EXCEPT
                !.state.persist_ongoing = FALSE, !.state.result_consumed = FALSE,
                !.state.maintenance = IF kept THEN "Unrequested" ELSE @,
                !.client.maintenance = IF kept THEN "ok" ELSE @,
                !.table = SetPersistenceResult(@, res)]
  IN  DropIfRequested(UpdateIcebergPersistedLsn(done, res.lsn, replication_lsn))

(* The table manager went with the failed task and does not come back *)
HandlePersistenceError(lp) ==
  DropIfRequested([lp EXCEPT
    !.state.persist_ongoing = FALSE,
    !.state.maintenance = IF @ = "InPersist" THEN "Unrequested" ELSE @,
    !.client.maintenance = IF lp.state.maintenance = "InPersist" THEN "error" ELSE @,
    !.state.force_lsn = NoLsn,
    !.client.error = @ \/ lp.state.force_lsn # NoLsn])
-----------------------------------------------------------------------------
(* Flush, maintenance and WAL results *)

HandleFlushResult(lp, slice) ==
  LET t == IF slice.xid = 0 THEN ApplyFlushResult(lp.table, slice)
           ELSE ApplyStreamFlushResult(lp.table, slice)
      empty == slice.rows = {} /\ lp.state.force_lsn # NoLsn
  IN  [lp EXCEPT !.table = [t EXCEPT !.task.force_empty = @ \/ empty]]

(* mark_index_merge_completed runs for a failed merge too *)
HandleIndexMergeResult(lp, ok) ==
  LET marked == [Assert(lp, lp.state.maintenance = "InProcess", "mark_index_merge_completed")
                  EXCEPT !.state.index_merge = "Unrequested",
                         !.state.maintenance = "ReadyToPersist"]
      set    == Assert(marked, ~lp.table.task.maintenance, "set_file_indices_merge_res")
  IN  IF ok THEN DropIfRequested([set EXCEPT !.table.task.maintenance = TRUE]) ELSE marked

(* A failed compaction is broadcast with send(..).unwrap(), which needs a     *)
(* caller waiting for one.                                                   *)
HandleCompactionResult(lp, ok) ==
  LET heard  == Assert(lp, ok \/ lp.client.maintenance = "waiting", "mark_data_compaction_completed")
      marked == [heard EXCEPT !.state.compaction = "Unrequested",
                              !.state.maintenance = IF ok THEN "ReadyToPersist" ELSE "Unrequested",
                              !.client.maintenance = IF ok THEN @ ELSE "error"]
      set    == Assert(marked, ~lp.table.task.maintenance, "set_data_compaction_res")
  IN  DropIfRequested(IF ok THEN [set EXCEPT !.table.task.maintenance = TRUE] ELSE marked)

(* Mutant: a table marked for dropping is not looked at                       *)
HandleWalResultNoDrop(lp, ok) == IF ok THEN [lp EXCEPT !.state.wal_ongoing = FALSE] ELSE lp

(* A failed WAL update is logged and leaves wal_persist_ongoing set *)
HandleWalResult(lp, ok) ==
  IF ok THEN DropIfRequested([lp EXCEPT !.state.wal_ongoing = FALSE]) ELSE lp
-----------------------------------------------------------------------------
(* Requests *)

ForceSnapshot(lp, lsn, replication_lsn) ==
  LET wanted == IF lsn # NoLsn THEN lsn ELSE lp.state.latest_commit_lsn
      told   == PersistedTableLsn(lp.state, lp.table.persisted, replication_lsn)
      asked  == [lp EXCEPT !.client.wanted = wanted]
  IN  CASE wanted = NoLsn -> NotifyPersisted(asked, NoLsn)
        [] wanted # NoLsn /\ told >= wanted -> NotifyPersisted(asked, told)
        [] OTHER -> [asked EXCEPT !.state.force_lsn = LargerLsn(@, wanted)]

(* ForceRegularIndexMerge, ForceRegularDataCompaction, ForceFullMaintenance:  *)
(* answered at once when some other maintenance is requested or under way.   *)
ForceMaintenance(lp, kind) ==
  IF ~CanStartNewMaintenance(lp.state) THEN [lp EXCEPT !.client.maintenance = "ok"]
  ELSE [lp EXCEPT !.client.maintenance = "waiting",
                  !.state.index_merge = IF kind = "index_merge" THEN "Forced" ELSE @,
                  !.state.compaction = IF kind = "compaction" THEN "Forced" ELSE @]

RequestDrop(lp) ==
  IF CanDropTableNow(lp) THEN DropTable(lp)
  ELSE [Assert(lp, lp.state.special = "Normal", "mark_drop_table") EXCEPT
         !.state.special = "DropTable"]

StartAlterTable(lp) ==
  LET view == lp.state.table_consistent_view_lsn
  IN  [Assert(lp, view # NoLsn /\ lp.state.special = "Normal", "start_alter_table") EXCEPT
        !.state.force_lsn = LargerLsn(@, view),
        !.state.special = "AlterTable", !.state.alter_lsn = view]

StartInitialCopy(lp) ==
  [Assert(lp, lp.state.special = "Normal", "start_initial_copy") EXCEPT
    !.state.special = "InitialCopy"]

(* Mutant: the copied transactions are not cut off *)
FinishInitialCopyReplaysAll(lp, start_lsn) ==
  LET opt  == [force |-> TRUE, skip_persist |-> FALSE, index_merge |-> "Skip", compaction |-> "Skip"]
      snap == IF lp.state.snapshot_ongoing THEN lp ELSE CreateSnapshot(lp, opt)
  IN  ProcessBlockedEvents([snap EXCEPT
        !.state.special = "Normal", !.state.latest_commit_lsn = start_lsn,
        !.state.table_consistent_view_lsn = start_lsn])

(* A snapshot is forced without the reset a periodic one begins with *)
FinishInitialCopy(lp, start_lsn) ==
  LET opt  == [force |-> TRUE, skip_persist |-> FALSE, index_merge |-> "Skip",
               compaction |-> "Skip"]
      snap == IF lp.state.snapshot_ongoing THEN lp ELSE CreateSnapshot(lp, opt)
      c    == Assert(snap, lp.state.special = "InitialCopy", "finish_initial_copy")
  IN  ProcessBlockedEvents([c EXCEPT
        !.state.special = "Normal", !.state.latest_commit_lsn = start_lsn,
        !.state.table_consistent_view_lsn = start_lsn,
        !.state.initial_persistence_lsn = start_lsn])
=============================================================================
