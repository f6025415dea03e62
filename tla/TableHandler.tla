---------------------------- MODULE TableHandler ----------------------------
(***************************************************************************)
(* One table of moonlink at work: a replication source feeds transactions  *)
(* to the table's event loop, which shares nothing with the flush,         *)
(* snapshot, persistence, maintenance and WAL tasks it spawns but the      *)
(* result events they send back.  Each step of this specification is the   *)
(* loop handling one event, or one detached task running to its end.       *)
(*                                                                         *)
(* Events from outside (the source, clients, timers) are handled in any    *)
(* order between the internal ones, which the loop receives in the order   *)
(* they were sent.  A crash leaves the iceberg table; the source then      *)
(* replays from a transaction at or before the persisted LSN.              *)
(***************************************************************************)
EXTENDS TableHandlerOps

CONSTANT Scenarios      \* the histories to run, each with its requests and faults

Kinds == {"main", "main_flush", "stream", "stream_flush", "abort", "load"}
Streamed == {"stream", "stream_flush", "abort"}

(* What a transaction does, in order, and how it reaches the table *)
Operation   == [type : {"Append", "Delete", "StreamFlush"}, row : Row]
Transaction == [kind : Kinds, ops : Seq(Operation)]

Requests == {"force", "index_merge", "compaction", "drop", "alter", "copy", "wal",
             "maintain", "replicate", "reconnect", "crash",
             "persist_fault", "maintenance_fault", "wal_fault"}

(* script    what the source does                                            *)
(* adjacent  a row's LSN equals the end LSN of the transaction before it     *)
(* budget    how often each request or fault may happen                      *)
IsScenario(c) ==
  /\ c.script \in [Xact -> Transaction]
  /\ c.adjacent \in BOOLEAN
  /\ c.budget \in [Requests -> Nat]

Count     == Cardinality(Xact)
EndLsn(i) == 2 * i

ASSUME HandlerAssumption ==
  /\ Xact = 1 .. Count
  /\ Lsn = {EndLsn(i) : i \in Xact}
  /\ \A c \in Scenarios : IsScenario(c)

VARIABLES
  loop,         \* the event loop and its detached tasks (TableHandlerOps)
  snap,         \* SnapshotTableState, written by snapshot tasks only
  ice,          \* the iceberg table: flush LSN, rows of its files (and the rows
                \* two of them hold), rows its deletion vectors delete
  scenario,     \* what this behaviour runs
  done,         \* transactions the source has sent to their end
  sent,         \* row operations sent of each transaction
  replication,  \* the replication LSN the handler reads
  boundary,     \* the LSN an initial copy was taken at, once its files are sent
  left          \* what remains of the budget

vars == <<loop, snap, ice, scenario, done, sent, replication, boundary, left>>
-----------------------------------------------------------------------------
script == scenario.script

(* final_lsn of the Begin message, which the row events carry *)
RowLsn(i) == IF scenario.adjacent /\ i > 1 THEN EndLsn(i - 1) ELSE EndLsn(i) - 1

(* The rows the source would show after every transaction ending by lsn *)
Effective(lsn)    == {i \in Xact : EndLsn(i) <= lsn /\ script[i].kind # "abort"}
RowsOf(i, type)   == {script[i].ops[k].row : k \in {j \in 1 .. Len(script[i].ops) : script[i].ops[j].type = type}}
Visible(lsn)      == UNION {RowsOf(i, "Append") : i \in Effective(lsn)}
                       \ UNION {RowsOf(i, "Delete") : i \in Effective(lsn)}

LoopType ==
  /\ loop.table.fl \in FlushTracker
  /\ loop.table.rows \subseteq Row
  /\ loop.table.dead \subseteq loop.table.rows
  /\ loop.table.persisted \in OptLsn
  /\ \A x \in Xact : loop.table.streams[x].flushing \in Nat
  /\ \A f \in loop.table.flushes : f.rows \subseteq Row /\ f.lsn \in OptLsn
  /\ loop.state.table_consistent_view_lsn \in OptLsn
  /\ loop.state.force_lsn \in OptLsn
  /\ loop.state.maintenance \in {"Unrequested", "InProcess", "ReadyToPersist", "InPersist"}
  /\ loop.state.special \in {"Normal", "InitialCopy", "AlterTable", "DropTable", "Dropped"}

(* Types: what iceberg marks deleted it holds, and no file is unpersisted that *)
(* the snapshot of the table does not have (SnapshotTableState)              *)
TypeOK ==
  /\ LoopType
  /\ snap.flush_lsn \in OptLsn
  /\ UNION snap.unpersisted \subseteq snap.disk
  /\ snap.disk \subseteq Row
  /\ ice \in [lsn : OptLsn, rows : SUBSET Row, twice : SUBSET Row, deleted : SUBSET Row]
  /\ ice.deleted \subseteq ice.rows
  /\ done \in 0 .. Count
  /\ sent \in [Xact -> Nat]
  /\ replication \in OptLsn
  /\ boundary \in OptLsn
  /\ left \in [Requests -> Nat]
-----------------------------------------------------------------------------
Init ==
  /\ loop = NewLoop(NoLsn)
  /\ snap = NewSnapshot(NoLsn, {}, {})
  /\ ice = [lsn |-> NoLsn, rows |-> {}, twice |-> {}, deleted |-> {}]
  /\ scenario \in Scenarios
  /\ done = 0
  /\ sent = [i \in Xact |-> 0]
  /\ replication = NoLsn
  /\ boundary = NoLsn
  /\ left = scenario.budget

Running == loop.table.panic = "" /\ loop.state.special # "Dropped"

Spend(request) ==
  /\ left[request] > 0
  /\ left' = [left EXCEPT ![request] = @ - 1]

(* The xact_id of an event: none for a transaction that is not streamed *)
XidOf(i) == IF script[i].kind \in Streamed THEN i ELSE 0

Finished(i) == sent[i] = Len(script[i].ops)

(* Isolation at the source: a transaction deletes its own rows or rows that  *)
(* committed before, and no row that an open transaction has deleted.        *)
MayDelete(i, op) ==
  /\ op.row \in Visible(EndLsn(done)) \cup RowsOf(i, "Append")
  /\ \A j \in Xact \ {i} : j > done => \A k \in 1 .. sent[j] : script[j].ops[k] # op

(* Row events of a transaction.  A non-streaming one is sent as a whole when *)
(* its turn comes; chunks of a streaming one arrive any time before that,    *)
(* though never inside another transaction.                                  *)
SendRow(i) ==
  LET op == script[i].ops[sent[i] + 1]
      e  == Event(op.type, XidOf(i), op.row, IF XidOf(i) = 0 THEN RowLsn(i) ELSE NoLsn)
  IN  /\ Running
      /\ i > done /\ ~Finished(i)
      /\ script[i].kind # "load"
      /\ \A j \in Xact : script[j].kind \notin Streamed /\ j # i => sent[j] = 0 \/ j <= done
      /\ script[i].kind \notin Streamed => i = done + 1
      /\ op.type = "Delete" => MayDelete(i, op)
      /\ loop' = ProcessCdc(loop, e)
      /\ sent' = [sent EXCEPT ![i] = @ + 1]
      /\ UNCHANGED <<snap, ice, scenario, done, replication, boundary, left>>

(* The end of a transaction: Commit, or StreamAbort, or the LoadFiles event  *)
(* of a bulk load.  The sink marks the replication LSN once it is sent.      *)
EndTransaction(i) ==
  LET lsn == EndLsn(i)
  IN  /\ Running
      /\ i = done + 1
      /\ script[i].kind # "load" => Finished(i)
      /\ loop' = CASE script[i].kind = "abort" -> ProcessCdc(loop, Event("StreamAbort", i, None, NoLsn))
                   [] script[i].kind = "load" ->
                        [loop EXCEPT !.table = BatchIngest(@, RowsOf(i, "Append"), lsn)]
                   [] script[i].kind \in {"main_flush", "stream_flush"} ->
                        ProcessCdc(loop, Event("CommitFlush", XidOf(i), None, lsn))
                   [] OTHER -> ProcessCdc(loop, Event("Commit", XidOf(i), None, lsn))
      /\ done' = i
      /\ replication' = LargerLsn(replication, lsn)
      /\ UNCHANGED <<snap, ice, scenario, sent, boundary, left>>

(* The sink has sent the next transaction and marked it while its events     *)
(* still wait in the loop's channel.                                         *)
ReplicateAhead ==
  /\ done < Count
  /\ replication < EndLsn(done + 1)
  /\ Spend("replicate")
  /\ replication' = EndLsn(done + 1)
  /\ UNCHANGED <<loop, snap, ice, scenario, done, sent, boundary>>
-----------------------------------------------------------------------------
(* Timers and requests *)

PeriodicalMooncakeTableSnapshot ==
  /\ Running
  /\ ~loop.state.snapshot_ongoing
  /\ loop' = PeriodicalSnapshot(loop)
  /\ UNCHANGED <<snap, ice, scenario, done, sent, replication, boundary, left>>

Request(kind, next) ==
  /\ Running
  /\ Spend(kind)
  /\ loop' = next
  /\ UNCHANGED <<snap, ice, scenario, done, sent, replication, boundary>>

RequestForceSnapshot(lsn) == Request("force", ForceSnapshot(loop, lsn, replication))

RequestMaintenance(kind) == Request(kind, ForceMaintenance(loop, kind))

RequestDropTable == Request("drop", RequestDrop(loop))

(* The sink sends AlterTable when the next relation message shows columns    *)
(* gone; the source locks the table for that, so no transaction on it is open. *)
RequestAlterTable ==
  /\ \A i \in Xact : i > done => sent[i] = 0
  /\ loop.state.special = "Normal"
  /\ Request("alter", StartAlterTable(loop))

(* The initial copy of a new table: events are held back from before the     *)
(* table is published, the rows visible at the boundary are loaded, and the  *)
(* events held back are applied, those of the copied transactions excepted.  *)
BeginInitialCopy ==
  /\ done = 0 /\ \A i \in Xact : sent[i] = 0
  /\ Request("copy", StartInitialCopy(loop))

LoadInitialCopy(i) ==
  /\ Running
  /\ loop.state.special = "InitialCopy" /\ boundary = NoLsn
  /\ i >= done
  /\ loop' = [loop EXCEPT !.table = BatchIngest(@, Visible(EndLsn(i)), EndLsn(i))]
  /\ boundary' = EndLsn(i)
  /\ UNCHANGED <<snap, ice, scenario, done, sent, replication, left>>

EndInitialCopy ==
  /\ Running
  /\ loop.state.special = "InitialCopy" /\ boundary # NoLsn
  /\ loop' = FinishInitialCopy(loop, boundary)
  /\ replication' = LargerLsn(replication, boundary)
  /\ UNCHANGED <<snap, ice, scenario, done, sent, boundary, left>>

(* The periodic WAL update, which may find something to persist or truncate  *)
PeriodicalWal ==
  /\ ~loop.state.wal_ongoing
  /\ Request("wal", [loop EXCEPT !.state.wal_ongoing = TRUE, !.tasks.wal = TRUE])
-----------------------------------------------------------------------------
(* Detached tasks *)

Finish(next) ==
  /\ Running
  /\ loop' = next
  /\ UNCHANGED <<scenario, done, sent, replication, boundary>>

WriteSlice(slice) ==
  /\ slice \in loop.table.flushes
  /\ Finish(Send([loop EXCEPT !.table.flushes = @ \ {slice}],
                 [type |-> "FlushResult", slice |-> slice]))
  /\ UNCHANGED <<snap, ice, left>>

(* Whether enough small files are there to maintain depends on counts and    *)
(* sizes that are not modelled.  Only persisted files are taken, and one     *)
(* that is not persisted yet may leave the question open.                    *)
Offers(option, s) ==
  CASE option = "Skip" -> {"Unknown"}
    [] option # "Skip" /\ scenario.budget["maintain"] = 0 -> {"Nothing"}
    [] OTHER -> {"Nothing"} \cup {o \in {"Unknown"} : s.unpersisted # {} \/ s.maintenance}
                  \cup {o \in {"Payload"} : left["maintain"] > 0 /\ s.disk # UNION s.unpersisted}

(* An index merge is not considered together with a compaction               *)
MaintenanceOffers(opt, s) ==
  {o \in [compaction : Offers(opt.compaction, s), index_merge : Offers(opt.index_merge, s) \cup {"Unknown"}] :
     IF o.compaction = "Payload" THEN o.index_merge = "Unknown"
                                 ELSE o.index_merge \in Offers(opt.index_merge, s)}

UpdateSnapshot ==
  LET job == loop.tasks.snapshot
      s   == ApplyTask(snap, job)
  IN  /\ job # None
      /\ snap' = s
      /\ \E o \in MaintenanceOffers(job.opt, s) :
           /\ Finish(Send([Assert(loop, UpdateAsserts(snap, job), "update_snapshot") EXCEPT !.tasks.snapshot = None],
                          [type |-> "SnapshotResult", version |-> s.version,
                           payload |-> PersistencePayload(s, job),
                           compaction |-> o.compaction, index_merge |-> o.index_merge]))
           /\ IF "Payload" \in {o.compaction, o.index_merge} THEN Spend("maintain")
                                                           ELSE UNCHANGED left
      /\ UNCHANGED ice

PersistSnapshot ==
  LET p == loop.tasks.persist
  IN  /\ p # None
      /\ ice' = [lsn |-> p.lsn, rows |-> ice.rows \cup UNION p.files,
                 twice |-> ice.twice \cup {r \in UNION p.files : r \in ice.rows \/ \E f, g \in p.files : f # g /\ r \in f \cap g},
                 deleted |-> ice.deleted \cup p.deleted]
      /\ Finish(Send([loop EXCEPT !.tasks.persist = None], [type |-> "PersistenceResult", res |-> p]))
      /\ UNCHANGED <<snap, left>>

FailPersist ==
  /\ loop.tasks.persist # None
  /\ Spend("persist_fault")
  /\ Finish(Send([loop EXCEPT !.tasks.persist = None], [type |-> "PersistenceError"]))
  /\ UNCHANGED <<snap, ice>>

Maintain(ok) ==
  /\ loop.tasks.maintenance # "none"
  /\ IF ok THEN UNCHANGED left ELSE Spend("maintenance_fault")
  /\ Finish(Send([loop EXCEPT !.tasks.maintenance = "none"],
                 [type |-> loop.tasks.maintenance, ok |-> ok]))
  /\ UNCHANGED <<snap, ice>>

PersistWal(ok) ==
  /\ loop.tasks.wal
  /\ IF ok THEN UNCHANGED left ELSE Spend("wal_fault")
  /\ Finish(Send([loop EXCEPT !.tasks.wal = FALSE], [type |-> "WalResult", ok |-> ok]))
  /\ UNCHANGED <<snap, ice>>
-----------------------------------------------------------------------------
(* The loop receives its own events in the order they were sent *)

Receive(type) ==
  /\ Running
  /\ loop.chan # <<>>
  /\ Head(loop.chan).type = type
  /\ UNCHANGED <<snap, ice, scenario, done, sent, replication, boundary, left>>

Event1 == Head(loop.chan)
Rest   == [loop EXCEPT !.chan = Tail(@)]

ReceiveFlushResult ==
  /\ Receive("FlushResult")
  /\ loop' = HandleFlushResult(Rest, Event1.slice)

ReceiveSnapshotResult == Receive("SnapshotResult") /\ loop' = HandleSnapshotResult(Rest, Event1)

ReceiveRegularIcebergSnapshot ==
  /\ Receive("RegularIcebergSnapshot")
  /\ \E locked \in {FALSE, loop.tasks.snapshot # None} :
       loop' = HandleRegularIcebergSnapshot(Rest, Event1.payload, locked)

ReceivePersistenceResult ==
  Receive("PersistenceResult") /\ loop' = HandlePersistenceResult(Rest, Event1.res, replication)

ReceivePersistenceError == Receive("PersistenceError") /\ loop' = HandlePersistenceError(Rest)

ReceiveIndexMergeResult == Receive("index_merge") /\ loop' = HandleIndexMergeResult(Rest, Event1.ok)

ReceiveCompactionResult == Receive("compaction") /\ loop' = HandleCompactionResult(Rest, Event1.ok)

ReceiveWalResult == Receive("WalResult") /\ loop' = HandleWalResult(Rest, Event1.ok)
-----------------------------------------------------------------------------
(* The process dies: iceberg is what is left, and the table is loaded from   *)
(* it.  The source replays from some transaction at or before its LSN.       *)
Crash ==
  /\ Spend("crash")
  /\ loop' = NewLoop(ice.lsn)
  /\ snap' = NewSnapshot(ice.lsn, ice.rows, ice.deleted)
  /\ \E p \in {0} \cup {i \in Xact : EndLsn(i) <= ice.lsn} : done' = p
  /\ sent' = [i \in Xact |-> 0]
  /\ replication' = NoLsn
  /\ boundary' = NoLsn
  /\ UNCHANGED <<ice, scenario>>

(* The replication connection breaks and is made again: Postgres resumes     *)
(* after the LSN it was told is durable, and the tables are as they were.    *)
Reconnect ==
  /\ Running
  /\ Spend("reconnect")
  /\ \E p \in {0} \cup {i \in 1 .. done : EndLsn(i) <= loop.table.persisted} :
       /\ done' = p
       /\ sent' = [i \in Xact |-> IF i > p THEN 0 ELSE sent[i]]
  /\ UNCHANGED <<loop, snap, ice, scenario, replication, boundary>>

Source ==
  \/ \E i \in Xact : SendRow(i)
  \/ \E i \in Xact : EndTransaction(i)

CopyStep ==
  \/ \E i \in Xact : LoadInitialCopy(i)
  \/ EndInitialCopy

ReceiveStep ==
  \/ ReceiveFlushResult
  \/ ReceiveSnapshotResult
  \/ ReceiveRegularIcebergSnapshot
  \/ ReceivePersistenceResult
  \/ ReceivePersistenceError
  \/ ReceiveIndexMergeResult
  \/ ReceiveCompactionResult
  \/ ReceiveWalResult

TaskStep ==
  \/ \E slice \in loop.table.flushes : WriteSlice(slice)
  \/ UpdateSnapshot
  \/ PersistSnapshot
  \/ FailPersist
  \/ \E ok \in BOOLEAN : Maintain(ok)
  \/ \E ok \in BOOLEAN : PersistWal(ok)

ClientStep ==
  \/ \E lsn \in OptLsn : RequestForceSnapshot(lsn)
  \/ \E kind \in {"index_merge", "compaction"} : RequestMaintenance(kind)
  \/ RequestDropTable
  \/ RequestAlterTable
  \/ BeginInitialCopy

Next ==
  \/ Source
  \/ ReplicateAhead
  \/ CopyStep
  \/ PeriodicalMooncakeTableSnapshot
  \/ PeriodicalWal
  \/ ClientStep
  \/ TaskStep
  \/ ReceiveStep
  \/ Crash
  \/ Reconnect

Spec == Init /\ [][Next]_vars

(* The source keeps sending, timers keep ticking, tasks end, and the loop    *)
(* keeps receiving; requests and faults need not happen.                     *)
Fairness ==
  /\ WF_vars(Source)
  /\ WF_vars(CopyStep)
  /\ WF_vars(PeriodicalMooncakeTableSnapshot)
  /\ WF_vars(\E slice \in loop.table.flushes : WriteSlice(slice))
  /\ WF_vars(UpdateSnapshot)
  /\ WF_vars(PersistSnapshot \/ FailPersist)
  /\ WF_vars(\E ok \in BOOLEAN : Maintain(ok))
  /\ WF_vars(\E ok \in BOOLEAN : PersistWal(ok))
  /\ WF_vars(ReceiveStep)

FairSpec == Spec /\ Fairness
-----------------------------------------------------------------------------
(* Whatever overlapped, the iceberg table holds exactly what the source held *)
(* after the transactions that end at or before the LSN it claims, no row of *)
(* it twice: what a recovery starts from, and what replay is cut off at.     *)
DurablePrefix ==
  /\ ice.rows \ ice.deleted = Visible(ice.lsn)
  /\ ice.twice = {}

(* No assertion of the event loop or of its tasks fails *)
NoPanic == loop.table.panic = ""

(* A caller of force snapshot is never told an LSN below which a transaction *)
(* of the table is missing from iceberg.                                     *)
AckedIsDurable == \A i \in Effective(loop.client.acked) : EndLsn(i) <= ice.lsn

(* A force snapshot request that is waiting is answered: the loop keeps      *)
(* flushing and snapshotting until its LSN is persisted.                     *)
ForceSnapshotAnswered == loop.state.force_lsn # NoLsn ~> loop.state.force_lsn = NoLsn

(* A table marked for dropping is dropped once its background work is over   *)
DropCompletes == loop.state.special = "DropTable" ~> loop.state.special = "Dropped"

(* An altered table, and one being copied, takes events again                *)
BlockingEnds ==
  loop.state.special \in {"AlterTable", "InitialCopy"} ~> loop.state.special = "Normal"

(* A caller of table maintenance that has to wait hears of its end           *)
MaintenanceAnswered ==
  loop.client.maintenance = "waiting" ~> loop.client.maintenance # "waiting"

(* Whoever waits for the loop is released: a drop is carried out when the    *)
(* last background task ends, a blocked table takes events again, and the    *)
(* end of maintenance is heard of (can_drop_table_now, finish_initial_copy,  *)
(* mark_data_compaction_completed).                                          *)
WaitingEnds == DropCompletes /\ BlockingEnds /\ MaintenanceAnswered

(* No request breaks the table, whenever it comes: iceberg holds the prefix  *)
(* it claims through initial copies, force snapshots and drops, and no       *)
(* assertion fails (process_blocked_events, can_drop_table_now).             *)
TableStaysSound == DurablePrefix /\ NoPanic
=============================================================================
