--------------------------------- MODULE Wal ---------------------------------
(***************************************************************************)
(* The write-ahead log of one table at work.  The event loop pushes every  *)
(* event it applies to the log; a timer has a background task write the    *)
(* buffered events as a new file, save the metadata and delete the files   *)
(* an iceberg snapshot made superfluous, in this order; the source forgets *)
(* what it is told is durable.  After a crash the table is loaded from     *)
(* iceberg, its loop is started, the log is sent to the loop event by      *)
(* event, and the source sends the rest again.                             *)
(*                                                                         *)
(* The table itself is the list of its commits, and iceberg a prefix of    *)
(* it: TableHandler and FlushLsns are about that prefix being right.       *)
(***************************************************************************)
EXTENDS WalOps

CONSTANT Scenarios      \* what the source does, and how often things go wrong

Faults == {"crash", "wal_fault"}

(* script  the kind and the number of rows of each transaction             *)
(* ordered the source's events wait for the end of the replay, as the      *)
(*         comment of replay_recovery_from_wal says; nothing makes them    *)
(* budget  how often each fault may happen                                 *)
IsScenario(c) ==
  /\ DOMAIN c.script \subseteq Xact
  /\ \A i \in DOMAIN c.script : c.script[i] \in [kind : {"main", "stream", "abort"}, rows : 1 .. 2]
  /\ c.ordered \in BOOLEAN
  /\ c.budget \in [Faults -> Nat]

EndLsn(i) == 2 * i
RowLsn(i) == 2 * i - 1      \* final_lsn of the Begin message

ASSUME WalAssumption == Xact = 1 .. Cardinality(Xact) /\ \A c \in Scenarios : IsScenario(c)

VARIABLES
  wal,        \* WalManager
  disk,       \* files and metadata of the log
  task,       \* the update in the background: its next step and what it writes
  ongoing,    \* wal_persist_ongoing
  table,      \* commits of the table, rows that wait for one, what the loop
              \* knows is in iceberg, the LSN iceberg was loaded at and the
              \* LSN replay is cut off at
  replay,     \* the events of the log that are still to be sent to the loop
  ice,        \* LSN and commits of the iceberg table
  told,       \* wal_flush_lsn, flush_lsn, and what the source knows is durable
  done, sent, \* transactions the source ended, rows it sent of each
  scenario, left, panic

vars == <<wal, disk, task, ongoing, table, replay, ice, told, done, sent, scenario, left, panic>>
-----------------------------------------------------------------------------
script == scenario.script
Txs    == DOMAIN script
Count  == Len(script)
Streamed(i) == script[i].kind \in {"stream", "abort"}
XidOf(i)    == IF Streamed(i) THEN i ELSE 0
RowsOf(i)   == [k \in 1 .. script[i].rows |-> <<i, k>>]
Commits     == {i \in Txs : script[i].kind # "abort"}

NewTable(log, lsn, initial) ==
  [log |-> log, pending |-> <<>>, streams |-> [x \in Xact |-> <<>>],
   persisted |-> lsn, loaded |-> lsn, initial |-> initial]

Init ==
  /\ scenario \in Scenarios
  /\ wal = NewWal
  /\ disk = [files |-> <<>>, metadata |-> None]
  /\ task = None
  /\ ongoing = FALSE
  /\ table = NewTable(<<>>, NoLsn, NoLsn)
  /\ replay = <<>>
  /\ ice = [lsn |-> NoLsn, log |-> <<>>]
  /\ told = [wal |-> NoLsn, flush |-> NoLsn, source |-> NoLsn]
  /\ done = 0
  /\ sent = [i \in Txs |-> 0]
  /\ left = scenario.budget
  /\ panic = ""

Spend(fault) == left[fault] > 0 /\ left' = [left EXCEPT ![fault] = @ - 1]
-----------------------------------------------------------------------------
(* What the table does with an event, the log aside.  A streaming commit not *)
(* after initial_persistence_lsn is taken for one that is persisted already, *)
(* also when it comes from the log.                                          *)
Apply(t, e) ==
  CASE e.type \in {"Append", "Delete"} /\ e.xid = 0 -> [t EXCEPT !.pending = Append(@, e.row)]
    [] e.type \in {"Append", "Delete"} /\ e.xid # 0 -> [t EXCEPT !.streams[e.xid] = Append(@, e.row)]
    [] e.type = "Commit" /\ e.xid = 0 ->
         [t EXCEPT !.log = Append(@, [lsn |-> e.lsn, rows |-> t.pending]), !.pending = <<>>]
    [] e.type = "Commit" /\ e.xid # 0 /\ e.lsn <= t.initial -> [t EXCEPT !.streams[e.xid] = <<>>]
    [] e.type = "Commit" /\ e.xid # 0 /\ e.lsn > t.initial ->
         [t EXCEPT !.log = Append(@, [lsn |-> e.lsn, rows |-> t.streams[e.xid]]), !.streams[e.xid] = <<>>]
    [] e.type = "StreamAbort" -> [t EXCEPT !.streams[e.xid] = <<>>]

(* The same for a sequence of events; CHOOSE has TLC evaluate each step once *)
ApplyAll(t, events) == FoldLeft(LAMBDA s, e : CHOOSE n \in {Apply(x, e) : x \in {s}} : TRUE, t, events)

(* Streaming events carry no LSN until they commit and are never discarded *)
ShouldDiscard(t, e) == e.xid = 0 /\ t.initial # NoLsn /\ e.lsn <= t.initial

ProcessCdcTableEvent(e) ==
  IF ShouldDiscard(table, e) THEN UNCHANGED <<wal, table, panic>>
  ELSE /\ wal' = Push(wal, e)
       /\ table' = Apply(table, e)
       /\ panic' = IF PushAsserts(wal, e) THEN panic ELSE "push"

Running == panic = ""

SourceMayRun == scenario.ordered => replay = <<>>

(* Rows of a streaming transaction may come long before it ends; the rows   *)
(* of another one come together.                                            *)
SendRow(i) ==
  /\ Running
  /\ SourceMayRun
  /\ i > done /\ sent[i] < script[i].rows
  /\ \A j \in Txs \ {i} : ~Streamed(j) => sent[j] = 0 \/ j <= done
  /\ ~Streamed(i) => i = done + 1
  /\ ProcessCdcTableEvent(Event(IF sent[i] = 0 THEN "Append" ELSE "Delete", XidOf(i), <<i, sent[i] + 1>>,
                                IF Streamed(i) THEN NoLsn ELSE RowLsn(i)))
  /\ sent' = [sent EXCEPT ![i] = @ + 1]
  /\ UNCHANGED <<replay, disk, task, ongoing, ice, told, done, scenario, left>>

EndTransaction(i) ==
  /\ Running
  /\ SourceMayRun
  /\ i = done + 1 /\ sent[i] = script[i].rows
  /\ ProcessCdcTableEvent(IF script[i].kind = "abort" THEN Event("StreamAbort", i, None, NoLsn)
                                                      ELSE Event("Commit", XidOf(i), None, EndLsn(i)))
  /\ done' = i
  /\ UNCHANGED <<replay, disk, task, ongoing, ice, told, sent, scenario, left>>

(* An iceberg snapshot of some prefix of the commits, one at a time, and the *)
(* loop hearing of it; TableHandler is about which prefixes there are.       *)
PersistIceberg(lsn) ==
  /\ Running
  /\ table.persisted = ice.lsn
  /\ lsn > ice.lsn /\ \E k \in DOMAIN table.log : table.log[k].lsn = lsn
  /\ ice' = [lsn |-> lsn, log |-> SelectSeq(table.log, LAMBDA c : c.lsn <= lsn)]
  /\ UNCHANGED <<replay, wal, disk, task, ongoing, table, told, done, sent, scenario, left, panic>>

HandlePersistenceResult ==
  /\ Running
  /\ table.persisted # ice.lsn
  /\ table' = [table EXCEPT !.persisted = ice.lsn]
  /\ told' = [told EXCEPT !.flush = ice.lsn]
  /\ UNCHANGED <<replay, wal, disk, task, ongoing, ice, done, sent, scenario, left, panic>>
-----------------------------------------------------------------------------
(* PeriodicalPersistenceUpdateWal, when there is something to write or delete *)
DoWalPersistenceUpdate ==
  LET update == PersistentUpdate(wal, table.persisted)
  IN  /\ Running
      /\ ~ongoing
      /\ ShouldDoPersistence(update)
      /\ wal' = Extracted(wal)
      /\ task' = [step |-> IF update.file = None THEN "metadata" ELSE "file", update |-> update]
      /\ ongoing' = TRUE
      /\ panic' = IF /\ TruncateAsserts(wal, table.persisted)
                     /\ CleanUpAsserts(Extracted(wal), table.persisted, update.delete)
                  THEN panic ELSE "prepare"
      /\ UNCHANGED <<replay, disk, table, ice, told, done, sent, scenario, left>>

Step(step) == Running /\ task # None /\ task.step = step

(* The three steps of wal_persist_truncate_async, in the order that matters *)
PersistNewWalFile ==
  LET f == task.update.file
  IN  /\ Step("file")
      /\ disk' = [disk EXCEPT !.files = [n \in DOMAIN @ \cup {f.number} |->
                                           IF n = f.number THEN task.update.events ELSE @[n]]]
      /\ task' = [task EXCEPT !.step = "metadata"]
      /\ UNCHANGED <<replay, wal, ongoing, table, ice, told, done, sent, scenario, left, panic>>

PersistMetadata ==
  /\ Step("metadata")
  /\ disk' = [disk EXCEPT !.metadata = task.update.metadata]
  /\ task' = [task EXCEPT !.step = IF task.update.delete = <<>> THEN "done" ELSE "delete"]
  /\ UNCHANGED <<replay, wal, ongoing, table, ice, told, done, sent, scenario, left, panic>>

(* All deletions are attempted; if one fails, some may have happened *)
Without(files, gone) == [n \in DOMAIN files \ gone |-> files[n]]
Doomed == {f.number : f \in Range(task.update.delete)}

DeleteFiles ==
  /\ Step("delete")
  /\ disk' = [disk EXCEPT !.files = Without(@, Doomed)]
  /\ task' = [task EXCEPT !.step = "done"]
  /\ UNCHANGED <<replay, wal, ongoing, table, ice, told, done, sent, scenario, left, panic>>

FailWalTask ==
  /\ Running
  /\ task # None /\ task.step \in {"file", "metadata", "delete"}
  /\ Spend("wal_fault")
  /\ IF task.step = "delete"
     THEN \E gone \in SUBSET Doomed : disk' = [disk EXCEPT !.files = Without(@, gone)]
     ELSE UNCHANGED disk
  /\ task' = [task EXCEPT !.step = "failed"]
  /\ UNCHANGED <<replay, wal, ongoing, table, ice, told, done, sent, scenario, panic>>

(* The loop takes the result.  An error is logged and leaves the flag set.  *)
HandleWalResult ==
  LET w == UpdateTrackers(wal, task.update)
  IN  /\ Step("done")
      /\ wal' = w
      /\ told' = [told EXCEPT !.wal = IF task.update.file = None THEN @ ELSE HighestPersisted(task.update)]
      /\ ongoing' = FALSE
      /\ task' = None
      /\ panic' = IF /\ CleanUpAsserts([wal EXCEPT !.live = w.live], task.update.lsn, task.update.delete)
                     /\ ResultAsserts(w, task.update)
                  THEN panic ELSE "result"
      /\ UNCHANGED <<replay, disk, table, ice, done, sent, scenario, left>>

HandleWalError ==
  /\ Step("failed")
  /\ task' = None
  /\ UNCHANGED <<replay, wal, disk, ongoing, table, ice, told, done, sent, scenario, left, panic>>

(* Mutant: confirms what the log has seen rather than what it wrote *)
ConfirmedSeen == wal.highest

(* compute_confirmed_wal_flush_lsn, sent with a status update *)
Confirmed == IF told.wal > 0 THEN told.wal ELSE told.flush

SendStatusUpdate ==
  /\ Running
  /\ Confirmed > told.source
  /\ told' = [told EXCEPT !.source = Confirmed]
  /\ UNCHANGED <<replay, wal, disk, task, ongoing, table, ice, done, sent, scenario, left, panic>>
-----------------------------------------------------------------------------
(* event_loop: what is not after this LSN is in iceberg or in the log *)
InitialLsn(meta, lsn) == IF meta # None /\ meta.curr > 0 THEN Max({lsn, meta.highest}) ELSE lsn

(* What replay_recovery_from_wal sends: the events of the log, an abort for *)
(* each streaming transaction it leaves open, and FinishRecovery            *)
RecoveryEvents(meta, files, lsn) ==
  IF meta = None \/ meta.live = <<>> THEN <<>>
  ELSE Replayed(meta, files, lsn)
         \o SetToSeq({Event("StreamAbort", x, None, NoLsn) : x \in LeftOpen(meta)})
         \o <<Event("FinishRecovery", 0, None, meta.highest)>>

(* The process dies, build_table_components reads the metadata and loads    *)
(* iceberg, and the table is registered with the replication loop, which    *)
(* already runs: from here on the source sends what it has not been told of *)
CrashAndLoad ==
  LET meta   == disk.metadata
      resume == Cardinality({i \in Txs : EndLsn(i) <= told.source})
  IN  /\ Running
      /\ Spend("crash")
      /\ wal' = FromMetadata(meta)
      /\ table' = NewTable(ice.log, ice.lsn, InitialLsn(meta, ice.lsn))
      /\ replay' = RecoveryEvents(meta, disk.files, ice.lsn)
      /\ panic' = IF ReplayPanics(meta, disk.files, ice.lsn) THEN "replay" ELSE panic
      /\ told' = [told EXCEPT !.wal = NoLsn, !.flush = NoLsn]
      /\ task' = None
      /\ ongoing' = FALSE
      /\ done' = resume
      /\ sent' = [i \in Txs |-> IF i <= resume THEN sent[i] ELSE 0]
      /\ UNCHANGED <<disk, ice, scenario>>

(* Events of the log are applied, not logged again and not discarded; the   *)
(* aborts are only logged                                                   *)
ReplayEvent ==
  LET e == Head(replay)
  IN  /\ Running
      /\ replay # <<>>
      /\ replay' = Tail(replay)
      /\ \/ /\ e.type \in {"Append", "Delete", "Commit"}
            /\ table' = Apply(table, e)
            /\ UNCHANGED <<wal, told>>
         \/ /\ e.type = "StreamAbort"
            /\ wal' = Push(wal, e)
            /\ UNCHANGED <<table, told>>
         \/ /\ e.type = "FinishRecovery"
            /\ told' = [told EXCEPT !.wal = e.lsn]
            /\ UNCHANGED <<wal, table>>
      /\ UNCHANGED <<disk, task, ongoing, ice, done, sent, scenario, left, panic>>

Source == \E i \in Txs : SendRow(i) \/ EndTransaction(i)

WalTask == PersistNewWalFile \/ PersistMetadata \/ DeleteFiles

Next ==
  \/ Source
  \/ \E i \in Txs : PersistIceberg(EndLsn(i))
  \/ HandlePersistenceResult
  \/ DoWalPersistenceUpdate
  \/ PersistNewWalFile
  \/ PersistMetadata
  \/ DeleteFiles
  \/ FailWalTask
  \/ HandleWalResult
  \/ HandleWalError
  \/ SendStatusUpdate
  \/ CrashAndLoad
  \/ ReplayEvent

Spec == Init /\ [][Next]_vars

(* The source, the timers and the tasks go on; iceberg snapshots are taken  *)
Fairness ==
  /\ WF_vars(Source)
  /\ WF_vars(\E i \in Txs : PersistIceberg(EndLsn(i)))
  /\ WF_vars(HandlePersistenceResult)
  /\ WF_vars(DoWalPersistenceUpdate)
  /\ WF_vars(WalTask)
  /\ WF_vars(HandleWalResult)
  /\ WF_vars(SendStatusUpdate)
  /\ WF_vars(ReplayEvent)

FairSpec == Spec /\ Fairness

(* Another table whose log has the same root directory is dropped as well:  *)
(* drop_wal removes the directory of all of them.                           *)
DropOtherTable ==
  /\ Running
  /\ disk # [files |-> <<>>, metadata |-> None]
  /\ disk' = [files |-> <<>>, metadata |-> None]
  /\ UNCHANGED <<replay, wal, task, ongoing, table, ice, told, done, sent, scenario, left, panic>>

SharedSpec == Init /\ [][Next \/ DropOtherTable]_vars
-----------------------------------------------------------------------------
(* The commits of the source up to an LSN, each with its rows *)
History(lsn) ==
  LET ended == SelectSeq([i \in Txs |-> i], LAMBDA i : i \in Commits /\ EndLsn(i) <= lsn)
  IN  [k \in DOMAIN ended |-> [lsn |-> EndLsn(ended[k]), rows |-> RowsOf(ended[k])]]

LastLsn(log) == IF log = <<>> THEN NoLsn ELSE Last(log).lsn

(* The commits a recovery would end with if the process died now *)
RecoveredLog ==
  ApplyAll(NewTable(ice.log, ice.lsn, InitialLsn(disk.metadata, ice.lsn)),
           Replayed(disk.metadata, disk.files, ice.lsn)).log

(* Types: a live log file has a number below the next one, and iceberg has    *)
(* at least what the table believes persisted (WalManager)                   *)
TypeOK ==
  /\ wal.curr \in Nat /\ wal.highest \in {NoLsn} \cup {EndLsn(i) : i \in Xact}
  /\ \A k \in DOMAIN wal.live : wal.live[k].number < wal.curr
  /\ DOMAIN disk.files \subseteq Nat
  /\ task # None => task.step \in {"file", "metadata", "delete", "done", "failed"} /\ ongoing
  /\ table.persisted <= ice.lsn
  /\ done \in 0 .. Count /\ sent \in [Txs -> 0 .. 2]

FirstCrash  == left["crash"] = scenario.budget["crash"]

Holds(log, i) == \E k \in DOMAIN log : log[k].lsn = EndLsn(i) /\ Range(RowsOf(i)) \subseteq Range(log[k].rows)

(* "We reapply all WAL events that are already committed transactions at the *)
(* time of recovery" (should_reapply_wal_event): whatever is told comes back *)
AllToldIsDurable == \A i \in Commits : EndLsn(i) <= told.source => Holds(RecoveredLog, i)

(* The source is told that a transaction is durable, and forgets it, only    *)
(* when a recovery would bring all of it back, after earlier crashes too.    *)
(* A streaming transaction comes back from iceberg only: replay applies its  *)
(* rows and takes its commit for one that iceberg has (AllToldIsDurable).    *)
ToldIsDurable == \A i \in Commits : ~Streamed(i) /\ EndLsn(i) <= told.source => Holds(RecoveredLog, i)

(* The history up to an LSN, without the streaming transactions the log has *)
(* and iceberg, at the LSN from, has not                                    *)
Replayable(lsn, from, initial) ==
  SelectSeq(History(lsn), LAMBDA c : ~(Streamed(c.lsn \div 2) /\ from < c.lsn /\ c.lsn <= initial))

(* Whatever the files and the metadata on disk are when the process dies,   *)
(* half-way through an update too, loading iceberg and replaying the log    *)
(* gives a prefix of what the source committed, but for the streaming       *)
(* transactions that only the log has: no other missing from the middle, no *)
(* row lost or applied twice, none of an open transaction.                  *)
RecoversPrefix ==
  RecoveredLog = Replayable(LastLsn(RecoveredLog), ice.lsn, InitialLsn(disk.metadata, ice.lsn))

(* The table holds every transaction once, in order, also after a recovery  *)
(* in which the log and the source both bring transactions back; streaming  *)
(* ones that only the log had are gone for good.                            *)
TableIsHistory == table.log = Replayable(LastLsn(table.log), table.loaded, table.initial)

(* The table is a prefix of the history, and so is what a crash would leave  *)
(* of it as long as the process has not died before: a second crash can find *)
(* rows of a transaction twice in the log, from before the first crash and   *)
(* sent again after it (replay_recovery_from_wal).  Of streaming             *)
(* transactions both hold what iceberg holds.                                *)
RecoveryIsPrefix == TableIsHistory /\ (FirstCrash => RecoversPrefix)

(* No assertion of the log fails, none in debug builds either, and replay   *)
(* meets no event it does not know.                                         *)
NoPanic == panic = ""

(* The LSNs of the non-streaming commits *)
Lsns(log) == LET main == SelectSeq(log, LAMBDA c : ~Streamed(c.lsn \div 2)) IN [k \in DOMAIN main |-> main[k].lsn]

(* The table when the rest of the log is replayed *)
Whole == ApplyAll(table, SelectSeq(replay, KnownInReplay))

Promise == INSTANCE CommitLog WITH
             Lsn <- {EndLsn(i) : i \in Xact}, log <- Lsns(Whole.log), durable <- Lsns(RecoveredLog),
             told <- Max({NoLsn} \cup {EndLsn(i) : i \in {j \in Txs : ~Streamed(j) /\ EndLsn(j) <= told.source}})

(* To its source the table with its log is a CommitLog of the transactions   *)
(* that are not streamed: what a crash leaves of them never shrinks, and     *)
(* covers all the source was told of, whichever of iceberg, the metadata and *)
(* the files was written last.                                               *)
ImplementsCommitLog == Promise!Spec

(* Unless something fails, once a transaction committed every log file is   *)
(* deleted in the end, and the source told of all it sent.                  *)
LogIsTruncated ==
  []<>(\/ left # scenario.budget \/ Commits = {}
       \/ wal.live = <<>> /\ told.source = LastLsn(History(EndLsn(Count))))
=============================================================================
