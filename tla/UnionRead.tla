------------------------------ MODULE UnionRead ------------------------------
(***************************************************************************)
(* Union reads of one table: ReadStateManager (union_read/), the read      *)
(* states it hands out, the temporary files behind them, and the three     *)
(* watch channels it looks at.  The sink advances the commit LSN of the    *)
(* table and the replication LSN; the event loop builds a mooncake         *)
(* snapshot in the background and announces it later; readers load the     *)
(* channels one by one, wait, and share the last read state.               *)
(*                                                                         *)
(* The source log is 1 .. n.  The LSNs in scenario.commits are commits of  *)
(* this table (one row each), the others are activity elsewhere, seen as   *)
(* keepalives.  Files in remote storage are modelled in ObjectStorageCache;*)
(* here resolving them succeeds or fails.                                  *)
(***************************************************************************)
EXTENDS Integers, Sequences

CONSTANTS
  Reader,       \* the connections that read the table
  Scenarios     \* the source logs and budgets to start from

VARIABLES
  chan,         \* the watch channels: [snapshot, commit, repl]
  sink,         \* the commit being handed out by the sink, or 0
  received,     \* the last commit the event loop got
  snap,         \* SnapshotTableState: [version, disk]: rows up to disk are in data files
  unannounced,  \* a snapshot was built and its readers are not notified yet
  manager,      \* [lsn, state]: last_read_lsn and last_read_state
  states,       \* the read states ever built: [version, disk, temp, status]
  temp,         \* temporary files: snapshot version to the rows in the file
  reader,       \* what each connection does: [pc, want, snapshot, commit, repl, state]
  left,         \* remaining [reads, failures]
  torn,         \* a reader loaded the channels around or during the marks of a commit
  early,        \* a snapshot was read before it was announced
  failed,       \* resolving the files of a read failed
  scenario,
  panic

vars == <<chan, sink, received, snap, unannounced, manager, states, temp, reader,
          left, torn, early, failed, scenario, panic>>

U64Max == 99                \* NO_READ_LSN, NO_CACHE_LSN, NO_SNAPSHOT_LSN
NoCommitLsn == 0
Latest == 0                 \* a request without an LSN

(* A log is shorter than u64, and recovery replays from the persisted LSN on *)
ASSUME ScenarioAssumption ==
  /\ Scenarios \subseteq [log : Nat, commits : SUBSET Nat, persisted : Nat, replayed : Nat,
                           reads : Nat, failures : Nat]
  /\ \A s \in Scenarios : /\ s.commits \subseteq 1 .. s.log
                           /\ s.persisted <= s.replayed /\ s.replayed <= s.log /\ s.log < U64Max

Log     == 1 .. scenario.log
Commits == scenario.commits

(* The rows committed in (from, to] *)
RowsIn(from, to) == {c \in Commits : from < c /\ c <= to}

Idle == [pc |-> "idle", want |-> Latest, floor |-> 0, cached |-> 0,
         snapshot |-> 0, commit |-> 0, repl |-> 0, state |-> 0]

(* The empty read state the manager starts with *)
Empty == [version |-> 0, disk |-> 0, temp |-> 0, status |-> "live"]
-----------------------------------------------------------------------------
Init ==
  /\ scenario \in Scenarios
  /\ chan = [snapshot |-> IF scenario.persisted = 0 THEN U64Max ELSE scenario.persisted,
             commit |-> scenario.persisted, repl |-> scenario.persisted]
  /\ sink = 0
  /\ received = scenario.replayed
  /\ snap = [version |-> scenario.persisted, disk |-> scenario.persisted]
  /\ unannounced = FALSE
  /\ manager = [lsn |-> U64Max, state |-> 1]
  /\ states = <<Empty>>
  /\ temp = [v \in 0 .. scenario.log |-> {}]
  /\ reader = [r \in Reader |-> Idle]
  /\ left = [reads |-> scenario.reads, failures |-> scenario.failures]
  /\ torn = FALSE /\ early = FALSE /\ failed = FALSE /\ panic = FALSE

(* LsnState.mark *)
Mark(current, lsn) == IF lsn > current THEN lsn ELSE current

(* What the source sends next; what the log replayed is not sent again *)
NextLsn == Mark(chan.repl, scenario.replayed) + 1

(* Readers between the first and the last load of the slow path *)
Loading == {r \in Reader : reader[r].pc \in {"load_commit", "load_repl"}}
-----------------------------------------------------------------------------
(* The sink gets the commit of the next transaction: the commit LSN of the  *)
(* table moves and the loop is told, the replication LSN only at the end    *)
SinkCommit ==
  /\ sink = 0 /\ ~panic
  /\ \E lsn \in Commits :
       /\ lsn = NextLsn
       /\ chan' = [chan EXCEPT !.commit = Mark(@, lsn)]
       /\ sink' = lsn
       /\ received' = Mark(received, lsn)
  /\ torn' = (torn \/ Loading # {})
  /\ UNCHANGED <<snap, unannounced, manager, states, temp, reader, left, early, failed,
                 scenario, panic>>

(* Mutant: the replication LSN is left to the keepalives *)
SinkReplicatedForgotten ==
  /\ sink # 0 /\ ~panic
  /\ sink' = 0
  /\ UNCHANGED <<chan, received, snap, unannounced, manager, states, temp, reader, left, torn,
                 early, failed, scenario, panic>>

SinkReplicated ==
  /\ sink # 0 /\ ~panic
  /\ chan' = [chan EXCEPT !.repl = Mark(@, sink)]
  /\ sink' = 0
  /\ torn' = (torn \/ Loading # {})
  /\ UNCHANGED <<received, snap, unannounced, manager, states, temp, reader, left, early,
                 failed, scenario, panic>>

(* PrimaryKeepAlive, or the commit of another table *)
SinkKeepAlive ==
  /\ sink = 0 /\ ~panic
  /\ \E lsn \in Log \ Commits :
       /\ lsn = NextLsn
       /\ chan' = [chan EXCEPT !.repl = Mark(@, lsn)]
  /\ UNCHANGED <<sink, received, snap, unannounced, manager, states, temp, reader, left,
                 torn, early, failed, scenario, panic>>
-----------------------------------------------------------------------------
(* The background task updates the snapshot under its write lock: new       *)
(* commits become visible, flushed rows move to data files                  *)
UpdateSnapshot ==
  /\ ~unannounced /\ ~panic
  /\ \E disk \in snap.disk .. received :
       /\ disk \in Commits \cup {snap.disk}
       /\ snap' = [version |-> received, disk |-> disk]
  /\ snap' # snap
  /\ unannounced' = TRUE
  /\ UNCHANGED <<chan, sink, received, manager, states, temp, reader, left, torn, early,
                 failed, scenario, panic>>

(* The loop hears of it and notifies the readers *)
NotifySnapshotReader ==
  /\ unannounced /\ ~panic
  /\ chan' = [chan EXCEPT !.snapshot = snap.version]
  /\ unannounced' = FALSE
  /\ UNCHANGED <<sink, received, snap, manager, states, temp, reader, left, torn, early,
                 failed, scenario, panic>>
-----------------------------------------------------------------------------
(* try_read: the loads of the fast path *)
Goto(r, pc) == reader' = [reader EXCEPT ![r].pc = pc]

StartRead(r) ==
  /\ reader[r].pc = "idle" /\ left.reads > 0 /\ ~panic
  /\ \E want \in {Latest} \cup Log :
       reader' = [reader EXCEPT ![r] =
         [Idle EXCEPT !.pc = "cached_snapshot", !.want = want, !.cached = manager.lsn,
                      !.floor = IF want # Latest \/ chan.snapshot = U64Max THEN 0 ELSE chan.snapshot]]
  /\ left' = [left EXCEPT !.reads = @ - 1]
  /\ UNCHANGED <<chan, sink, received, snap, unannounced, manager, states, temp, torn, early,
                 failed, scenario, panic>>

LoadCachedSnapshot(r) ==
  /\ reader[r].pc = "cached_snapshot" /\ ~panic
  /\ reader' = [reader EXCEPT ![r].pc = "cached_commit", ![r].snapshot = chan.snapshot]
  /\ UNCHANGED <<chan, sink, received, snap, unannounced, manager, states, temp, left, torn,
                 early, failed, scenario, panic>>

SnapshotIsClean(snapshot, commit) ==
  \/ snapshot = U64Max /\ commit = NoCommitLsn
  \/ snapshot = commit /\ snapshot # U64Max

ShouldUseCache(want, cached, snapshot, commit) ==
  /\ cached # U64Max
  /\ SnapshotIsClean(snapshot, commit)
  /\ cached = snapshot
  /\ want # Latest => cached >= want

LoadCachedCommit(r) ==
  /\ reader[r].pc = "cached_commit" /\ ~panic
  /\ Goto(r, IF ShouldUseCache(reader[r].want, reader[r].cached, reader[r].snapshot, chan.commit)
             THEN "cached" ELSE "load_snapshot")
  /\ UNCHANGED <<chan, sink, received, snap, unannounced, manager, states, temp, left, torn,
                 early, failed, scenario, panic>>

(* The read state is cloned, whatever it is by then *)
Answer(r, state) == reader' = [reader EXCEPT ![r].pc = "reading", ![r].state = state]

ReadCached(r) ==
  /\ reader[r].pc = "cached" /\ ~panic
  /\ Answer(r, manager.state)
  /\ UNCHANGED <<chan, sink, received, snap, unannounced, manager, states, temp, left, torn,
                 early, failed, scenario, panic>>
-----------------------------------------------------------------------------
(* The loop of try_read: one load after the other *)
LoadSnapshot(r) ==
  /\ reader[r].pc = "load_snapshot" /\ ~panic
  /\ reader' = [reader EXCEPT ![r].pc = "load_commit", ![r].snapshot = chan.snapshot]
  /\ UNCHANGED <<chan, sink, received, snap, unannounced, manager, states, temp, left, torn,
                 early, failed, scenario, panic>>

LoadCommit(r) ==
  /\ reader[r].pc = "load_commit" /\ ~panic
  /\ reader' = [reader EXCEPT ![r].pc = "load_repl", ![r].commit = chan.commit]
  /\ torn' = (torn \/ sink # 0)
  /\ UNCHANGED <<chan, sink, received, snap, unannounced, manager, states, temp, left, early,
                 failed, scenario, panic>>

(* The assertions of can_satisfy_read_from_snapshot *)
LsnsInOrder(snapshot, commit, repl) ==
  /\ snapshot # U64Max /\ commit # NoCommitLsn => snapshot <= commit
  /\ commit <= repl

(* Mutant: being replicated is enough *)
CanSatisfyReplicated(want, snapshot, commit, repl) == want <= repl

CanSatisfy(want, snapshot, commit, repl) ==
  \/ want = Latest
  \/ snapshot # U64Max /\ want <= snapshot
  \/ want <= repl /\ SnapshotIsClean(snapshot, commit)

(* Mutant: it always waits for a snapshot *)
WaitsForSnapshot(want, repl) == "wait_snapshot"

(* wait_for_relevant_lsn_change: the channel whose change ends the wait *)
WaitsFor(want, repl) == IF want > repl THEN "wait_repl" ELSE "wait_snapshot"

LoadRepl(r) ==
  /\ reader[r].pc = "load_repl" /\ ~panic
  /\ LET q == reader[r]
     IN  /\ panic' = ~LsnsInOrder(q.snapshot, q.commit, chan.repl)
         /\ reader' = [reader EXCEPT ![r].repl = chan.repl,
                         ![r].pc = IF CanSatisfy(q.want, q.snapshot, q.commit, chan.repl)
                                   THEN "read" ELSE WaitsFor(q.want, chan.repl)]
  /\ torn' = (torn \/ sink # 0)
  /\ UNCHANGED <<chan, sink, received, snap, unannounced, manager, states, temp, left, early,
                 failed, scenario>>

Wake(r) ==
  /\ ~panic
  /\ \/ reader[r].pc = "wait_repl" /\ chan.repl # reader[r].repl
     \/ reader[r].pc = "wait_snapshot" /\ chan.snapshot # reader[r].snapshot
  /\ Goto(r, "load_snapshot")
  /\ UNCHANGED <<chan, sink, received, snap, unannounced, manager, states, temp, left, torn,
                 early, failed, scenario, panic>>
-----------------------------------------------------------------------------
(* request_read: rows that are only in memory go to a temporary file named  *)
(* after the version of the snapshot; a file of that name is taken as it is *)
TempFile == IF temp[snap.version] # {} \/ RowsIn(snap.disk, snap.version) # {}
            THEN snap.version ELSE 0

TempAfterRead ==
  IF temp[snap.version] # {} THEN temp
  ELSE [temp EXCEPT ![snap.version] = RowsIn(snap.disk, snap.version)]

(* Mutant: the state is taken for the snapshot that was announced *)
BuiltAnnounced(q) == [version |-> IF q.snapshot = U64Max THEN 0 ELSE q.snapshot,
                      disk |-> snap.disk, temp |-> TempFile, status |-> "live"]

Built(q) == [version |-> snap.version, disk |-> snap.disk, temp |-> TempFile, status |-> "live"]

(* The LSN up to which the new read state is taken to be valid *)
EffectiveLsn(q) ==
  IF manager.lsn # U64Max /\ q.snapshot = q.commit /\ q.snapshot < q.repl
  THEN q.repl ELSE q.snapshot

(* Mutant: a read state of the same LSN is built again *)
NeedsRebuildAgain(q) == manager.lsn <= q.snapshot \/ manager.lsn = U64Max

NeedsRebuild(q) == manager.lsn < q.snapshot \/ manager.lsn = U64Max

Holders(n, rd) == {r \in Reader : rd[r].pc = "reading" /\ rd[r].state = n}

(* Drop of a read state nobody refers to: its file goes, in its own time *)
Dropped(ss, current, rd) ==
  [n \in DOMAIN ss |->
     IF ss[n].status = "live" /\ n # current /\ Holders(n, rd) = {}
     THEN [ss[n] EXCEPT !.status = IF ss[n].temp = 0 THEN "gone" ELSE "dropping"]
     ELSE ss[n]]

(* read_from_snapshot_and_update_cache, under both locks *)
ReadFromSnapshot(r) ==
  /\ reader[r].pc = "read" /\ NeedsRebuild(reader[r]) /\ ~panic
  /\ LET q == reader[r]
         n == Len(states) + 1
     IN  /\ manager' = [lsn |-> EffectiveLsn(q), state |-> n]
         /\ Answer(r, n)
         /\ states' = Dropped(Append(states, Built(q)), n, reader')
         /\ temp' = TempAfterRead
         /\ early' = (early \/ (TempFile # 0 /\ q.snapshot # snap.version))
  /\ UNCHANGED <<chan, sink, received, snap, unannounced, left, torn, failed, scenario, panic>>

ReadShared(r) ==
  /\ reader[r].pc = "read" /\ ~NeedsRebuild(reader[r]) /\ ~panic
  /\ Answer(r, manager.state)
  /\ UNCHANGED <<chan, sink, received, snap, unannounced, manager, states, temp, left, torn,
                 early, failed, scenario, panic>>

(* resolve_remote_files fails: what was pinned is released, the temporary   *)
(* file is sent to the loop to be deleted, and the LSN is already stored    *)
FailToResolve(r) ==
  /\ reader[r].pc = "read" /\ NeedsRebuild(reader[r]) /\ ~panic
  /\ left.failures > 0 /\ RowsIn(0, snap.disk) # {}
  /\ left' = [left EXCEPT !.failures = @ - 1]
  /\ manager' = [manager EXCEPT !.lsn = EffectiveLsn(reader[r])]
  /\ states' = Append(states, [Built(reader[r]) EXCEPT
                                 !.status = IF TempFile = 0 THEN "gone" ELSE "dropping"])
  /\ temp' = TempAfterRead
  /\ early' = (early \/ (TempFile # 0 /\ reader[r].snapshot # snap.version))
  /\ failed' = TRUE
  /\ reader' = [reader EXCEPT ![r] = Idle]
  /\ UNCHANGED <<chan, sink, received, snap, unannounced, torn, scenario, panic>>

(* The query is over: scan_table_end gives the read state back *)
FinishRead(r) ==
  /\ reader[r].pc = "reading" /\ ~panic
  /\ reader' = [reader EXCEPT ![r] = Idle]
  /\ states' = Dropped(states, manager.state, reader')
  /\ UNCHANGED <<chan, sink, received, snap, unannounced, manager, temp, left, torn, early,
                 failed, scenario, panic>>

(* The detached task of ReadState::drop, or the loop, deletes the file *)
DeleteTempFile ==
  /\ ~panic
  /\ \E n \in DOMAIN states :
       /\ states[n].status = "dropping"
       /\ temp' = [temp EXCEPT ![states[n].temp] = {}]
       /\ states' = [states EXCEPT ![n].status = "gone"]
  /\ UNCHANGED <<chan, sink, received, snap, unannounced, manager, reader, left, torn, early,
                 failed, scenario, panic>>

Done == (panic \/ (left.reads = 0 /\ \A r \in Reader : reader[r].pc = "idle")) /\ UNCHANGED vars
-----------------------------------------------------------------------------
ReaderStep(r) ==
  \/ LoadCachedSnapshot(r) \/ LoadCachedCommit(r) \/ ReadCached(r) \/ LoadSnapshot(r)
  \/ LoadCommit(r) \/ LoadRepl(r) \/ Wake(r) \/ ReadFromSnapshot(r) \/ ReadShared(r)
  \/ FinishRead(r)

TableStep == SinkCommit \/ SinkReplicated \/ SinkKeepAlive \/ UpdateSnapshot \/ NotifySnapshotReader

Next ==
  \/ TableStep
  \/ \E r \in Reader : StartRead(r) \/ ReaderStep(r) \/ FailToResolve(r)
  \/ DeleteTempFile
  \/ Done

Spec == Init /\ [][Next]_vars

(* The sink and the loop keep going and a reader's task is scheduled *)
FairSpec ==
  /\ Spec
  /\ WF_vars(SinkCommit) /\ WF_vars(SinkReplicated) /\ WF_vars(SinkKeepAlive)
  /\ WF_vars(UpdateSnapshot) /\ WF_vars(NotifySnapshotReader)
  /\ \A r \in Reader : WF_vars(ReaderStep(r))
-----------------------------------------------------------------------------
(* The channels, the manager and the readers hold values of their types *)
TypeOK ==
  /\ chan \in [snapshot : Log \cup {0, U64Max}, commit : Log \cup {0}, repl : Log \cup {0}]
  /\ sink \in Commits \cup {0} /\ received \in Log \cup {0}
  /\ snap.disk <= snap.version /\ snap.version <= received
  /\ manager.lsn \in Log \cup {U64Max} /\ manager.state \in DOMAIN states
  /\ states[manager.state].status = "live"
  /\ \A r \in Reader : reader[r].pc = "reading" => states[reader[r].state].status = "live"

Serving(n) == n = manager.state \/ Holders(n, reader) # {}

(* The rows a query gets from the files of a read state, each once *)
Whole(n) ==
  LET st   == states[n]
      rows == IF st.temp = 0 THEN {} ELSE temp[st.temp]
  IN  rows = RowsIn(st.disk, st.version)

(* Every read state in use or cached still has its files, and they hold     *)
(* exactly the rows of its version: no reader loses the temporary file to   *)
(* the clean-up of another, or sees flushed rows twice.  Provided no read   *)
(* was served from a snapshot that was not the announced one                *)
ReadsAreWhole == ~early => \A n \in DOMAIN states : Serving(n) => Whole(n)

(* The same of every read                                                  *)
WholeReads == \A n \in DOMAIN states : Serving(n) => Whole(n)

(* What try_read promises: a request with an LSN gets a snapshot with every *)
(* commit of the table up to it, one without an LSN the latest snapshot     *)
CoversRequests ==
  \A r \in Reader : reader[r].pc = "reading" =>
    LET version == states[reader[r].state].version
    IN  /\ RowsIn(version, reader[r].want) = {}
        /\ reader[r].want = Latest => version >= reader[r].floor

(* It is kept unless a commit is marked while a reader loads the channels,  *)
(* an earlier read failed after it had stored its LSN, or the table was     *)
(* recovered with commits replayed from the write-ahead log                 *)
ReadCovers == ~torn /\ ~failed /\ scenario.replayed = scenario.persisted => CoversRequests

(* The assertions of can_satisfy_read_from_snapshot *)
LsnsStayInOrder == ~panic

(* They hold unless a reader meets a commit half marked, or the table was   *)
(* recovered with commits replayed from the write-ahead log                 *)
NoPanic == ~torn /\ scenario.replayed = scenario.persisted => LsnsStayInOrder

(* A read never gets a version older than one that another query already    *)
(* holds                                                                    *)
ReadsGoForward ==
  [][\A r, s \in Reader :
       reader[r].pc # "reading" /\ reader'[r].pc = "reading" /\ reader[s].pc = "reading"
         => states'[reader'[r].state].version >= states[reader[s].state].version]_vars

(* Every read of an LSN the source reaches is answered *)
ReadReturns == \A r \in Reader : reader[r].pc # "idle" ~> (reader[r].pc = "idle" \/ panic)
=============================================================================
