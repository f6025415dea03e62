------------------------------- MODULE WalOps -------------------------------
(***************************************************************************)
(* The write-ahead log of one table (storage/wal.rs) as operators: what    *)
(* WalManager tracks in memory, the update it prepares for the background  *)
(* task, what the task's result does to the trackers, and what recovery    *)
(* reads back.  A row is the pair of a transaction and the position of the *)
(* row in it; event bodies, JSON and paths are left out.                   *)
(***************************************************************************)
EXTENDS Integers, Sequences, SequencesExt, FiniteSets

CONSTANTS
  Xact,         \* the transactions, in the order they end: 1 .. n
  None

NoLsn == 0      \* the LSN before every event; wal.rs starts from it too

(* WalEvent: xid is 0 for the events of a non-streaming transaction *)
Event(type, xid, row, lsn) == [type |-> type, xid |-> xid, row |-> row, lsn |-> lsn]
-----------------------------------------------------------------------------
(* WalTransactionState *)
Open(start)            == [kind |-> "Open", start_file |-> start, lsn |-> NoLsn, file_end |-> 0]
Closed(kind, start, lsn, end) ==
  [kind |-> kind, start_file |-> start, lsn |-> lsn, file_end |-> end]

IsClosed(s) == s.kind # "Open"

IsCaptured(s, lsn) == IsClosed(s) /\ s.lsn <= lsn

(* The debug check in is_captured: what completed later is not deleted *)
ConsistentWith(s, lsn, lowestKept) == IsClosed(s) /\ s.lsn > lsn => s.file_end >= lowestKept

NewWal ==
  [buf    |-> <<>>,                        \* in_mem_buf
   highest |-> NoLsn,                      \* highest_completion_lsn
   live   |-> <<>>,                        \* live_wal_files_tracker
   curr   |-> 0,                           \* curr_file_number
   active |-> [x \in Xact |-> None],       \* active_transactions
   main   |-> <<>>]                        \* main_transaction_tracker
-----------------------------------------------------------------------------
(* get_updated_xact_state *)
UpdatedXactState(w, s, e) ==
  CASE e.type \in {"Append", "Delete"} -> Open(s.start_file)
    [] e.type = "Commit"               -> Closed("Commit", s.start_file, e.lsn, w.curr)
    [] e.type = "StreamAbort"          -> Closed("Abort", s.start_file, w.highest, w.curr)

TrackStream(w, e) ==
  LET old == IF w.active[e.xid] = None THEN Open(w.curr) ELSE w.active[e.xid]
  IN  [w EXCEPT !.active[e.xid] = UpdatedXactState(w, old, e)]

(* Of the main transactions that begin in one file only the last is kept *)
TrackMain(w, e) ==
  LET reuse  == w.main # <<>> /\ ~IsClosed(Last(w.main))
      old    == IF reuse THEN Last(w.main) ELSE Open(w.curr)
      before == IF reuse THEN Front(w.main) ELSE w.main
      s      == UpdatedXactState(w, old, e)
      merge  == s.kind = "Commit" /\ before # <<>> /\ Last(before).kind = "Commit"
                  /\ Last(before).start_file = s.file_end
  IN  [w EXCEPT !.main = Append(IF merge THEN Front(before) ELSE before, s)]

UpdateTransactionTracking(w, e) == IF e.xid # 0 THEN TrackStream(w, e) ELSE TrackMain(w, e)

(* LSNs of completed transactions never go back *)
PushAsserts(w, e) == e.type = "Commit" /\ e.lsn > 0 => w.highest <= e.lsn

Push(w, e) ==
  UpdateTransactionTracking(
    [w EXCEPT !.buf = Append(@, e), !.highest = IF e.type = "Commit" THEN e.lsn ELSE @], e)
-----------------------------------------------------------------------------
Tracked(w) == {w.active[x] : x \in {y \in Xact : w.active[y] # None}}

(* The first file that still holds events of a transaction not captured *)
LowestFileToKeep(w, lsn) ==
  LET streams == {s.start_file : s \in {t \in Tracked(w) : ~IsCaptured(t, lsn)}}
      later   == SelectSeq(w.main, LAMBDA s : ~IsCaptured(s, lsn))
      keep    == streams \cup (IF later = <<>> THEN {} ELSE {Head(later).start_file})
  IN  IF keep = {} THEN w.curr ELSE Min(keep)

(* Mutant: the first file to keep goes too *)
FilesToTruncateInclusive(w, lsn) ==
  IF lsn = NoLsn THEN <<>>
  ELSE SelectSeq(w.live, LAMBDA f : f.number <= LowestFileToKeep(w, lsn))

FilesToTruncate(w, lsn) ==
  IF lsn = NoLsn THEN <<>>
  ELSE SelectSeq(w.live, LAMBDA f : f.number < LowestFileToKeep(w, lsn))

TruncateAsserts(w, lsn) ==
  lsn # NoLsn /\ w.live # <<>> => LowestFileToKeep(w, lsn) >= Head(w.live).number

(* compute_updated_live_wal_file_tracker *)
UpdatedLive(w, deleted, file) ==
  LET kept == IF deleted = <<>> THEN w.live
              ELSE SelectSeq(w.live, LAMBDA f : f.number >= Last(deleted).number + 1)
  IN  IF file = None THEN kept ELSE Append(kept, file)

(* compute_cleanedup_xacts *)
CleanedUp(w, lsn) ==
  IF lsn = NoLsn THEN w
  ELSE [w EXCEPT !.active = [x \in Xact |-> IF w.active[x] # None /\ IsCaptured(w.active[x], lsn)
                                            THEN None ELSE w.active[x]],
                 !.main = SelectSeq(@, LAMBDA s : ~IsCaptured(s, lsn))]

CleanUpAsserts(w, lsn, deleted) ==
  lsn # NoLsn /\ deleted # <<>>
    => \A s \in Tracked(w) \cup Range(w.main) : ConsistentWith(s, lsn, Last(deleted).number + 1)

(* extract_next_persistence_file: the buffer becomes the next file *)
NextFile(w) == IF w.buf = <<>> THEN None ELSE [number |-> w.curr, highest |-> w.highest]

Extracted(w) == IF w.buf = <<>> THEN w ELSE [w EXCEPT !.buf = <<>>, !.curr = @ + 1]

(* PersistentWalMetadata, computed after the buffer was taken *)
PreparedMetadata(w, lsn, deleted, file) ==
  LET clean == CleanedUp(w, lsn)
  IN  [curr |-> w.curr, highest |-> w.highest, live |-> UpdatedLive(w, deleted, file),
       active |-> clean.active, main |-> clean.main, lsn |-> lsn]

(* PreparePersistentUpdate *)
PersistentUpdate(w, lsn) ==
  LET deleted == FilesToTruncate(w, lsn)
      file    == NextFile(w)
  IN  [metadata |-> PreparedMetadata(Extracted(w), lsn, deleted, file),
       delete |-> deleted, lsn |-> lsn, file |-> file, events |-> w.buf]

(* Mutant: files are deleted only together with a new one *)
ShouldDoPersistenceNewFile(u) == u.file # None

ShouldDoPersistence(u) == u.file # None \/ u.delete # <<>>
-----------------------------------------------------------------------------

(* update_trackers_for_persistence_update_result *)
UpdateTrackers(w, u) == [CleanedUp(w, u.lsn) EXCEPT !.live = UpdatedLive(w, u.delete, u.file)]

(* Its debug assertions, on the updated trackers *)
ResultAsserts(w, u) ==
  /\ w.live = u.metadata.live
  /\ \A x \in Xact :
       w.active[x] # None /\ w.active[x].kind = "Commit"
         => /\ u.lsn # NoLsn => w.active[x].lsn > u.lsn
            /\ w.active[x].lsn <= u.metadata.highest => u.metadata.active[x] # None

(* handle_complete_wal_persistence_update: what the source may be told *)
HighestPersisted(u) == IF u.file = None THEN NoLsn ELSE u.file.highest
-----------------------------------------------------------------------------
(* from_persistent_wal_metadata, or a new WalManager when there is none *)
FromMetadata(meta) ==
  IF meta = None THEN NewWal
  ELSE [NewWal EXCEPT !.highest = meta.highest, !.live = meta.live, !.curr = meta.curr,
                      !.active = meta.active, !.main = meta.main]

(* should_reapply_wal_event; an abort is not among the events it knows *)
KnownInReplay(e) == e.type \in {"Append", "Delete", "Commit"}

(* Mutant: the last transaction of the log is not brought back *)
ShouldReapplyBelow(e, meta, lsn) ==
  IF e.xid # 0
  THEN meta.active[e.xid] # None /\ IsClosed(meta.active[e.xid]) /\ meta.active[e.xid].lsn > lsn
  ELSE lsn < e.lsn /\ e.lsn < meta.highest

ShouldReapply(e, meta, lsn) ==
  IF e.xid # 0
  THEN meta.active[e.xid] # None /\ IsClosed(meta.active[e.xid]) /\ meta.active[e.xid].lsn > lsn
  ELSE lsn < e.lsn /\ e.lsn <= meta.highest

ReplayAsserts(e, meta, lsn) ==
  e.type = "Commit" /\ e.xid # 0 /\ meta.active[e.xid] = None => e.lsn <= lsn

(* recover_flushed_wals: the live files in order; one that cannot be read   *)
(* is left out                                                              *)
FlushedEvents(meta, files) ==
  IF meta = None \/ meta.live = <<>> THEN <<>>
  ELSE LET first == Head(meta.live).number
       IN  FlattenSeq([i \in 1 .. Last(meta.live).number - first + 1 |->
                         IF first + i - 1 \in DOMAIN files THEN files[first + i - 1] ELSE <<>>])

(* replay_recovery_from_wal: the events sent to the loop again, then one    *)
(* StreamAbort for each streaming transaction the log leaves open           *)
Replayed(meta, files, lsn) == SelectSeq(FlushedEvents(meta, files), LAMBDA e : ShouldReapply(e, meta, lsn))

LeftOpen(meta) ==
  IF meta = None \/ meta.live = <<>> THEN {}
  ELSE {x \in Xact : meta.active[x] # None /\ ~IsClosed(meta.active[x])}

ReplayPanics(meta, files, lsn) ==
  \E e \in Range(FlushedEvents(meta, files)) : ~KnownInReplay(e) \/ ~ReplayAsserts(e, meta, lsn)
=============================================================================
