----------------------------- MODULE DiskFiles -----------------------------
(***************************************************************************)
(* The files of one mooncake table while it is written, persisted,         *)
(* compacted, index-merged and read: the snapshot (SnapshotFiles), the     *)
(* background compaction, index merge and persistence, union reads that    *)
(* pin cache entries, and the local files behind them.                     *)
(*                                                                         *)
(* Writes are reduced to what reaches the data files: a transaction of the *)
(* table writes one data file, or deletes one row a data file holds.  The  *)
(* snapshot lock is a variable: a read holds it while it resolves files,   *)
(* which is IO, and the object storage cache has a lock of its own, held   *)
(* in each action but not across the IO of a cache miss.                   *)
(***************************************************************************)
EXTENDS SnapshotFiles

CONSTANT
  Scenarios     \* the tables, and how often each thing may happen

VARIABLES
  snap,         \* SnapshotTableState
  task,         \* next_snapshot_task
  out,          \* the mooncake snapshot's result on its way to the loop, or None
  maint,        \* table_maintenance_process_status
  sync,         \* the persistence under way: its payload, then its result
  comp,         \* the compaction under way
  merge,        \* the file indices being merged, or None
  ice,          \* persisted_data_files and what iceberg last committed
  reader,       \* a read: the files it has still to look up, loads and pinned
  files,        \* the local files that exist
  copies,       \* local files made of a file so far
  next,         \* the next file id
  written,      \* ghost: the LSN a row was written at and deleted at (0: not yet)
  lsn,          \* the last commit
  left,         \* how often each kind of thing may still happen
  raced,        \* ghost: two misses of one file were under way at once
  stray,        \* ghost: handles a failed compaction left behind, local files nobody deletes
  pruned,       \* ghost: rows whose log entry went while their file was compacted
  dropped,      \* the table is gone
  scenario

vars == <<snap, task, out, maint, sync, comp, merge, ice, reader, files, copies, next, written,
          lsn, left, raced, stray, pruned, dropped, scenario>>

ghosts == <<raced, stray, pruned>>

Ids == 1 .. 20

EmptyTask == [slices |-> {}, deletions |-> {}, version |-> 0, flush |-> 0, persisted |-> None,
              compaction |-> None, merge |-> None, compacting |-> {}]

NoRead == [pc |-> "idle", todo |-> {}, loading |-> {}, held |-> {}]

Init ==
  /\ scenario \in Scenarios
  /\ LET n     == Len(scenario.rows)
         cache == FoldSet(LAMBDA b, c : Import(c, b), NewCache(scenario.max, scenario.optimize),
                          n + 1 .. 2 * n)
     IN  /\ snap = [disk |-> [f \in 1 .. n |-> DiskFile(scenario.rows[f], FALSE)],
                    idx |-> {Index(n + f, {f}) : f \in 1 .. n}, log |-> {}, unp |-> NoRecords,
                    compacting |-> {}, version |-> 1, flush |-> 1, cache |-> cache, panic |-> FALSE]
         /\ ice = [files |-> [f \in 1 .. n |-> [rows |-> scenario.rows[f], dv |-> {}]], lsn |-> 1]
         /\ files = {<<b, 1>> : b \in n + 1 .. 2 * n}
         /\ copies = [i \in Ids |-> IF i \in n + 1 .. 2 * n THEN 1 ELSE 0]
         /\ next = 2 * n + 1
         /\ written = [r \in UNION {ToSet(scenario.rows[f]) : f \in 1 .. n} |-> [at |-> 1, gone |-> 0]]
  /\ task = EmptyTask
  /\ out = None /\ maint = "Unrequested" /\ sync = None /\ comp = None /\ merge = None
  /\ reader = NoRead
  /\ lsn = 1
  /\ left = scenario.left
  /\ raced = FALSE /\ stray = [ids |-> {}, paths |-> {}] /\ pruned = {} /\ dropped = FALSE

May(what)  == left[what] > 0
Use(what)  == left' = [left EXCEPT ![what] = @ - 1]

(* A failed assertion ends the table: what happens after one is not modelled *)
Panicked == snap.panic \/ snap.cache.panic

Resolving  == reader.pc = "resolve"      \* the read holds the snapshot's lock

(* What an operation on the cache does to the snapshot record and the files  *)
SetCache(c) == snap' = [snap EXCEPT !.cache = c]
-----------------------------------------------------------------------------
(* The write side *)

(* A committed transaction that deletes a row; the loop may flush after it *)
Delete(row, flush) ==
  /\ ~Panicked /\ May("delete") /\ ~dropped
  /\ row \in DOMAIN written /\ written[row].gone = 0
  /\ Use("delete")
  /\ lsn' = lsn + 1
  /\ written' = [written EXCEPT ![row].gone = lsn + 1]
  /\ task' = [task EXCEPT !.deletions = @ \cup {[row |-> row, lsn |-> lsn]}, !.version = lsn + 1,
                          !.flush = IF flush THEN lsn + 1 ELSE @]
  /\ UNCHANGED <<snap, out, maint, sync, comp, merge, ice, reader, files, copies, next, ghosts,
                 dropped, scenario>>

(* A committed transaction whose disk slice was written: data file and block *)
WriteFile ==
  /\ ~Panicked /\ May("write") /\ ~dropped
  /\ Use("write")
  /\ lsn' = lsn + 1
  /\ LET row == lsn + 100
     IN  /\ written' = With(written, row, [at |-> lsn + 1, gone |-> 0])
         /\ task' = [task EXCEPT !.slices = @ \cup {[id |-> next, block |-> next + 1, rows |-> <<row>>]},
                                 !.version = lsn + 1, !.flush = lsn + 1]
  /\ files' = files \cup {<<next, 1>>, <<next + 1, 1>>}
  /\ copies' = [copies EXCEPT ![next] = 1, ![next + 1] = 1]
  /\ next' = next + 2
  /\ UNCHANGED <<snap, out, maint, sync, comp, merge, ice, reader, ghosts, dropped, scenario>>
-----------------------------------------------------------------------------
(* The mooncake snapshot *)

TaskFilled ==
  \/ task.slices # {} \/ task.deletions # {} \/ task.persisted # None
  \/ task.compaction # None \/ task.merge # None

(* Rows whose logged deletion this task prunes while their file is compacted *)
PrunedNow(before, after) ==
  IF comp = None THEN {}
  ELSE {snap.disk[d.file].rows[d.pos] :
          d \in {e \in before.log : e.file \in comp.old \ after.compacting /\ ~\E g \in after.log : g.file = e.file /\ g.pos = e.pos}}

(* What size and number may leave to maintain.  Fewer than two files or      *)
(* indices are maintained by no one, as when nothing was asked for.          *)
Selections(all) == {all} \cup {some \in SUBSET all : Cardinality(some) >= 2}

(* create_snapshot: the detached task has the lock, so it is one step.  The  *)
(* payloads depend on what the loop asked for and on the sizes of files.     *)
CreateSnapshot ==
  /\ ~Panicked /\ May("snapshot") /\ out = None /\ TaskFilled /\ ~Resolving /\ ~dropped
  /\ Use("snapshot")
  /\ \E s \in {UpdateSnapshot(snap, [task EXCEPT !.version = IF @ = 0 THEN snap.version ELSE @])},
        want \in {IF maint = "Unrequested" /\ May("maintain") THEN scenario.maintain ELSE "Skip"} :
     \E fits \in IF want = "compact" THEN Selections(DOMAIN s.disk) ELSE {{}},
        small \in IF want = "merge" THEN Selections(s.idx) ELSE {{}} :
       LET payload == PayloadToCompact(s, fits)
           indices == FileIndicesToMerge(s, small)
           checked == Check(s, want # "Skip" => IndicesSetAsserts(s) /\ PayloadAsserts(s, fits))
           pinned  == IF payload = None THEN checked
                      ELSE OnCache(checked, IncrementReferenceCount, PayloadHandles(payload.files))
       IN  /\ snap' = [pinned EXCEPT !.panic = @ \/ pinned.cache.panic]
           /\ out' = [compact |-> payload, merge |-> indices,
                      persist |-> IF sync = None /\ SomethingToPersist(s) THEN PersistencePayload(s) ELSE None]
           /\ pruned' = pruned \cup PrunedNow(snap, s)
  /\ task' = EmptyTask
  /\ UNCHANGED <<maint, sync, comp, merge, ice, reader, files, copies, next, written, lsn, raced,
                 stray, dropped, scenario>>

NewCompaction(payload) ==
  [todo |-> payload.files, old |-> {f.id : f \in payload.files}, old_idx |-> payload.idx,
   pc |-> "next", file |-> None, held |-> PayloadHandles(payload.files),
   remap |-> <<>>, open |-> <<>>, new |-> {}, first |-> next]

(* MooncakeTableSnapshotResult: start the persistence, and the maintenance *)
HandleSnapshotResult ==
  /\ ~Panicked /\ out # None /\ ~dropped
  /\ out' = None
  /\ sync' = IF out.persist # None /\ sync = None THEN [pc |-> "start", payload |-> out.persist] ELSE sync
  /\ comp' = IF out.compact # None THEN NewCompaction(out.compact) ELSE comp
  /\ merge' = IF out.compact = None /\ out.merge # None THEN out.merge ELSE merge
  /\ maint' = CASE out.compact # None \/ out.merge # None -> "InProcess"
                [] maint = "ReadyToPersist" /\ out.persist # None /\ ContainsMaintenance(out.persist.rec)
                     -> "InPersist"
                [] OTHER -> maint
  /\ task' = IF out.compact = None THEN task ELSE [task EXCEPT !.compacting = {f.id : f \in out.compact.files}]
  /\ left' = IF out.compact # None \/ out.merge # None THEN [left EXCEPT !["maintain"] = @ - 1] ELSE left
  /\ next' = IF out.compact = None THEN next ELSE next + 2 * Cardinality(out.compact.files)
  /\ UNCHANGED <<snap, ice, reader, files, copies, written, lsn, ghosts, dropped, scenario>>
-----------------------------------------------------------------------------
(* Data compaction, in the background *)

(* apply_deletion_vector_and_write, once the file can be read: the rows the  *)
(* puffin blob does not delete go to the open file, which is closed when it  *)
(* is large enough                                                           *)
Compacted(c, f) ==
  LET rows  == snap.disk[f.id].rows
      dead  == IF f.puffin = None THEN {} ELSE f.puffin.dv
      alive == SelectSeq([p \in 1 .. Len(rows) |-> p], LAMBDA p : p \notin dead)
      id    == c.first + Cardinality(c.new)
      moved == [l \in {<<f.id, p>> : p \in ToSet(alive)} |->
                  <<id, Len(c.open) + (CHOOSE i \in 1 .. Len(alive) : alive[i] = l[2])>>]
      open  == c.open \o [i \in 1 .. Len(alive) |-> rows[alive[i]]]
      close == scenario.split /\ open # <<>>
  IN  [c EXCEPT !.todo = @ \ {f}, !.pc = "next", !.file = None,
                !.remap = [l \in DOMAIN @ \cup DOMAIN moved |-> IF l \in DOMAIN moved THEN moved[l] ELSE @[l]],
                !.open = IF close THEN <<>> ELSE open,
                !.new = IF close THEN @ \cup {[id |-> id, rows |-> open]} ELSE @]

(* The next file: pinned already, in the cache, or to be loaded.  A file the *)
(* snapshot holds stays in disk_files while it is compacted.                 *)
CompactFile(f) ==
  /\ ~Panicked /\ comp # None /\ comp.pc = "next" /\ f \in comp.todo
  /\ IF f.pin THEN comp' = Compacted(comp, f) /\ UNCHANGED <<snap, raced>>
     ELSE IF Hits(snap.cache, f.id)
     THEN /\ SetCache(GetCached(snap.cache, f.id))
          /\ comp' = [Compacted(comp, f) EXCEPT !.held = @ \cup {f.id}]
          /\ UNCHANGED raced
     ELSE /\ comp' = [comp EXCEPT !.pc = "load", !.file = f]
          /\ raced' = (raced \/ f.id \in reader.loading)
          /\ UNCHANGED snap
  /\ UNCHANGED <<task, out, maint, sync, merge, ice, reader, files, copies, next, written, lsn,
                 left, stray, pruned, dropped, scenario>>

(* The IO of a miss: the copy, when it is one, is a new local file *)
LoadFile(id, r, n) ==
  /\ snap' = [snap EXCEPT !.cache = r.c]
  /\ files' = IF snap.cache.optimize THEN files ELSE files \cup {<<id, n>>}
  /\ copies' = IF snap.cache.optimize THEN copies ELSE [copies EXCEPT ![id] = n]
  /\ stray' = IF r.ok \/ snap.cache.optimize THEN stray ELSE [stray EXCEPT !.paths = @ \cup {<<id, n>>}]

CompactLoad ==
  /\ ~Panicked /\ comp # None /\ comp.pc = "load"
  /\ LET f == comp.file
         n == copies[f.id] + 1
         r == InsertLoaded(snap.cache, f.id, Loaded(snap.cache, f.id, n, 1))
     IN  /\ LoadFile(f.id, r, n)
         /\ comp' = [Compacted(comp, f) EXCEPT !.held = IF r.ok THEN @ \cup {f.id} ELSE @]
  /\ UNCHANGED <<task, out, maint, sync, merge, ice, reader, next, written, lsn, left, raced,
                 pruned, dropped, scenario>>

(* The end of build: the last file is closed, the indices are rewritten, and *)
(* everything is unpinned                                                    *)
Outputs(c) == c.new \cup (IF c.open = <<>> THEN {} ELSE {[id |-> c.first + Cardinality(c.new), rows |-> c.open]})

CompactionResult(c) ==
  LET new == Outputs(c)
  IN  [old |-> c.old, old_idx |-> c.old_idx, new |-> new, remap |-> c.remap,
       new_idx |-> IF DOMAIN c.remap = {} \/ c.old_idx = {} THEN {}
                   ELSE {Index(c.first + Cardinality(new), {n.id : n \in new})}]

FinishCompaction ==
  /\ ~Panicked /\ comp # None /\ comp.pc = "next" /\ comp.todo = {}
  /\ LET r == CompactionResult(comp)
         ids == {n.id : n \in r.new} \cup Blocks(r.new_idx)
     IN  /\ files' = files \cup {<<i, 1>> : i \in ids}
         /\ copies' = [i \in Ids |-> IF i \in ids THEN 1 ELSE copies[i]]
         /\ comp' = [comp EXCEPT !.pc = "done", !.held = {}, !.new = r.new, !.open = <<>>]
  /\ SetCache(FoldSet(LAMBDA id, c : Unreference(c, id), snap.cache, comp.held))
  /\ UNCHANGED <<task, out, maint, sync, merge, ice, reader, next, written, lsn, left, ghosts,
                 dropped, scenario>>

(* A load fails: build returns with nothing unpinned *)
FailCompaction ==
  /\ ~Panicked /\ comp # None /\ comp.pc = "load" /\ May("fail")
  /\ Use("fail")
  /\ stray' = [stray EXCEPT !.ids = comp.held]
  /\ comp' = None
  /\ maint' = "Unrequested"
  /\ UNCHANGED <<snap, task, out, sync, merge, ice, reader, files, copies, next, written, lsn,
                 raced, pruned, dropped, scenario>>

HandleCompactionResult ==
  /\ ~Panicked /\ comp # None /\ comp.pc = "done"
  /\ comp' = None
  /\ maint' = "ReadyToPersist"
  /\ task' = [task EXCEPT !.compaction = CompactionResult(comp)]
  /\ UNCHANGED <<snap, out, sync, merge, ice, reader, files, copies, next, written, lsn, left,
                 ghosts, dropped, scenario>>

(* perform_index_merge and its result: one block over all the files *)
HandleIndexMergeResult ==
  /\ ~Panicked /\ merge # None
  /\ merge' = None
  /\ maint' = "ReadyToPersist"
  /\ task' = [task EXCEPT !.merge = [old |-> merge, new |-> {Index(next, UNION {i.files : i \in merge})}]]
  /\ files' = files \cup {<<next, 1>>}
  /\ copies' = [copies EXCEPT ![next] = 1]
  /\ next' = next + 1
  /\ UNCHANGED <<snap, out, sync, comp, ice, reader, written, lsn, left, ghosts, dropped, scenario>>
-----------------------------------------------------------------------------
(* Persistence, in the background *)

(* Mutant: they are left with the old files *)
RemappedDeletionsNone(payload) == {}

(* The deletions iceberg holds for files this payload removes, at the places *)
(* compaction moved them to                                                  *)
RemappedDeletions(payload) ==
  {payload.rec.remap[l] : l \in DOMAIN payload.rec.remap \cap
     UNION {{<<f, p>> : p \in ice.files[f].dv} : f \in DOMAIN ice.files}}

NewFiles(p)   == ToSet(p.rec.data \o p.rec.comp_add)
KeptFiles(p)  == DOMAIN ice.files \ ToSet(p.rec.comp_del)

(* The new deletions of a file: logged ones and ones compaction moved *)
NewDeletions(p, f) == {l[2] : l \in {m \in p.logs \cup RemappedDeletions(p) : m[1] = f}}

(* validate_new_data_files, validate_old_data_files, and the lookup of every *)
(* data file a deletion vector is for                                        *)
SyncAsserts(p) ==
  /\ NewFiles(p) \cap DOMAIN ice.files = {}
  /\ ToSet(p.rec.comp_del) \subseteq DOMAIN ice.files
  /\ {l[1] : l \in p.logs \cup RemappedDeletions(p)} \subseteq KeptFiles(p) \cup NewFiles(p)

(* sync_data_files and sync_deletion_vector: new files come in, old ones go, *)
(* and deletion vectors take up what is new                                  *)
Synced(p) ==
  [f \in KeptFiles(p) \cup NewFiles(p) |->
     IF f \in NewFiles(p) THEN [rows |-> p.rows[f], dv |-> NewDeletions(p, f)]
     ELSE [ice.files[f] EXCEPT !.dv = @ \cup NewDeletions(p, f)]]

(* finalize_deletion_vector: a puffin file is pinned for the snapshot to     *)
(* take; without room there is no handle to unwrap                           *)
PinPuffins(ids) ==
  FoldSet(LAMBDA i, r : LET q == InsertLoaded(r.c, i, Loaded(r.c, i, 1, 1))
                        IN  [c |-> q.c, ok |-> r.ok /\ q.ok],
          [c |-> snap.cache, ok |-> TRUE], ids)

(* sync_snapshot: the files, then one puffin file for each data file with    *)
(* new deletions                                                             *)
SyncSnapshot ==
  /\ ~Panicked /\ sync # None /\ sync.pc = "start"
  /\ LET p     == sync.payload
         hit   == SetToSeq({f \in KeptFiles(p) \cup NewFiles(p) : NewDeletions(p, f) # {}})
         id(f) == next + (CHOOSE i \in 1 .. Len(hit) : hit[i] = f) - 1
         paths == {<<id(f), 1>> : f \in ToSet(hit)}
         pins  == PinPuffins({id(f) : f \in ToSet(hit)})
     IN  /\ ice' = [files |-> Synced(p), lsn |-> p.lsn]
         /\ snap' = [Check(snap, pins.ok /\ SyncAsserts(p)) EXCEPT !.cache = pins.c]
         /\ files' = IF snap.cache.optimize THEN files ELSE files \cup paths
         /\ stray' = IF pins.ok \/ snap.cache.optimize THEN stray ELSE [stray EXCEPT !.paths = @ \cup paths]
         /\ next' = next + Len(hit)
         /\ sync' = [pc |-> "done", payload |-> p,
                     puffins |-> [f \in ToSet(hit) |-> [id |-> id(f), dv |-> Synced(p)[f].dv]]]
  /\ UNCHANGED <<task, out, maint, comp, merge, reader, copies, written, lsn, left, raced,
                 pruned, dropped, scenario>>

HandlePersistenceResult ==
  /\ ~Panicked /\ sync # None /\ sync.pc = "done"
  /\ snap' = Check(snap, task.persisted = None)
  /\ task' = [task EXCEPT !.persisted = [rec |-> sync.payload.rec, logs |-> sync.payload.logs,
                                         puffins |-> sync.puffins]]
  /\ maint' = IF maint = "InPersist" /\ ContainsMaintenance(sync.payload.rec) THEN "Unrequested" ELSE maint
  /\ sync' = None
  /\ UNCHANGED <<out, comp, merge, ice, reader, files, copies, next, written, lsn, left, ghosts,
                 dropped, scenario>>
-----------------------------------------------------------------------------
(* Union reads *)

Puffins(s) == {s.disk[f].puffin.id : f \in {g \in DOMAIN s.disk : s.disk[g].puffin # None}}

(* request_read: the puffin files are pinned already, one reference more *)
StartRead ==
  /\ ~Panicked /\ May("read") /\ reader.pc = "idle" /\ ~dropped
  /\ Use("read")
  /\ snap' = [snap EXCEPT !.cache = FoldSet(LAMBDA id, c : GetCached(c, id), @, Puffins(snap)),
                          !.panic = @ \/ ~(Puffins(snap) \subseteq Cached(snap.cache))]
  /\ reader' = [pc |-> "resolve", todo |-> DOMAIN snap.disk, loading |-> {}, held |-> Puffins(snap)]
  /\ UNCHANGED <<task, out, maint, sync, comp, merge, ice, files, copies, next, written, lsn,
                 ghosts, dropped, scenario>>

(* resolve_remote_files looks all files up at once *)
LookUp(f) ==
  /\ ~Panicked /\ Resolving /\ f \in reader.todo
  /\ IF Hits(snap.cache, f)
     THEN /\ SetCache(GetCached(snap.cache, f))
          /\ reader' = [reader EXCEPT !.todo = @ \ {f}, !.held = @ \cup {f}]
          /\ UNCHANGED raced
     ELSE /\ reader' = [reader EXCEPT !.todo = @ \ {f}, !.loading = @ \cup {f}]
          /\ raced' = (raced \/ (comp # None /\ comp.pc = "load" /\ comp.file.id = f))
          /\ UNCHANGED snap
  /\ UNCHANGED <<task, out, maint, sync, comp, merge, ice, files, copies, next, written, lsn, left,
                 stray, pruned, dropped, scenario>>
               
ReadLoad(f) ==
  /\ ~Panicked /\ Resolving /\ f \in reader.loading
  /\ LET n == copies[f] + 1
         r == InsertLoaded(snap.cache, f, Loaded(snap.cache, f, n, 1))
     IN  /\ LoadFile(f, r, n)
         /\ reader' = [reader EXCEPT !.loading = @ \ {f}, !.held = IF r.ok THEN @ \cup {f} ELSE @]
  /\ UNCHANGED <<task, out, maint, sync, comp, merge, ice, next, written, lsn, left, raced,
                 pruned, dropped, scenario>>

(* The last load fails, and handle_resolution_error unpins the others *)
FailRead(f) ==
  /\ ~Panicked /\ Resolving /\ reader.todo = {} /\ reader.loading = {f} /\ May("fail")
  /\ Use("fail")
  /\ SetCache(FoldSet(LAMBDA id, c : Unreference(c, id), snap.cache, reader.held))
  /\ reader' = NoRead
  /\ UNCHANGED <<task, out, maint, sync, comp, merge, ice, files, copies, next, written, lsn,
                 ghosts, dropped, scenario>>

Resolved ==
  /\ ~Panicked /\ Resolving /\ reader.todo = {} /\ reader.loading = {}
  /\ reader' = [reader EXCEPT !.pc = "reading"]
  /\ UNCHANGED <<snap, task, out, maint, sync, comp, merge, ice, files, copies, next, written, lsn,
                 left, ghosts, dropped, scenario>>

(* The drop of the read state unpins its files *)
EndRead ==
  /\ ~Panicked /\ reader.pc = "reading"
  /\ SetCache(FoldSet(LAMBDA id, c : Unreference(c, id), snap.cache, reader.held))
  /\ reader' = NoRead
  /\ UNCHANGED <<task, out, maint, sync, comp, merge, ice, files, copies, next, written, lsn, left,
                 ghosts, dropped, scenario>>
-----------------------------------------------------------------------------
(* EvictedFilesToDelete: the loop deletes what the cache handed back *)
DeleteEvictedFiles ==
  /\ ~Panicked /\ snap.cache.evicted # {}
  /\ files' = files \ snap.cache.evicted
  /\ snap' = [snap EXCEPT !.cache.evicted = {}]
  /\ UNCHANGED <<task, out, maint, sync, comp, merge, ice, reader, copies, next, written, lsn, left,
                 ghosts, dropped, scenario>>

(* drop_table, once nothing runs *)
DropTable ==
  /\ ~Panicked /\ May("drop") /\ ~Resolving
  /\ out = None /\ sync = None /\ maint = "Unrequested" /\ task = EmptyTask
  /\ Use("drop")
  /\ snap' = DropAll(snap)
  /\ dropped' = TRUE
  /\ UNCHANGED <<task, out, maint, sync, comp, merge, ice, reader, files, copies, next, written, lsn,
                 ghosts, scenario>>

(* Nothing is left to do *)
Done ==
  \/ Panicked /\ UNCHANGED vars
  \/ /\ out = None /\ sync = None /\ comp = None /\ merge = None /\ reader = NoRead
     /\ snap.cache.evicted = {}
     /\ dropped \/ ~May("snapshot") \/ ~TaskFilled
     /\ UNCHANGED vars

Next ==
  \/ \E row \in DOMAIN written, flush \in BOOLEAN : Delete(row, flush)
  \/ WriteFile \/ CreateSnapshot \/ HandleSnapshotResult
  \/ \E f \in (IF comp = None THEN {} ELSE comp.todo) : CompactFile(f)
  \/ CompactLoad \/ FinishCompaction \/ FailCompaction \/ HandleCompactionResult
  \/ HandleIndexMergeResult \/ SyncSnapshot \/ HandlePersistenceResult
  \/ StartRead \/ Resolved \/ EndRead
  \/ \E f \in reader.todo : LookUp(f)
  \/ \E f \in reader.loading : ReadLoad(f) \/ FailRead(f)
  \/ DeleteEvictedFiles \/ DropTable \/ Done

Spec == Init /\ [][Next]_vars
-----------------------------------------------------------------------------
(* Properties *)

(* The handles on a cache entry, by everyone who may hold one *)
One(cond) == IF cond THEN 1 ELSE 0

Handles(id) ==
  LET payloads == IF out = None \/ out.compact = None THEN {} ELSE PayloadHandles(out.compact.files)
      carried  == (IF sync # None /\ sync.pc = "done" THEN {sync.puffins[f].id : f \in DOMAIN sync.puffins} ELSE {})
                  \cup (IF task.persisted = None THEN {}
                        ELSE {task.persisted.puffins[f].id : f \in DOMAIN task.persisted.puffins})
  IN  One(id \in DOMAIN snap.disk /\ snap.disk[id].handle) + One(id \in Puffins(snap))
      + One(id \in Blocks(snap.idx)) + One(id \in payloads) + One(id \in carried)
      + One(comp # None /\ id \in comp.held) + One(id \in reader.held) + One(id \in stray.ids)

(* Type invariant: cache entries have a size and references exactly when     *)
(* they are pinned, and marks are on pinned entries.                         *)
TypeOK ==
  ~Panicked =>
  /\ \A id \in Cached(snap.cache) :
       (snap.cache.entry[id].refs > 0) = (id \in Pinned(snap.cache))
  /\ snap.cache.marked \subseteq Pinned(snap.cache)
  /\ maint \in {"Unrequested", "InProcess", "ReadyToPersist", "InPersist"}
  /\ next \in Ids

(* No two misses of one file have raced, and the cache has had room *)
Quiet == ~raced /\ ~snap.cache.full

(* A file somebody holds a handle on is pinned once for each holder, and the *)
(* local file behind it exists and is not about to be deleted: eviction at   *)
(* the limit, deletion marks, compaction's try_delete and the switch to the  *)
(* remote path never pull a file from under a reader, a compaction or the    *)
(* snapshot (object_storage_cache.rs, cache_handle.rs).                      *)
HeldFilesExist ==
  Quiet => \A id \in Ids : Handles(id) > 0 =>
    /\ id \in Pinned(snap.cache)
    /\ snap.cache.entry[id].refs = Handles(id)
    /\ LET p == snap.cache.entry[id].path
       IN  IsRemote(p) \/ (p \in files /\ p \notin snap.cache.evicted)

(* The bytes the cache accounts for are those of its entries, and they stay  *)
(* within the limit (evict_cache_entries), so evicting can always make room  *)
(* for what is not pinned.                                                   *)
BytesAreEntries ==
  Quiet => /\ snap.cache.bytes = SizeOf(snap.cache, Cached(snap.cache))
           /\ snap.cache.bytes <= snap.cache.max

(* No assertion of the cache, of the reflection of results or of the syncer  *)
(* fails, unless two misses of one file race or the cache is full of pinned  *)
(* files.                                                                    *)
NoPanic == Quiet => ~Panicked

(* The accounts of the cache are true: pins are holders of files that exist, *)
(* bytes are those of the entries, and no operation finds them otherwise     *)
(* (object_storage_cache.rs).                                                *)
CacheAddsUp == HeldFilesExist /\ BytesAreEntries /\ NoPanic

(* Local files that are written and on their way into the snapshot *)
OnTheWay ==
  {<<sl.id, 1>> : sl \in task.slices} \cup {<<sl.block, 1>> : sl \in task.slices}
  \cup (IF comp = None \/ comp.pc # "done" THEN {}
        ELSE LET r == CompactionResult(comp) IN {<<i, 1>> : i \in {n.id : n \in r.new} \cup Blocks(r.new_idx)})
  \cup (IF task.compaction = None THEN {}
        ELSE {<<i, 1>> : i \in {n.id : n \in task.compaction.new} \cup Blocks(task.compaction.new_idx)})
  \cup (IF task.merge = None THEN {} ELSE {<<i, 1>> : i \in Blocks(task.merge.new)})

(* Every local file is in the cache, handed back for deletion, or on its way *)
(* into the snapshot: replacing, compacting, evicting and dropping leak no   *)
(* file, but for copies the cache had no room for.  With the table dropped   *)
(* and the reads over nothing remains.                                       *)
NoFileLeaks ==
  ~raced /\ ~Panicked =>
    /\ files \subseteq {snap.cache.entry[id].path : id \in Cached(snap.cache)}
                       \cup snap.cache.evicted \cup OnTheWay \cup stray.paths
    /\ dropped /\ reader = NoRead /\ snap.cache.evicted = {} /\ stray.ids = {}
         => \A p \in files \ stray.paths : p[1] \in Evictable(snap.cache)

Visible(at) == {r \in DOMAIN written : written[r].at <= at /\ (written[r].gone = 0 \/ written[r].gone > at)}

RowsLeft(rows, dead) == {rows[p] : p \in 1 .. Len(rows)} \ {rows[p] : p \in dead}

(* What the snapshot's deletion vectors leave is the history up to its       *)
(* version: compaction beside deletions, persistence beside compaction and   *)
(* remapping lose no deletion and revive no row (snapshot.rs).               *)
SnapshotIsHistory ==
  ~dropped => UNION {RowsLeft(snap.disk[f].rows, snap.disk[f].dv) : f \in DOMAIN snap.disk} = Visible(snap.version)

(* What a union read is given: the puffin blob of each file and the logged   *)
(* deletions                                                                 *)
ReadRows ==
  UNION {RowsLeft(snap.disk[f].rows,
           (IF snap.disk[f].puffin = None THEN {} ELSE snap.disk[f].puffin.dv)
           \cup {d.pos : d \in {e \in snap.log : e.file = f}}) : f \in DOMAIN snap.disk}

(* A union read gets the rows of the snapshot's version, which are those of  *)
(* the history, except rows whose logged deletion was pruned while their     *)
(* file was being compacted: for these the puffin blob goes with the old     *)
(* file and the log has nothing.                                             *)
ReadIsHistory ==
  /\ SnapshotIsHistory
  /\ ~dropped => ReadRows \ pruned = Visible(snap.version) /\ Visible(snap.version) \subseteq ReadRows

(* The same without the exception: what the comment on compacting_data_files *)
(* promises.                                                                 *)
ReadsNoDeletedRow == ~dropped => ReadRows \subseteq Visible(snap.version)

(* What iceberg has committed is the history up to its LSN, through          *)
(* compactions persisted while deletions went on: sync_data_files remaps the *)
(* deletions that iceberg already held (iceberg_table_syncer.rs).            *)
IcebergIsHistory ==
  UNION {RowsLeft(ice.files[f].rows, ice.files[f].dv) : f \in DOMAIN ice.files} = Visible(ice.lsn)
=============================================================================
