--------------------------- MODULE SnapshotFiles ---------------------------
(***************************************************************************)
(* The data files, deletion vectors and file indices of a mooncake         *)
(* snapshot, as operators: how a persistence result, a compaction, an      *)
(* index merge and new disk slices are reflected into SnapshotTableState,  *)
(* and which payloads it hands out.  A snapshot record s holds             *)
(*   disk       disk_files: the rows, the committed deletion vector (dv),  *)
(*              whether the write-through copy is pinned (handle), and the *)
(*              puffin deletion blob of each data file                     *)
(*   idx        file indices, each one block over a set of data files      *)
(*   log        committed_deletion_log, on-disk part: LSN, file, position  *)
(*   unp        UnpersistedRecords                                         *)
(*   compacting compacting_data_files                                      *)
(*   version, flush   snapshot_version and flush_lsn                       *)
(*   cache      the object storage cache                                   *)
(*   panic      an assertion failed                                        *)
(* Every file is one unit of cache.                                        *)
(***************************************************************************)
EXTENDS ObjectStorageCache, Functions

CONSTANT None

Check(s, cond) == [s EXCEPT !.panic = @ \/ ~cond]

Without(f, keys) == Restrict(f, DOMAIN f \ keys)

With(f, k, v) == [x \in DOMAIN f \cup {k} |-> IF x = k THEN v ELSE f[x]]

(* A cache operation on every id of a set *)
OnCache(s, Op(_, _), ids) == [s EXCEPT !.cache = FoldSet(LAMBDA id, c : Op(c, id), @, ids)]

DiskFile(rows, handle) == [rows |-> rows, dv |-> {}, handle |-> handle, puffin |-> None]

Index(block, files) == [block |-> block, files |-> files]

Blocks(indices) == {i.block : i \in indices}

NoRecords == [data |-> <<>>, idx |-> <<>>, merge_add |-> <<>>, merge_del |-> <<>>,
              comp_add |-> <<>>, comp_del |-> <<>>, comp_idx_add |-> <<>>, comp_idx_del |-> <<>>,
              remap |-> <<>>]
-----------------------------------------------------------------------------
(* Reflecting a persistence result *)

(* update_data_files_to_persisted: the copy is unpinned, the path is remote *)
UpdateDataFilesToPersisted(s, files) ==
  LET here == files \cap DOMAIN s.disk
      c    == Check(s, files \subseteq {f \in here : s.disk[f].handle})
      freed == OnCache(c, UnreferenceAndReplaceWithRemote, {f \in here : s.disk[f].handle})
  IN  [freed EXCEPT !.disk = [f \in DOMAIN @ |-> [@[f] EXCEPT !.handle = @ /\ f \notin files]]]

(* update_file_indices_to_persisted: an index over a persisted file goes,    *)
(* the persisted one takes its place; their number may not change            *)
UpdateFileIndicesToPersisted(s, indices) ==
  LET ids  == UNION {i.files : i \in indices}
      idx  == {i \in s.idx : i.files \cap ids = {}} \cup indices
      c    == Check(s, Cardinality(idx) = Cardinality(s.idx))
  IN  [OnCache(c, TryReplaceOnlyReferenceWithRemote, Blocks(indices)) EXCEPT !.idx = idx]

(* update_deletion_vector_to_persisted; p maps a file to its puffin blob.    *)
(* The blob of a file compacted away meanwhile is dropped.                   *)
UpdateDeletionVectorToPersisted(s, p) ==
  LET here == DOMAIN p \cap DOMAIN s.disk
      old  == {s.disk[f].puffin.id : f \in {g \in here : s.disk[g].puffin # None}}
      late == {p[f].id : f \in DOMAIN p \ here}
  IN  [OnCache(s, UnreferenceAndDelete, old \cup late) EXCEPT
        !.disk = [f \in DOMAIN @ |-> IF f \in here THEN [@[f] EXCEPT !.puffin = p[f]] ELSE @[f]]]

(* update_snapshot_by_iceberg_snapshot *)
ReflectPersistence(s, res) ==
  IF res = None THEN s
  ELSE LET data == UpdateDataFilesToPersisted(s, ToSet(res.rec.data) \cup ToSet(res.rec.comp_add))
           idx  == UpdateFileIndicesToPersisted(data,
                     ToSet(res.rec.idx) \cup ToSet(res.rec.merge_add) \cup ToSet(res.rec.comp_idx_add))
       IN  UpdateDeletionVectorToPersisted(idx, res.puffins)
-----------------------------------------------------------------------------
(* Reflecting maintenance *)

Import(c, id) == ImportCacheEntry(c, id, <<id, 1>>, 1)

(* import_file_indices_into_cache, for slices, index merge and compaction *)
ImportFileIndices(s, task) ==
  LET merged    == IF task.merge = None THEN {} ELSE task.merge.new
      compacted == IF task.compaction = None THEN {} ELSE task.compaction.new_idx
  IN  OnCache(s, Import, {sl.block : sl \in task.slices} \cup Blocks(merged \cup compacted))

(* update_file_indices_to_mooncake_snapshot_impl *)
UpdateFileIndices(s, old, new) ==
  [OnCache(Check(s, old \subseteq s.idx), UnreferenceAndDelete, Blocks(old)) EXCEPT
     !.idx = (@ \ old) \cup new]

ReflectIndexMerge(s, task) ==
  IF task.merge = None THEN s ELSE UpdateFileIndices(s, task.merge.old, task.merge.new)

(* The deleted rows of compacted files, where the remap has them *)
Remapped(disk, files, remap) ==
  {remap[l] : l \in DOMAIN remap \cap UNION {{<<f, p>> : p \in disk[f].dv} : f \in files}}

(* update_data_files_to_mooncake_snapshot_impl: the new files come in        *)
(* pinned, the old ones and their puffin blobs leave the cache, and a        *)
(* deletion compaction did not yet see is carried over to the new file       *)
UpdateDataFiles(s, old, new, remap) ==
  LET asserted == Check(s, /\ old \subseteq DOMAIN s.disk
                           /\ \A f \in old : s.disk[f].dv = {} => s.disk[f].puffin = None)
      imported == OnCache(asserted, Import, {n.id : n \in new})
      gone     == old \cap DOMAIN s.disk
      pinned   == {f \in gone : s.disk[f].handle}
      puffins  == {s.disk[f].puffin.id : f \in {g \in gone : s.disk[g].puffin # None}}
      freed    == OnCache(OnCache(OnCache(imported, UnreferenceAndDelete, pinned),
                    LAMBDA c, id : DeleteCacheEntry(c, id, FALSE), gone \ pinned),
                    UnreferenceAndDelete, puffins)
      moved    == Remapped(s.disk, gone, remap)
      Fresh(f) == [DiskFile((CHOOSE n \in new : n.id = f).rows, TRUE)
                     EXCEPT !.dv = {l[2] : l \in {m \in moved : m[1] = f}}]
  IN  [freed EXCEPT !.disk = [f \in (DOMAIN @ \ old) \cup {n.id : n \in new} |->
         IF f \in DOMAIN @ THEN @[f] ELSE Fresh(f)]]

ReflectCompaction(s, task) ==
  LET r == task.compaction
  IN  IF r = None THEN s
      ELSE UpdateFileIndices(UpdateDataFiles(s, r.old, r.new, r.remap), r.old_idx, r.new_idx)

(* remap_committed_deletion_logs_after_compaction: a logged deletion of a    *)
(* compacted file must have a new place                                      *)
LogsToRemap(s, task) ==
  IF task.compaction = None THEN {} ELSE {d \in s.log : d.file \in task.compaction.old}

RemapLogs(s, task) ==
  LET old  == LogsToRemap(s, task)
      can  == {d \in old : <<d.file, d.pos>> \in DOMAIN task.compaction.remap}
      Moved(d) == LET l == task.compaction.remap[<<d.file, d.pos>>]
                  IN  [d EXCEPT !.file = l[1], !.pos = l[2]]
  IN  [Check(s, old = can) EXCEPT !.log = (@ \ old) \cup {Moved(d) : d \in can}]

(* The remap left for the persistence: the places the log did not use *)
UnusedRemap(s, task) ==
  Without(task.compaction.remap, {<<d.file, d.pos>> : d \in LogsToRemap(s, task)})
-----------------------------------------------------------------------------
(* Mutant: logs of files being compacted are pruned as well *)
PruneCommittedLogsAlways(s, res) ==
  IF res = None THEN s
  ELSE [s EXCEPT !.log = {d \in @ : <<d.file, d.pos>> \notin res.logs}]

(* prune_committed_deletion_logs *)
PruneCommittedLogs(s, res) ==
  IF res = None THEN s
  ELSE [s EXCEPT !.log = {d \in @ : <<d.file, d.pos>> \notin res.logs \/ d.file \in s.compacting}]

(* prune_persisted_records: as many records go as were persisted, in order *)
Drained(kept, persisted) == SubSeq(kept, Len(persisted) + 1, Len(kept))

PrunePersisted(s, res) ==
  IF res = None THEN s
  ELSE [Check(s, /\ \A k \in DOMAIN NoRecords \ {"remap"} : Len(res.rec[k]) <= Len(s.unp[k])
                 /\ DOMAIN res.rec.remap # {} => Cardinality(DOMAIN res.rec.remap) = Cardinality(DOMAIN s.unp.remap))
        EXCEPT !.unp = [k \in DOMAIN NoRecords |->
          IF k = "remap" THEN (IF DOMAIN res.rec.remap # {} THEN <<>> ELSE s.unp.remap)
          ELSE Drained(s.unp[k], res.rec[k])]]

(* buffer_unpersisted_records; remap is what the logs left of the task's *)
BufferUnpersisted(s, task, remap) ==
  LET merge   == IF task.merge = None THEN [old |-> {}, new |-> {}] ELSE task.merge
      r       == task.compaction
      written == [s.unp EXCEPT
                   !.data = @ \o SetToSeq({sl.id : sl \in task.slices}),
                   !.idx = @ \o SetToSeq({Index(sl.block, {sl.id}) : sl \in task.slices}),
                   !.merge_add = @ \o SetToSeq(merge.new),
                   !.merge_del = @ \o SetToSeq(merge.old)]
  IN  IF r = None THEN [s EXCEPT !.unp = written]
      ELSE [Check(s, DOMAIN s.unp.remap = {}) EXCEPT
             !.unp = [written EXCEPT
                       !.comp_add = @ \o SetToSeq({n.id : n \in r.new}), !.comp_del = @ \o SetToSeq(r.old),
                       !.comp_idx_add = @ \o SetToSeq(r.new_idx), !.comp_idx_del = @ \o SetToSeq(r.old_idx),
                       !.remap = remap]]

(* integrate_disk_slices *)
IntegrateSlices(s, task) ==
  LET new == {sl.id : sl \in task.slices}
  IN  [OnCache(s, Import, new) EXCEPT
        !.disk = [f \in DOMAIN @ \cup new |->
          IF f \in new THEN DiskFile((CHOOSE sl \in task.slices : sl.id = f).rows, TRUE) ELSE @[f]],
        !.idx = @ \cup {Index(sl.block, {sl.id}) : sl \in task.slices}]

(* process_deletion_log, for rows in data files: the row is found undeleted, *)
(* enters the deletion vector, and its deletion the log                      *)
Place(s, row) ==
  CHOOSE l \in UNION {{<<f, p>> : p \in 1 .. Len(s.disk[f].rows)} : f \in DOMAIN s.disk} :
    s.disk[l[1]].rows[l[2]] = row

ApplyDeletions(s, deletions) ==
  LET logged == {LET l == Place(s, d.row) IN [lsn |-> d.lsn, file |-> l[1], pos |-> l[2]] : d \in deletions}
  IN  [Check(s, \A d \in logged : d.pos \notin s.disk[d.file].dv) EXCEPT
        !.log = @ \cup logged,
        !.disk = [f \in DOMAIN @ |->
          [@[f] EXCEPT !.dv = @ \cup {d.pos : d \in {e \in logged : e.file = f}}]]]

(* update_snapshot, up to the payloads, in the order of the code *)
UpdateSnapshot(s0, task) ==
  LET s1 == ReflectPersistence([s0 EXCEPT !.compacting = task.compacting], task.persisted)
      s2 == ReflectCompaction(ReflectIndexMerge(ImportFileIndices(s1, task), task), task)
      s3 == PrunePersisted(PruneCommittedLogs(RemapLogs(s2, task), task.persisted), task.persisted)
      s4 == BufferUnpersisted(s3, task, IF task.compaction = None THEN <<>> ELSE UnusedRemap(s2, task))
      s5 == ApplyDeletions(IntegrateSlices(s4, task), task.deletions)
  IN  [s5 EXCEPT !.version = task.version, !.flush = IF task.flush # 0 THEN task.flush ELSE @]
-----------------------------------------------------------------------------
(* Payloads *)

(* get_unpersisted_file_indices_set expects an index for every compacted     *)
(* data file                                                                 *)
IndicesSetAsserts(s) == Len(s.unp.comp_add) = Len(s.unp.comp_idx_add)

UnpersistedIndices(s) == ToSet(s.unp.idx \o s.unp.merge_add \o s.unp.comp_idx_add)

(* get_payload_to_compact: of the files that size, deleted rows and the      *)
(* limit on their number let in, those that are persisted, with the indices  *)
(* over them; what an unpersisted index covers is taken out again            *)
Fitting(s, fits)     == fits \ ToSet(s.unp.data \o s.unp.comp_add)
IndicesOver(s, files) == {i \in s.idx : i.files \cap files # {}}
LateFiles(s, files)  == UNION {i.files : i \in IndicesOver(s, files) \cap UnpersistedIndices(s)}

PayloadToCompact(s, fits) ==
  LET files  == Fitting(s, fits)
      chosen == files \ LateFiles(s, files)
  IN  IF Cardinality(files) < 2 \/ Cardinality(chosen) < 2 THEN None
      ELSE [idx |-> IndicesOver(s, files) \ UnpersistedIndices(s),
            files |-> {[id |-> f, pin |-> s.disk[f].handle, puffin |-> s.disk[f].puffin] : f \in chosen}]

(* Its assertions, with validate_compaction_payload: what is taken out was   *)
(* in, and the indices cover the chosen files and no others                  *)
PayloadAsserts(s, fits) ==
  LET files   == Fitting(s, fits)
      payload == PayloadToCompact(s, fits)
  IN  /\ Cardinality(files) >= 2 => LateFiles(s, files) \subseteq files
      /\ payload # None => UNION {i.files : i \in payload.idx} = {f.id : f \in payload.files}

(* get_file_indices_to_merge: the persisted ones among the small             *)
FileIndicesToMerge(s, small) ==
  LET old == small \ UnpersistedIndices(s)
  IN  IF Cardinality(old) < 2 THEN None ELSE old

(* pin_referenced_compaction_payload, unpin_referenced_compaction_payload *)
PayloadHandles(files) ==
  {f.id : f \in {g \in files : g.pin}} \cup {f.puffin.id : f \in {g \in files : g.puffin # None}}

(* aggregate_committed_deletion_logs, get_persistence_snapshot_payload *)
PersistableLogs(s) == {d \in s.log : d.lsn < s.flush}

SomethingToPersist(s) ==
  \/ PersistableLogs(s) # {}
  \/ s.unp.data # <<>> \/ s.unp.merge_add # <<>> \/ s.unp.comp_add # <<>> \/ s.unp.comp_del # <<>>

PersistencePayload(s) ==
  [lsn |-> s.flush, logs |-> {<<d.file, d.pos>> : d \in PersistableLogs(s)}, rec |-> s.unp,
   rows |-> [f \in ToSet(s.unp.data \o s.unp.comp_add) |-> s.disk[f].rows]]

ContainsMaintenance(rec) == rec.merge_add # <<>> \/ rec.comp_del # <<>>
-----------------------------------------------------------------------------
(* unreference_and_delete_all_cache_handles, when the table is dropped *)
DropAll(s) ==
  LET puffins == {s.disk[f].puffin.id : f \in {g \in DOMAIN s.disk : s.disk[g].puffin # None}}
  IN  [OnCache(s, UnreferenceAndDelete,
         {f \in DOMAIN s.disk : s.disk[f].handle} \cup puffins \cup Blocks(s.idx))
       EXCEPT !.disk = <<>>, !.idx = {}]
=============================================================================
