---------------------------- MODULE IcebergTable ----------------------------
(***************************************************************************)
(* IcebergTableManager (iceberg_table_manager.rs, iceberg_table_syncer.rs, *)
(* iceberg_table_loader.rs) writing snapshots to a table on storage.       *)
(* Every write to storage is a step: the process may crash, or the write   *)
(* may fail, between any two of them.  A failed attempt loses the manager  *)
(* (persist_iceberg_snapshot_impl drops it with the error), so a failure   *)
(* is followed by a restart; only the commit is tried again in place.      *)
(***************************************************************************)
EXTENDS IcebergCatalog

CONSTANT Scenarios    \* which catalog, and how often each event may happen

Kinds == {"sync", "compact", "merge", "schema", "delete", "crash", "fail", "lost", "drop"}

ASSUME ScenariosAssumption ==
  Scenarios \subseteq [catalog : {"file", "service"}, budget : [Kinds -> Nat]]

Row == Nat \X {1, 2}

ASSUME NoneAssumption ==
  None \notin Nat /\ None \notin [add : SUBSET Row, del : SUBSET Row, lsn : Nat, schema : Nat]

VARIABLES
  scenario,
  store,        \* the table on storage, see IcebergCatalog
  mgr,          \* the manager of the running process, if it is up
  op,           \* the snapshot being written: [pc, payload, base, snap, tag, alter]
  world,        \* the table that persists: [file, lsn, schema, compaction, dropped, cut, lost]
  acked,        \* the LSN and schema of the last snapshot reported as persisted
  left,         \* how often each event may still happen
  panicked

vars == <<scenario, store, mgr, op, world, acked, left, panicked>>

NewManager == [up |-> TRUE, table |-> FALSE, files |-> <<>>, indices |-> {}, proxy |-> NoUpdates]

NoManager == [NewManager EXCEPT !.up = FALSE]

NoOp == [pc |-> "none", payload |-> None, base |-> None, snap |-> 0, tag |-> 0, alter |-> FALSE]

Init ==
  /\ scenario \in Scenarios
  /\ store = NewStore
  /\ mgr = NewManager
  /\ op = NoOp
  /\ world = [file |-> 1, lsn |-> 0, schema |-> 1, compaction |-> None, dropped |-> FALSE,
            cut |-> FALSE, lost |-> FALSE]
  /\ acked = [lsn |-> 0, schema |-> 0]
  /\ left = scenario.budget
  /\ panicked = FALSE

Spend(k) == left[k] > 0 /\ left' = [left EXCEPT ![k] = @ - 1]
-----------------------------------------------------------------------------
(***************************************************************************)
(* The payload (PersistenceSnapshotPayload): a new data file of two rows   *)
(* and its index, deletions, and the result of a compaction or of an index *)
(* merge.  A compaction keeps the rows that were live when it began; rows  *)
(* deleted since are found again by the remap, row by row.                 *)
(***************************************************************************)
StartCompaction ==
  /\ ~panicked /\ mgr.up /\ op.pc = "none" /\ world.compaction = None
  /\ Cardinality(DOMAIN mgr.files) >= 2
  /\ Spend("compact")
  /\ world' = [world EXCEPT !.compaction = [old |-> DOMAIN mgr.files, rows |-> Live(mgr.files)]]
  /\ UNCHANGED <<scenario, store, mgr, op, acked, panicked>>

NewFile(id) == [id |-> id, rows |-> {<<id, 1>>, <<id, 2>>}]

(* The index of a new data file, under the name of the file on storage *)
IndexOf(f) == Index(f.id, {f.id})

(* The file a deletion is recorded on once the payload's files are in *)
FileOf(row, files, new) ==
  IF \E f \in new : row \in f.rows
  THEN (CHOOSE f \in new : row \in f.rows).id
  ELSE CHOOSE id \in DOMAIN files : row \in files[id].rows

VectorsFor(del, files, new) ==
  {[file |-> id, rows |-> {r \in del : FileOf(r, files, new) = id}] :
     id \in {FileOf(r, files, new) : r \in del}}

(* One file is imported, a compaction or a merge may come with it *)
Payload(import, del, compaction, merge, schema) ==
  LET id    == world.file
      file  == IF import THEN {NewFile(id)} ELSE {}
      comp  == IF compaction # None /\ compaction.rows # {}
               THEN {[id |-> id + 1, rows |-> compaction.rows]} ELSE {}
      new   == file \cup comp
      gone  == IF compaction = None THEN {} ELSE {x \in mgr.indices : x.files \subseteq compaction.old}
      kept  == UNION {x.files : x \in mgr.indices}
  IN  [new        |-> new,
       vectors    |-> VectorsFor(del, mgr.files, new),
       oldFiles   |-> IF compaction = None THEN {} ELSE compaction.old,
       compacted  |-> comp,
       indices    |-> {IndexOf(f) : f \in new}
                        \cup (IF merge THEN {Index(id + 2, kept)} ELSE {}),
       oldIndices |-> {x.puffin : x \in IF merge THEN mgr.indices ELSE gone},
       schema     |-> IF schema THEN world.schema + 1 ELSE 0,
       add        |-> UNION {f.rows : f \in file},
       del        |-> del,
       lsn        |-> world.lsn + (IF import \/ del # {} THEN 1 ELSE 0)]

(* Of the two rows of a file the first is the one that is deleted *)
Deletable(import) ==
  {r \in Live(mgr.files) \cup (IF import THEN NewFile(world.file).rows ELSE {}) : r[2] = 1}

(* sync_snapshot is called with a payload *)
BeginWith(import, del, compact, merge, schema) ==
  /\ import \/ del # {} \/ compact # None \/ merge
  /\ merge => world.compaction = None /\ Cardinality(mgr.indices) >= 2
  /\ left["sync"] > 0
  /\ merge => left["merge"] > 0
  /\ schema => left["schema"] > 0
  /\ del # {} => left["delete"] > 0
  /\ left' = [left EXCEPT !["sync"] = @ - 1,
                          !["merge"] = @ - (IF merge THEN 1 ELSE 0),
                          !["schema"] = @ - (IF schema THEN 1 ELSE 0),
                          !["delete"] = @ - (IF del # {} THEN 1 ELSE 0)]
  /\ LET p == Payload(import, del, compact, merge, schema)
     IN  /\ op' = [pc |-> IF mgr.table THEN "files" ELSE "create", payload |-> p,
                   base |-> None, snap |-> 0, tag |-> 0, alter |-> FALSE]
         /\ world' = [world EXCEPT !.file = @ + 3, !.lsn = p.lsn,
                                   !.schema = IF schema THEN @ + 1 ELSE @,
                                   !.compaction = IF compact # None THEN None ELSE @]

Begin ==
  /\ ~panicked /\ mgr.up /\ op.pc = "none" /\ ~world.dropped
  /\ \E import, merge, schema \in BOOLEAN, compact \in {None, world.compaction} :
       \E del \in {{}} \cup {{r} : r \in Deletable(import)} : BeginWith(import, del, compact, merge, schema)
  /\ UNCHANGED <<scenario, store, mgr, acked, panicked>>

At(pc) == ~panicked /\ op.pc = pc

Go(pc) == op' = [op EXCEPT !.pc = pc]
-----------------------------------------------------------------------------
(* get_or_create_iceberg_table: a table that cannot be loaded is created *)
CreateNamespaceStep ==
  /\ At("create")
  /\ IF CanLoadMetadata(store)
     THEN mgr' = [mgr EXCEPT !.table = TRUE] /\ Go("files") /\ UNCHANGED store
     ELSE /\ store' = CreateNamespace(store)
          /\ Go(IF scenario.catalog = "file" THEN "first_hint" ELSE "service")
          /\ UNCHANGED mgr
  /\ UNCHANGED <<scenario, world, acked, left, panicked>>

CreateFirstHint ==
  /\ At("first_hint")
  /\ store' = WriteFirstHint(store) /\ Go("first_metadata")
  /\ UNCHANGED <<scenario, mgr, world, acked, left, panicked>>

Created == mgr' = [mgr EXCEPT !.table = TRUE] /\ Go("files")

CreateFirstMetadata ==
  /\ At("first_metadata")
  /\ store' = WriteFirstMetadata(store) /\ Created
  /\ UNCHANGED <<scenario, world, acked, left, panicked>>

(* A REST or Glue catalog *)
CreateTableAtService ==
  /\ At("service")
  /\ store' = CreateAtService(store) /\ Go("creation_schema")
  /\ UNCHANGED <<scenario, mgr, world, acked, left, panicked>>

CreationSchemaAtService ==
  /\ At("creation_schema")
  /\ store' = CreationSchema(store) /\ Created
  /\ UNCHANGED <<scenario, world, acked, left, panicked>>
-----------------------------------------------------------------------------
(* validate_schema_consistency_at_store, validate_new_data_files and        *)
(* validate_old_data_files, then the assertions of sync_data_files          *)
SchemaAsserts == Current(store).schema # 0

FilesValid(p) ==
  /\ \A f \in p.new : f.id \notin DOMAIN mgr.files
  /\ p.oldFiles \subseteq DOMAIN mgr.files

WithNew(files, new) ==
  [id \in DOMAIN files \cup {f.id : f \in new} |->
     IF id \in DOMAIN files THEN files[id]
     ELSE [rows |-> (CHOOSE f \in new : f.id = id).rows, deleted |-> {}]]

Without(files, ids) == [id \in DOMAIN files \ ids |-> files[id]]

(* Mutant: deletions persisted during the compaction are not carried over *)
RemappedDeletionsNone(files, p) == {}

(* Deletions already persisted on a compacted file, on its successor *)
RemappedDeletions(files, p) ==
  {[file |-> f.id, rows |-> f.rows \cap UNION {files[id].deleted : id \in p.oldFiles}] : f \in p.compacted}

(* Vectors of one file become one; files without deletions need none *)
MergedVectors(vs) ==
  {[file |-> id, rows |-> UNION {v.rows : v \in {w \in vs : w.file = id}}] : id \in {v.file : v \in {w \in vs : w.rows # {}}}}

SyncDataFiles ==
  /\ At("files")
  /\ LET p == op.payload
     IN  IF ~SchemaAsserts \/ mgr.proxy.oldFiles # {}
         THEN panicked' = TRUE /\ UNCHANGED <<mgr, op>>
         ELSE IF ~FilesValid(p)
         THEN mgr' = NoManager /\ op' = NoOp /\ UNCHANGED panicked
         ELSE /\ mgr' = [mgr EXCEPT !.files = Without(WithNew(@, p.new), p.oldFiles),
                                    !.proxy.oldFiles = p.oldFiles]
              /\ op' = [op EXCEPT !.pc = "vectors",
                          !.payload.vectors = MergedVectors(@ \cup RemappedDeletions(mgr.files, p))]
              /\ UNCHANGED panicked
  /\ UNCHANGED <<scenario, store, world, acked, left>>

(* sync_deletion_vector: the vector written holds what was persisted before *)
Written(files, vectors) ==
  {[file |-> v.file, rows |-> files[v.file].deleted \cup v.rows] : v \in vectors}

Marked(files, vs) ==
  [id \in DOMAIN files |->
     [rows    |-> files[id].rows,
      deleted |-> IF \E v \in vs : v.file = id
                  THEN (CHOOSE v \in vs : v.file = id).rows ELSE files[id].deleted]]

SyncDeletionVector ==
  /\ At("vectors")
  /\ LET vs == Written(mgr.files, op.payload.vectors)
     IN  mgr' = [mgr EXCEPT !.proxy.vectors = @ \cup vs, !.files = Marked(@, vs)]
  /\ Go("indices")
  /\ UNCHANGED <<scenario, store, world, acked, left, panicked>>

(* import_file_indices, and the removal of the merged and compacted ones *)
Imported(m, p) == [m EXCEPT !.proxy.indices = @ \cup p.indices, !.indices = @ \cup p.indices]

Dropped(m, p) ==
  [m EXCEPT !.proxy.oldIndices = p.oldIndices, !.indices = {x \in @ : x.puffin \notin p.oldIndices}]

SyncFileIndices ==
  /\ At("indices")
  /\ LET p == op.payload
     IN  IF p.oldIndices \subseteq {x.puffin : x \in mgr.indices} /\ mgr.proxy.oldIndices = {}
         THEN /\ mgr' = Dropped(Imported(mgr, p), p)
              /\ Go("append") /\ UNCHANGED panicked
         ELSE panicked' = TRUE /\ UNCHANGED <<mgr, op>>
  /\ UNCHANGED <<scenario, store, world, acked, left>>
-----------------------------------------------------------------------------
(* Transaction::commit reads the table, writes the new snapshot's manifests *)
(* and list beside it, and calls update_table                               *)
BeginCommit ==
  /\ At("append") /\ CanLoadMetadata(store)
  /\ LET snap == Cardinality(DOMAIN store.lists) + 1
     IN  /\ store' = Appended(store, snap, op.payload.new)
         /\ op' = [op EXCEPT !.pc = IF scenario.catalog = "file" THEN "metadata" ELSE "rewrite",
                             !.base = Current(store), !.snap = snap, !.tag = store.tag]
  /\ UNCHANGED <<scenario, mgr, world, acked, left, panicked>>

(* update_table_schema: the same commit with the schema only *)
BeginSchemaCommit ==
  /\ At("alter")
  /\ op' = [op EXCEPT !.pc = IF scenario.catalog = "file" THEN "metadata" ELSE "commit",
                      !.base = Current(store), !.tag = store.tag, !.alter = TRUE]
  /\ UNCHANGED <<scenario, store, mgr, world, acked, left, panicked>>

NewMetadata ==
  IF op.alter THEN WithSchema(op.base, op.payload.schema)
  ELSE WithSnapshot(op.base, op.snap, op.payload.lsn)

(* update_table of the file catalog *)
WriteMetadataFile ==
  /\ At("metadata")
  /\ store' = WriteMetadata(store, NextVersion(op.base), NewMetadata) /\ Go("rewrite")
  /\ UNCHANGED <<scenario, mgr, world, acked, left, panicked>>

RewriteManifestList ==
  /\ At("rewrite")
  /\ IF op.alter THEN UNCHANGED <<store, panicked>>
     ELSE IF mgr.proxy = NoUpdates \/ RewriteAsserts(store.lists[op.snap])
     THEN store' = RewriteList(store, op.snap, mgr.proxy) /\ UNCHANGED panicked
     ELSE panicked' = TRUE /\ UNCHANGED store
  /\ Go(IF scenario.catalog = "file" THEN "hint" ELSE "commit")
  /\ UNCHANGED <<scenario, mgr, world, acked, left>>

(* sync_snapshot goes on with the schema, and reports when all is done *)
Committed ==
  /\ mgr' = [mgr EXCEPT !.proxy = NoUpdates]
  /\ IF ~op.alter /\ op.payload.schema # 0
     THEN Go("alter") /\ UNCHANGED acked
     ELSE /\ op' = NoOp
          /\ acked' = [lsn |-> op.payload.lsn,
                       schema |-> IF op.payload.schema # 0 THEN op.payload.schema ELSE acked.schema]

WriteVersionHint ==
  /\ At("hint") /\ HintAccepted(store, op.tag)
  /\ store' = WriteHint(store, NextVersion(op.base)) /\ Committed
  /\ UNCHANGED <<scenario, world, left, panicked>>

CommitToService ==
  /\ At("commit")
  /\ store' = CommitAtService(store, NewMetadata) /\ Committed
  /\ UNCHANGED <<scenario, world, left, panicked>>
-----------------------------------------------------------------------------
Retried == IF op.alter THEN "alter" ELSE "append"

CommitSteps == {"metadata", "rewrite", "hint", "commit"}

(* A creation left half done: the hint without metadata, or a table whose  *)
(* schema was not put right                                                *)
CutsCreation == op.pc \in {"first_metadata", "creation_schema"}

(* A write fails: the transaction's commit starts over, from the table as  *)
(* it is then; the other steps, and a schema change, give up               *)
FailStep ==
  /\ ~panicked /\ op.pc # "none" /\ Spend("fail")
  /\ \/ op.pc \in CommitSteps /\ ~op.alter /\ Go(Retried) /\ UNCHANGED mgr
     \/ op' = NoOp /\ mgr' = NoManager
  /\ world' = [world EXCEPT !.cut = @ \/ CutsCreation]
  /\ UNCHANGED <<scenario, store, acked, panicked>>

(* The version hint is written but the answer does not arrive *)
LoseAnswer ==
  /\ At("hint") /\ HintAccepted(store, op.tag) /\ Spend("lost")
  /\ store' = WriteHint(store, NextVersion(op.base))
  /\ \/ ~op.alter /\ Go(Retried) /\ UNCHANGED mgr
     \/ op' = NoOp /\ mgr' = NoManager
  /\ world' = [world EXCEPT !.lost = TRUE]
  /\ UNCHANGED <<scenario, acked, panicked>>

(* The process ends, between any two writes *)
Crash ==
  /\ Spend("crash")
  /\ mgr' = NoManager /\ op' = NoOp /\ panicked' = FALSE
  /\ world' = [world EXCEPT !.compaction = None, !.cut = @ \/ CutsCreation]
  /\ UNCHANGED <<scenario, store, acked>>

(* load_snapshot_from_table.  The process is not followed beyond the load of *)
(* a table that lists a file twice: it holds two files and two indices of    *)
(* the same rows from then on.                                               *)
Load ==
  /\ ~panicked /\ ~mgr.up /\ ~world.dropped /\ LoadSucceeds(store) /\ ~ListedTwice(store)
  /\ mgr' = [up |-> TRUE, table |-> TableExists(store), files |-> LoadedFiles(store),
             indices |-> LoadedIndices(store), proxy |-> NoUpdates]
  /\ world' = [world EXCEPT !.lsn = IF HasSnapshot(store) THEN Current(store).lsn ELSE 0,
                            !.compaction = None]
  /\ UNCHANGED <<scenario, store, op, acked, left, panicked>>

(* drop_table: the table's directory goes, with everything in it *)
DropTable ==
  /\ ~panicked /\ mgr.up /\ op.pc = "none" /\ ~world.dropped /\ Spend("drop")
  /\ store' = [NewStore EXCEPT !.ns = store.ns]
  /\ mgr' = [mgr EXCEPT !.files = <<>>, !.indices = {}]
  /\ world' = [world EXCEPT !.dropped = TRUE]
  /\ UNCHANGED <<scenario, op, acked, panicked>>
-----------------------------------------------------------------------------
Next ==
  \/ StartCompaction \/ Begin
  \/ CreateNamespaceStep \/ CreateFirstHint \/ CreateFirstMetadata
  \/ CreateTableAtService \/ CreationSchemaAtService
  \/ SyncDataFiles \/ SyncDeletionVector \/ SyncFileIndices
  \/ BeginCommit \/ BeginSchemaCommit \/ WriteMetadataFile \/ RewriteManifestList
  \/ WriteVersionHint \/ CommitToService
  \/ FailStep \/ LoseAnswer \/ Crash \/ Load \/ DropTable

Spec == Init /\ [][Next]_vars

(* What the syncer is not made for: a schema change under the file catalog,  *)
(* and a compaction that leaves more data files than one manifest takes      *)
SchemaChangesAtService == scenario.catalog = "file" => scenario.budget["schema"] = 0

ManifestTakesAll ==
  op.pc = "rewrite" /\ ~op.alter /\ mgr.proxy.oldFiles # {}
    => Cardinality({e \in DataFiles(store.lists[op.snap]) : e.id \notin mgr.proxy.oldFiles}) < MaxManifestEntries

Regular == SchemaChangesAtService /\ ManifestTakesAll
-----------------------------------------------------------------------------
(* Types: an attempt exists only under a manager, and the store names what   *)
(* it holds                                                                  *)
TypeOK ==
  /\ scenario \in Scenarios
  /\ op.pc # "none" => mgr.up
  /\ store.hint \in DOMAIN store.meta \cup {0, None}
  /\ \A v \in DOMAIN store.meta : store.meta[v].snap \in DOMAIN store.lists \cup {NoSnapshot}
  /\ \A k \in Kinds : left[k] >= 0
  /\ panicked \in BOOLEAN

(* Whatever write the process stopped at, the loader finds a snapshot it     *)
(* accepts: the metadata the hint names, a data file for every deletion      *)
(* vector and index entry, one vector per file (load_snapshot_from_table);   *)
(* a creation that was cut short is the exception                            *)
LoadNeverFails == ~world.cut /\ ~world.dropped /\ ~mgr.up => LoadSucceeds(store)

(* A snapshot reported as persisted (PersistenceSnapshotResult) is the one   *)
(* on storage or an older one, schema included                               *)
AckedIsStored ==
  ~world.dropped /\ acked.lsn > 0
    => /\ HasSnapshot(store)
       /\ acked.lsn <= Current(store).lsn
       /\ acked.schema <= Current(store).schema

(* Between two snapshots persisted_data_files and persisted_file_indices are *)
(* what a fresh load would give, after any mix of imports, deletions,        *)
(* compactions, merges, retried commits and restarts, unless the retry of a  *)
(* commit whose answer was lost listed its files twice                       *)
ManagerMatchesStore ==
  mgr.up /\ op.pc = "none" /\ ~panicked /\ ~world.dropped /\ ~ListedTwice(store)
    => mgr.files = LoadedFiles(store) /\ mgr.indices = LoadedIndices(store)

(* A reader of the table, at any moment, finds every data file listed once   *)
(* and covered by one index: a deletion finds each row in one place.  Only   *)
(* the retry of a commit whose answer was lost lists a file twice.           *)
FilesAreIndexed ==
  ~world.dropped => IF ListedTwice(store) THEN world.lost ELSE
    \A id \in DOMAIN LoadedFiles(store) : Cardinality({x \in LoadedIndices(store) : id \in x.files}) = 1

(* No assertion or unwrap of the manager, the syncer or the update proxy     *)
(* fails, unless a creation was cut short                                    *)
NoPanic == panicked => world.cut

(* Wherever the process stopped, a restart finds a table and goes on with    *)
(* it: it loads, at least as new as was reported, every row is found in one  *)
(* place, and nothing panics (load_snapshot_from_table, sync_snapshot); a    *)
(* table that lists a file twice after a lost answer loads as well.          *)
RestartFindsTable == LoadNeverFails /\ AckedIsStored /\ FilesAreIndexed /\ NoPanic

(* The table as AtomicTable sees it; -1 for a table with a file listed twice,*)
(* which a lost answer may leave behind                                      *)
Table ==
  IF world.dropped \/ ~CanLoadMetadata(store)
  THEN [exists |-> FALSE, rows |-> {}, lsn |-> 0, schema |-> 0]
  ELSE [exists |-> TRUE, rows |-> Live(LoadedFiles(store)),
        lsn |-> IF ListedTwice(store) /\ ~world.lost THEN -1 ELSE Current(store).lsn, schema |-> Current(store).schema]

Pending ==
  IF op.pc = "none" THEN None
  ELSE [add |-> op.payload.add, del |-> op.payload.del, lsn |-> op.payload.lsn, schema |-> op.payload.schema]

Abstract == INSTANCE AtomicTable WITH table <- Table, pending <- Pending

(* A snapshot becomes visible as a whole or not at all: no write of the      *)
(* syncer or the catalog, no failure and no crash shows a reader anything    *)
(* but the table before it or after it (update_table, sync_snapshot)         *)
ImplementsAtomicTable == Abstract!Spec

(* The loader accepts the table on storage, however its creation went: the   *)
(* version hint "exists for all valid iceberg tables" (file_catalog.rs)      *)
EveryTableLoads == ~mgr.up /\ ~world.dropped => LoadSucceeds(store)

(* A data file is in the table once, although an answer was lost: the ETag   *)
(* is "used for atomic write to commit transaction" (file_catalog.rs)        *)
FilesListedOnce == ~world.dropped => ~ListedTwice(store)

(* Every row persisted and not deleted is still there: "retain all entries   *)
(* except those marked for removal due to compaction" (puffin_writer_proxy   *)
(* .rs)                                                                      *)
RowsAreRetained ==
  mgr.up /\ op.pc = "none" /\ ~panicked /\ ~world.dropped => DOMAIN mgr.files \subseteq DOMAIN LoadedFiles(store)
=============================================================================
