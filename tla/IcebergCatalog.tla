--------------------------- MODULE IcebergCatalog ---------------------------
(***************************************************************************)
(* What an Iceberg table is on storage, and what the catalogs do to it     *)
(* (table/iceberg: file_catalog.rs, catalog_utils.rs, puffin_writer_proxy  *)
(* .rs, the manifest managers and the loader), as operators on a store:    *)
(*   ns     the namespace indicator                                        *)
(*   hint   the version-hint file, tag its ETag; for a REST or Glue        *)
(*          catalog, the metadata the service holds as the current one     *)
(*   meta   the metadata files by version                                  *)
(*   lists  the manifest lists by snapshot, each a set of manifests        *)
(* A data file is its id and its rows; a row is a pair that identifies it  *)
(* wherever it is stored, so that a compacted file holds rows of others.   *)
(* An entry of a data or index manifest names the snapshot that added the  *)
(* file, so a file that was added twice has two entries.                   *)
(***************************************************************************)
EXTENDS Integers, FiniteSets

CONSTANTS
  None,
  MaxManifestEntries    \* DEFAULT_MAX_MANIFEST_ENTRY_COUNT

ASSUME MaxManifestEntriesAssumption == MaxManifestEntries \in Nat \ {0}

NewStore == [ns |-> FALSE, hint |-> None, tag |-> 0, meta |-> <<>>, lists |-> <<>>]

(* TableMetadata; schema 0 is the one iceberg-rust numbers anew at creation *)
Metadata(seq, snap, lsn, schema) == [seq |-> seq, snap |-> snap, lsn |-> lsn, schema |-> schema]

NoSnapshot == 0

Put(f, k, v) == [x \in DOMAIN f \cup {k} |-> IF x = k THEN v ELSE f[x]]

(* TableUpdateProxy *)
NoUpdates == [vectors |-> {}, indices |-> {}, oldIndices |-> {}, oldFiles |-> {}]
-----------------------------------------------------------------------------
(* table_exists looks for the version hint only *)
TableExists(s) == s.hint # None

(* load_metadata: the version the hint names must be there *)
CanLoadMetadata(s) == TableExists(s) /\ s.hint \in DOMAIN s.meta

Current(s) == s.meta[s.hint]

HasSnapshot(s) == CanLoadMetadata(s) /\ Current(s).snap # NoSnapshot

CurrentList(s) == IF HasSnapshot(s) THEN s.lists[Current(s).snap] ELSE {}
-----------------------------------------------------------------------------
Manifest(kind, entries) == [kind |-> kind, entries |-> entries]

Entries(list, kind) == UNION {m.entries : m \in {n \in list : n.kind = kind}}

DataFiles(list) == Entries(list, "data")

DataEntry(f, snap) == [id |-> f.id, rows |-> f.rows, snap |-> snap]

(* A file index is named by its puffin file and covers some data files *)
Index(puffin, files) == [puffin |-> puffin, files |-> files]

IndexEntry(x, snap) == [puffin |-> x.puffin, files |-> x.files, snap |-> snap]

(* append_puffin_metadata_and_rewrite leaves these manifests as they are *)
Untouched(kind, u) ==
  CASE kind = "data"   -> u.oldFiles = {}
    [] kind = "vector" -> u.vectors = {} /\ u.oldFiles = {}
    [] kind = "index"  -> u.indices = {} /\ u.oldIndices = {}

(* The order in which the entries of a list are met: rewriting keeps it *)
NotAfter(e, f) == e.snap < f.snap \/ (e.snap = f.snap /\ e.id <= f.id)

(* DataFileManifestManager: what remains goes into one manifest, a full one *)
(* is written and a new one begun; finalize returns the last                *)
RewrittenData(list, u) ==
  LET kept == {e \in DataFiles(list) : e.id \notin u.oldFiles}
      full == (Cardinality(kept) \div MaxManifestEntries) * MaxManifestEntries
  IN  {e \in kept : Cardinality({d \in kept : NotAfter(d, e)}) > full}

(* Mutant: the vectors of removed files stay *)
RewrittenVectorsAll(list, u) ==
  {v \in Entries(list, "vector") : \A w \in u.vectors : w.file # v.file} \cup u.vectors

(* DeletionVectorManifestManager: a new vector replaces that of its file *)
RewrittenVectors(list, u) ==
  {v \in Entries(list, "vector") : v.file \notin u.oldFiles
                                     /\ \A w \in u.vectors : w.file # v.file} \cup u.vectors

(* Mutant: merged indices stay in the manifest *)
RewrittenIndicesAll(list, u, snap) == Entries(list, "index") \cup {IndexEntry(x, snap) : x \in u.indices}

(* FileIndexManifestManager: an entry stays unless its puffin is removed, and *)
(* the new ones are added whether or not the list has them already            *)
RewrittenIndices(list, u, snap) ==
  {x \in Entries(list, "index") : x.puffin \notin u.oldIndices} \cup {IndexEntry(x, snap) : x \in u.indices}

Emitted(kind, entries) == IF entries = {} THEN {} ELSE {Manifest(kind, entries)}

(* Its assertion: every manifest read back has entries *)
RewriteAsserts(list) == \A m \in list : m.entries # {}

AppendPuffinAndRewrite(list, u, snap) ==
  IF u = NoUpdates THEN list
  ELSE {m \in list : Untouched(m.kind, u)}
         \cup (IF Untouched("data", u) THEN {} ELSE Emitted("data", RewrittenData(list, u)))
         \cup (IF Untouched("vector", u) THEN {} ELSE Emitted("vector", RewrittenVectors(list, u)))
         \cup (IF Untouched("index", u) THEN {} ELSE Emitted("index", RewrittenIndices(list, u, snap)))
-----------------------------------------------------------------------------
(* create_namespace *)
CreateNamespace(s) == [s EXCEPT !.ns = TRUE]

(* create_table: the version hint first ... *)
WriteFirstHint(s) == [s EXCEPT !.hint = 0, !.tag = @ + 1]

(* ... then the first metadata file, with the schema's field ids put right  *)
WriteFirstMetadata(s) == [s EXCEPT !.meta = Put(@, 0, Metadata(0, NoSnapshot, 0, 1))]

(* create_table_impl of the REST and Glue catalogs: the service creates the *)
(* table; the schema is put right by a commit of its own                    *)
CreateAtService(s) ==
  [s EXCEPT !.hint = 0, !.tag = @ + 1, !.meta = Put(@, 0, Metadata(0, NoSnapshot, 0, 0))]

CreationSchema(s) ==
  [s EXCEPT !.hint = 1, !.tag = @ + 1, !.meta = Put(@, 1, [Current(s) EXCEPT !.schema = 1])]

(* A fast append of iceberg-rust: a new snapshot with the manifests of the  *)
(* current one and one for the new data files                               *)
Appended(s, snap, files) ==
  [s EXCEPT !.lists = Put(@, snap, CurrentList(s) \cup Emitted("data", {DataEntry(f, snap) : f \in files}))]

(* Metadata with the updates of a commit reflected: a snapshot takes the    *)
(* next sequence number, a schema change does not                           *)
WithSnapshot(m, snap, lsn) == [m EXCEPT !.seq = @ + 1, !.snap = snap, !.lsn = lsn]

WithSchema(m, schema) == [m EXCEPT !.schema = schema]

(* update_table: next_sequence_number of the metadata loaded *)
NextVersion(m) == m.seq + 1

WriteMetadata(s, version, m) == [s EXCEPT !.meta = Put(@, version, m)]

RewriteList(s, snap, u) ==
  IF u = NoUpdates THEN s ELSE [s EXCEPT !.lists[snap] = AppendPuffinAndRewrite(@, u, snap)]

HintAccepted(s, tag) == s.tag = tag

WriteHint(s, version) == [s EXCEPT !.hint = version, !.tag = @ + 1]

(* The commit of update_table_impl at a service: metadata and pointer in one *)
(* step, under a version of the service's own                                *)
CommitAtService(s, m) == LET v == s.hint + 1 IN WriteHint(WriteMetadata(s, v, m), v)
-----------------------------------------------------------------------------
(* load_snapshot_from_table: its assertions, unwraps and errors *)
LoadSucceeds(s) ==
  \/ ~TableExists(s)
  \/ /\ CanLoadMetadata(s)
     /\ LET list == CurrentList(s)
            ids  == {f.id : f \in DataFiles(list)}
        IN  /\ RewriteAsserts(list)
            /\ \A v \in Entries(list, "vector") : v.file \in ids
            /\ \A v, w \in Entries(list, "vector") : v.file = w.file => v = w
            /\ \A x \in Entries(list, "index") : x.files \subseteq ids

DeletedIn(list, id) == UNION {v.rows : v \in {w \in Entries(list, "vector") : w.file = id}}

(* The loader gives every entry a FileId of its own, and pushes one index per *)
(* entry, so a file or an index listed twice is loaded twice                  *)
ListedTwice(s) ==
  \/ \E e, f \in DataFiles(CurrentList(s)) : e.id = f.id /\ e # f
  \/ \E x, y \in Entries(CurrentList(s), "index") : x.puffin = y.puffin /\ x # y

(* persisted_data_files and persisted_file_indices as loaded, of a table that *)
(* lists nothing twice                                                        *)
LoadedFiles(s) ==
  LET list  == CurrentList(s)
      files == DataFiles(list)
  IN  [id \in {f.id : f \in files} |->
         [rows |-> (CHOOSE f \in files : f.id = id).rows, deleted |-> DeletedIn(list, id)]]

LoadedIndices(s) == {Index(x.puffin, x.files) : x \in Entries(CurrentList(s), "index")}

(* The rows a reader of the current snapshot gets; from a file listed twice *)
(* each of them twice                                                       *)
Live(files) == UNION {files[id].rows \ files[id].deleted : id \in DOMAIN files}
=============================================================================
