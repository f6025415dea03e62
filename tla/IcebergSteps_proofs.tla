------------------------- MODULE IcebergSteps_proofs -------------------------
(***************************************************************************)
(* The invariant of IcebergTable, and the actions that write to storage    *)
(* before a commit can be seen.                                            *)
(*                                                                         *)
(* IInv relates the store, the manager's copy of it and the snapshot under *)
(* way.  Storage holds a table whose lists can be read back (StoreOK,      *)
(* CreationOK); between commits the manager has the files and indices of   *)
(* the current snapshot (ManagerOK); once the payload has been synced it   *)
(* has those of the snapshot to come (CommitOK), and what has been written *)
(* of that snapshot shows them (WritesOK).  Each action has a lemma, which *)
(* also says what the step is to AtomicTable.                              *)
(***************************************************************************)
EXTENDS IcebergFiles_proofs

-----------------------------------------------------------------------------
CurData(s) == DataFiles(CurrentList(s))
CurVectors(s) == Entries(CurrentList(s), "vector")
CurEntries(s) == Entries(CurrentList(s), "index")
CurIndices(s) == IndexView(CurEntries(s))
CurFiles(s) == FilesFrom(CurData(s), CurVectors(s))

Creating == {"create", "first_hint", "first_metadata", "service", "creation_schema"}

(* The manager has what is on storage *)
Settled == op.pc \in Creating \cup {"none", "files", "alter"} \/ op.alter

(* It has what the commit under way will leave there *)
Ahead == op.pc \in {"append"} \cup CommitSteps /\ ~op.alter

Shapes ==
  /\ store = [ns |-> store.ns, hint |-> store.hint, tag |-> store.tag, meta |-> store.meta, lists |-> store.lists]
  /\ mgr = [up |-> mgr.up, table |-> mgr.table, files |-> mgr.files, indices |-> mgr.indices, proxy |-> mgr.proxy]
  /\ mgr.proxy = [vectors |-> mgr.proxy.vectors, indices |-> mgr.proxy.indices,
                  oldIndices |-> mgr.proxy.oldIndices, oldFiles |-> mgr.proxy.oldFiles]
  /\ op = [pc |-> op.pc, payload |-> op.payload, base |-> op.base, snap |-> op.snap, tag |-> op.tag, alter |-> op.alter]
  /\ op.pc # "none" =>
       LET p == op.payload
       IN  p = [new |-> p.new, vectors |-> p.vectors, oldFiles |-> p.oldFiles, compacted |-> p.compacted,
                indices |-> p.indices, oldIndices |-> p.oldIndices, schema |-> p.schema, add |-> p.add,
                del |-> p.del, lsn |-> p.lsn]
  /\ world = [file |-> world.file, lsn |-> world.lsn, schema |-> world.schema, compaction |-> world.compaction,
              dropped |-> world.dropped, cut |-> world.cut, lost |-> world.lost]

Types ==
  /\ scenario \in Scenarios
  /\ left \in [Kinds -> Int] /\ (scenario.catalog = "file" => left["schema"] = 0)
  /\ world.file \in Nat /\ world.lsn \in Nat /\ world.schema \in Nat
  /\ world.dropped \in BOOLEAN /\ world.cut \in BOOLEAN /\ world.lost \in BOOLEAN
  /\ panicked \in BOOLEAN /\ op.alter \in BOOLEAN /\ mgr.up \in BOOLEAN /\ mgr.table \in BOOLEAN
  /\ store.hint \in Nat \cup {None}
  /\ \E n \in Nat : DOMAIN store.lists = 1 .. n
  /\ op.pc \in Creating \cup CommitSteps \cup {"none", "files", "vectors", "indices", "append", "alter"}
  /\ op.alter => op.pc = "commit"
  /\ op.pc \in {"first_hint", "first_metadata", "metadata", "hint"} => scenario.catalog = "file"
  /\ op.pc \in {"service", "creation_schema", "commit", "alter"} => scenario.catalog = "service"
  /\ op.pc # "none" => mgr.up /\ NewOK(op.payload) /\ op.payload.lsn = world.lsn
  /\ op.pc # "none" /\ scenario.catalog = "file" => op.payload.schema = 0

(* The table on storage *)
StoreOK ==
  /\ CanLoadMetadata(store) =>
       /\ Current(store) \in [seq : Nat, snap : Nat, lsn : Nat, schema : Nat]
       /\ Current(store).snap # 0 => Current(store).snap \in DOMAIN store.lists
       /\ Current(store).snap = 0 => Current(store).lsn = 0
       /\ scenario.catalog = "file" => Current(store).seq = store.hint
       /\ Current(store).schema = 0 => world.cut \/ op.pc = "creation_schema"
       /\ mgr.up => Current(store).lsn <= world.lsn
  /\ Manifests(CurrentList(store))
  /\ EntriesOK(CurData(store), CurVectors(store))
  /\ SoundFiles(CurFiles(store), world.file)
  /\ SoundIndices(CurFiles(store), CurIndices(store), world.file)
  /\ ~world.lost => OneEntryEach(CurData(store), CurEntries(store))

(* Creation, and creation cut short *)
CreationOK ==
  /\ store.hint = None => DOMAIN store.meta = {}
  /\ op.pc \in {"create", "first_hint", "service"} => store.hint = None
  /\ op.pc = "first_metadata" => store.hint = 0 /\ DOMAIN store.meta = {}
  /\ op.pc = "creation_schema" => CanLoadMetadata(store) /\ Current(store) = Metadata(0, NoSnapshot, 0, 0)
  /\ store.hint # None /\ store.hint \notin DOMAIN store.meta => op.pc = "first_metadata" \/ (world.cut /\ ~mgr.up)
  /\ op.pc \notin Creating \cup {"none"} => CanLoadMetadata(store) /\ mgr.table
  /\ mgr.up /\ op.pc = "none" => mgr.table = TableExists(store)
  /\ op.pc \in Creating => ~mgr.table
  /\ world.cut => op.pc \in {"none", "files"} /\ ~HasSnapshot(store) /\ store.hint # None
                  /\ (CanLoadMetadata(store) => Current(store).schema = 0)
  /\ panicked => world.cut

(* The manager and the snapshot under way *)
ManagerOK ==
  mgr.up =>
    /\ Settled => mgr.files = CurFiles(store) /\ mgr.indices = CurIndices(store) /\ mgr.proxy = NoUpdates
    /\ op.pc \in Creating \cup {"files"} =>
         PlanOK(CurFiles(store), CurIndices(store), op.payload, VectorsOf(CurFiles(store), op.payload), world.file)
    /\ op.pc \in {"vectors", "indices"} =>
         /\ PlanOK(CurFiles(store), CurIndices(store), op.payload, op.payload.vectors, world.file)
         /\ mgr.indices = CurIndices(store)
         /\ mgr.proxy.oldFiles = op.payload.oldFiles /\ mgr.proxy.indices = {} /\ mgr.proxy.oldIndices = {}
    /\ op.pc = "vectors" => mgr.files = Synced(CurFiles(store), op.payload) /\ mgr.proxy.vectors = {}
    /\ op.pc = "indices" =>
         /\ mgr.files = Target(CurFiles(store), op.payload, op.payload.vectors)
         /\ mgr.proxy.vectors = Written(Synced(CurFiles(store), op.payload), op.payload.vectors)

NewNames(D, X, p) ==
  /\ \A f \in p.new, e \in D : e.id # f.id
  /\ \A x \in p.indices, y \in X : x.puffin # y.puffin

CommitOK ==
  Ahead =>
    /\ mgr.proxy.oldFiles = op.payload.oldFiles
    /\ mgr.proxy.indices = op.payload.indices /\ mgr.proxy.oldIndices = op.payload.oldIndices
    /\ \A snap \in Nat :
         Shows(NewData(CurData(store), op.payload.new, snap, op.payload.oldFiles),
               NewVectors(CurVectors(store), mgr.proxy), mgr.files)
    /\ mgr.indices = NewIndices(CurIndices(store), mgr.proxy)
    /\ SoundFiles(mgr.files, world.file) /\ SoundIndices(mgr.files, mgr.indices, world.file)
    /\ Live(mgr.files) = (Live(CurFiles(store)) \cup op.payload.add) \ op.payload.del
    /\ ~world.lost => NewNames(CurData(store), CurIndices(store), op.payload)

(* The writes of a commit, up to the one that makes it visible *)
WritesOK ==
  /\ op.pc \in CommitSteps => op.base = Current(store)
  /\ op.pc \in CommitSteps /\ ~op.alter => op.snap \in DOMAIN store.lists /\ op.snap \in Nat \ {0} /\ op.snap # Current(store).snap
  /\ op.pc \in {"metadata", "rewrite"} =>
       store.lists[op.snap] = CurrentList(store) \cup Emitted("data", {DataEntry(f, op.snap) : f \in op.payload.new})
  /\ op.pc \in {"hint", "commit"} /\ ~op.alter =>
       LET list == store.lists[op.snap]
       IN  /\ Manifests(list)
           /\ DataFiles(list) = NewData(CurData(store), op.payload.new, op.snap, op.payload.oldFiles)
           /\ Entries(list, "vector") = NewVectors(CurVectors(store), mgr.proxy)
           /\ Entries(list, "index") = NewEntries(CurEntries(store), mgr.proxy, op.snap)
  /\ op.pc \in {"rewrite", "hint"} /\ scenario.catalog = "file" =>
       /\ NextVersion(op.base) \in DOMAIN store.meta
       /\ store.meta[NextVersion(op.base)] = WithSnapshot(op.base, op.snap, op.payload.lsn)
  /\ op.pc = "alter" \/ op.alter =>
       op.payload.schema # 0 /\ HasSnapshot(store) /\ Current(store).lsn = op.payload.lsn

(* A compaction that has begun and is not in a payload yet *)
CompactionOK ==
  mgr.up /\ world.compaction # None =>
    LET c == world.compaction
    IN  /\ c.old \subseteq DOMAIN mgr.files
        /\ c.rows \subseteq UNION {mgr.files[id].rows : id \in c.old}
        /\ \A id \in c.old : mgr.files[id].rows \ mgr.files[id].deleted \subseteq c.rows
        /\ \A x \in mgr.indices : x.files \subseteq c.old \/ x.files \cap c.old = {}
        /\ op.pc # "none" => /\ op.payload.oldFiles = {} /\ op.payload.oldIndices = {}
                             /\ \A x \in op.payload.indices : x.files \cap c.old = {}

AckedOK ==
  acked.lsn \in Nat /\ acked.schema \in Nat
  /\ (acked.lsn # 0 \/ acked.schema # 0 =>
        HasSnapshot(store) /\ acked.lsn <= Current(store).lsn /\ acked.schema <= Current(store).schema)

(* The inductive invariant *)
IInv ==
  /\ Shapes /\ Types
  /\ ~world.dropped =>
       StoreOK /\ CreationOK /\ ManagerOK /\ CommitOK /\ WritesOK /\ CompactionOK /\ AckedOK
  /\ world.dropped => op.pc = "none" /\ ~panicked /\ store.hint = None
-----------------------------------------------------------------------------
(* The payload of a snapshot fits the files and indices it was made over *)
Imports(import) == IF import THEN {NewFile(world.file)} ELSE {}

Compacts(c) == IF c # None /\ c.rows # {} THEN {[id |-> world.file + 1, rows |-> c.rows]} ELSE {}

Gone(c) == IF c = None THEN {} ELSE {x \in mgr.indices : x.files \subseteq c.old}

IsPayload(p, import, del, c, merge, schema) ==
  /\ p.new = Imports(import) \cup Compacts(c) /\ p.compacted = Compacts(c)
  /\ p.vectors = VectorsFor(del, mgr.files, p.new)
  /\ p.oldFiles = IF c = None THEN {} ELSE c.old
  /\ p.indices = {IndexOf(f) : f \in p.new}
                   \cup IF merge THEN {Index(world.file + 2, UNION {x.files : x \in mgr.indices})} ELSE {}
  /\ p.oldIndices = {x.puffin : x \in IF merge THEN mgr.indices ELSE Gone(c)}
  /\ p.schema = (IF schema THEN world.schema + 1 ELSE 0)
  /\ p.add = UNION {f.rows : f \in Imports(import)} /\ p.del = del
  /\ p.lsn = world.lsn + (IF import \/ del # {} THEN 1 ELSE 0)
  /\ p = [new |-> p.new, vectors |-> p.vectors, oldFiles |-> p.oldFiles, compacted |-> p.compacted,
          indices |-> p.indices, oldIndices |-> p.oldIndices, schema |-> p.schema, add |-> p.add,
          del |-> p.del, lsn |-> p.lsn]

LEMMA PayloadFields ==
  ASSUME NEW import, NEW merge, NEW schema, NEW c, NEW del
  PROVE  IsPayload(Payload(import, del, c, merge, schema), import, del, c, merge, schema)
BY Zenon DEF Payload, IsPayload, Imports, Compacts, Gone

PayloadFits(p) ==
  /\ FilesPlan(mgr.files, p, world.file)
  /\ IsFiniteSet(p.new)
  /\ \A f \in p.new : f.id \in world.file .. world.file + 1
  /\ p.add \in SUBSET Row /\ p.del \in SUBSET Row

LEMMA PayloadFiles ==
  ASSUME world.file \in Nat, SoundFiles(mgr.files, world.file), mgr.up, CompactionOK,
         NEW import \in BOOLEAN, NEW merge, NEW schema, NEW c \in {None, world.compaction},
         NEW del \in SUBSET Deletable(import),
         NEW p, IsPayload(p, import, del, c, merge, schema)
  PROVE  PayloadFits(p)
<1> DEFINE n    == world.file
           F    == mgr.files
           file == Imports(import)
           comp == Compacts(c)
<1> USE DEF Imports, Compacts
<1>1. /\ p.new = file \cup comp /\ p.compacted = comp
      /\ p.vectors = VectorsFor(del, F, p.new)
      /\ p.oldFiles = IF c = None THEN {} ELSE c.old
      /\ p.add = UNION {f.rows : f \in file} /\ p.del = del
  BY DEF IsPayload
<1>2. /\ NewFile(n).id = n /\ NewFile(n).rows = {<<n, 1>>, <<n, 2>>}
      /\ NewFile(n).rows \subseteq RowsBelow(n + 3) /\ NewFile(n).rows \cap RowsBelow(n) = {}
      /\ NewFile(n).rows \subseteq Row
  BY DEF NewFile, RowsBelow, Row
<1>3. \A f \in file : import /\ f = NewFile(n)
  OBVIOUS
<1>4. p.add = IF import THEN NewFile(n).rows ELSE {}
  BY <1>1
<1>5. \A id \in DOMAIN F : F[id].rows \subseteq RowsBelow(n)
  BY DEF SoundFiles
<1>6. \A f \in comp : c # None /\ f.id = n + 1 /\ f.rows = c.rows
  OBVIOUS
<1>7. \A f, g \in comp : f = g
  OBVIOUS
<1>8. c # None /\ c.rows # {} => \E f \in comp : f.rows = c.rows
  BY Zenon
<1>9. c # None =>
        /\ c.old \subseteq DOMAIN F
        /\ c.rows \subseteq UNION {F[id].rows : id \in c.old}
        /\ \A id \in c.old : F[id].rows \ F[id].deleted \subseteq c.rows
  BY DEF CompactionOK
<1>10. file \cap comp = {}
  BY <1>2, <1>3, <1>6
<1>16. IsFiniteSet(p.new)
  <2>1. IsFiniteSet(file) /\ IsFiniteSet(comp)
    BY FS_EmptySet, FS_Singleton, Zenon
  <2> HIDE DEF file, comp, Imports, Compacts
  <2>2. IsFiniteSet(file \cup comp)
    BY <2>1, FS_Union, Zenon
  <2> QED BY <1>1, <2>2
<1> HIDE DEF Imports, Compacts
<1> HIDE DEF file, comp
<1>11. \A f \in comp : f.rows \subseteq RowsBelow(n)
  BY <1>5, <1>6, <1>9
<1>12. RowsBelow(n) \subseteq RowsBelow(n + 3) /\ RowsBelow(n) \subseteq Row
  BY DEF RowsBelow, Row
<1>13. \A f \in p.new : f.id \in n .. n + 1 /\ f.rows \subseteq RowsBelow(n + 3)
  BY <1>1, <1>2, <1>3, <1>6, <1>11, <1>12
<1>14. del \subseteq Live(F) \cup p.add
  BY <1>4 DEF Deletable
<1>15. FilesPlan(F, p, n)
  <2>1. p.oldFiles \subseteq DOMAIN F
    BY <1>1, <1>9
  <2>2. \A f, g \in p.new : f.id = g.id => f = g
    BY <1>1, <1>2, <1>3, <1>6, <1>7
  <2>3. p.compacted \subseteq p.new /\ p.new \ p.compacted = file
    BY <1>1, <1>10
  <2>4. \A f \in file : f.rows \subseteq p.add /\ f.rows \cap RowsBelow(n) = {}
    BY <1>2, <1>3, <1>4
  <2>5. \A f, g \in file : f = g
    BY <1>3
  <2>6. \A r \in p.add : \E f \in file : r \in f.rows
    BY <1>1
  <2>7. \A f \in p.compacted : \A r \in f.rows : \E id \in p.oldFiles : r \in F[id].rows
    BY <1>1, <1>6, <1>9
  <2>8. \A id \in p.oldFiles : \A r \in F[id].rows \ F[id].deleted : \E f \in p.compacted : r \in f.rows
    BY <1>1, <1>8, <1>9
  <2> QED BY <1>1, <1>7, <1>13, <1>14, <2>1, <2>2, <2>3, <2>4, <2>5, <2>6, <2>7, <2>8, SMTT(30) DEF FilesPlan
<1>17. p.add \subseteq Row
  BY <1>2, <1>4
<1>18. p.del \subseteq Row
  <2>1. Live(F) \subseteq Row
    BY <1>5, <1>12 DEF Live
  <2> QED BY <1>1, <1>14, <1>17, <2>1
<1> QED BY <1>13, <1>15, <1>16, <1>17, <1>18 DEF PayloadFits

LEMMA PayloadPlan ==
  ASSUME world.file \in Nat, world.lsn \in Nat, world.schema \in Nat,
         SoundFiles(mgr.files, world.file), SoundIndices(mgr.files, mgr.indices, world.file),
         mgr.up, CompactionOK,
         NEW import \in BOOLEAN, NEW merge \in BOOLEAN, NEW schema \in BOOLEAN,
         NEW c \in {None, world.compaction}, NEW del \in SUBSET Deletable(import),
         merge => world.compaction = None,
         NEW p, IsPayload(p, import, del, c, merge, schema)
  PROVE  /\ NewOK(p)
         /\ PlanOK(mgr.files, mgr.indices, p, VectorsOf(mgr.files, p), world.file + 3)
<1> DEFINE n == world.file
           F == mgr.files
           X == mgr.indices
           T == Target(F, p, VectorsOf(F, p))
           gone == Gone(c)
<1>1. FilesPlan(F, p, n) /\ IsFiniteSet(p.new) /\ (\A f \in p.new : f.id \in n .. n + 1)
        /\ p.add \in SUBSET Row /\ p.del \in SUBSET Row
  <2>1. PayloadFits(p)
    BY PayloadFiles
  <2> QED BY <2>1 DEF PayloadFits
<1>2. /\ p.oldFiles = IF c = None THEN {} ELSE c.old
      /\ p.indices = {IndexOf(f) : f \in p.new} \cup IF merge THEN {Index(n + 2, UNION {x.files : x \in X})} ELSE {}
      /\ p.oldIndices = {x.puffin : x \in IF merge THEN X ELSE gone}
      /\ p.schema = (IF schema THEN world.schema + 1 ELSE 0)
      /\ p.lsn = world.lsn + (IF import \/ del # {} THEN 1 ELSE 0)
  BY DEF IsPayload
<1>3. /\ DOMAIN T = DOMAIN Synced(F, p) /\ SoundFiles(T, n + 3) /\ Live(T) = (Live(F) \cup p.add) \ p.del
  BY <1>1, PlannedRows
<1>4. Fresh(F, p)
  BY <1>1, PlannedFiles
<1>5. VectorsPlan(VectorsOf(F, p), F, Synced(F, p), p)
  BY <1>1, VectorsPlanned
<1> HIDE DEF T
<1>6. SoundIndices(T, NewIndices(X, p), n + 3)
  <2>1. CASE merge
    <3>1. c = None
      BY <2>1
    <3>2. /\ p.indices = {IndexOf(f) : f \in p.new} \cup {Index(n + 2, UNION {x.files : x \in X})}
          /\ p.oldIndices = {x.puffin : x \in X} /\ p.oldFiles = {}
      BY <1>2, <2>1, <3>1
    <3>3. \A f \in p.new : f.id # n + 2
      BY <1>1
    <3> QED BY <1>1, <1>3, <3>2, <3>3, MergedIndices, Zenon
  <2>2. CASE ~merge
    <3>1. p.indices = {IndexOf(f) : f \in p.new} /\ p.oldIndices = {x.puffin : x \in gone}
      BY <1>2, <2>2, SMTT(30)
    <3>2. gone \in SUBSET X /\ \A x \in gone : x.files \subseteq p.oldFiles
      BY <1>2 DEF Gone
    <3>3. \A x \in X \ gone : x.files \cap p.oldFiles = {}
      BY <1>2 DEF CompactionOK, Gone
    <3> HIDE DEF gone
    <3> QED BY <1>1, <1>3, <3>1, <3>2, <3>3, PlannedIndices, SMTT(30)
  <2> QED BY <2>1, <2>2, SMTT(30)
<1>7. p.oldIndices \subseteq {x.puffin : x \in X}
  BY <1>2 DEF Gone
<1>8. /\ \A x \in p.indices : x.puffin \notin p.oldIndices /\ x = Index(x.puffin, x.files)
      /\ \A x \in p.indices, y \in X : x.puffin # y.puffin
  <2>1. \A x \in p.indices : x.puffin \in n .. n + 2
    BY <1>1, <1>2 DEF IndexOf, Index
  <2>3. \A x \in p.indices : x = Index(x.puffin, x.files)
    BY <1>2 DEF IndexOf, Index
  <2>4. \A y \in X : y.puffin \in 0 .. n - 1
    BY DEF SoundIndices
  <2>2. \A i \in p.oldIndices : i \in 0 .. n - 1
    BY <1>7 DEF SoundIndices
  <2> QED BY <2>1, <2>2, <2>3, <2>4
<1>9. p.lsn \in Nat /\ p.schema \in Nat
  BY <1>2
<1>10. NewOK(p)
  BY <1>1, <1>4, <1>8, <1>9, SMTT(30) DEF NewOK, Fresh
<1>11. PlanOK(F, X, p, VectorsOf(F, p), n + 3)
  BY <1>1, <1>3, <1>4, <1>5, <1>6, <1>7, <1>8, Zenon DEF PlanOK, Fresh, FilesPlan, VectorsPlan, OnePerFile, T
<1> QED BY <1>10, <1>11

-----------------------------------------------------------------------------
(* What is on storage is the same for a reader *)
SameList(s, t) ==
  /\ CurrentList(t) = CurrentList(s)
  /\ CurData(t) = CurData(s) /\ CurVectors(t) = CurVectors(s) /\ CurEntries(t) = CurEntries(s)
  /\ CurIndices(t) = CurIndices(s) /\ CurFiles(t) = CurFiles(s)

SameView(s, t) ==
  /\ t.hint = s.hint
  /\ CanLoadMetadata(t) <=> CanLoadMetadata(s)
  /\ CanLoadMetadata(s) => Current(t) = Current(s)
  /\ HasSnapshot(t) <=> HasSnapshot(s)
  /\ SameList(s, t)

-----------------------------------------------------------------------------
(* One step at a time *)
Parts == StoreOK /\ CreationOK /\ ManagerOK /\ CommitOK /\ WritesOK /\ CompactionOK /\ AckedOK

OpStays == op'.payload = op.payload /\ op'.base = op.base /\ op'.snap = op.snap /\ op'.tag = op.tag /\ op'.alter = op.alter

OpShape == op' = [pc |-> op'.pc, payload |-> op'.payload, base |-> op'.base, snap |-> op'.snap, tag |-> op'.tag, alter |-> op'.alter]

(* Payloads that differ in their vectors only *)
SamePlan(p, q) ==
  /\ q.new = p.new /\ q.oldFiles = p.oldFiles /\ q.indices = p.indices /\ q.oldIndices = p.oldIndices
  /\ q.add = p.add /\ q.del = p.del /\ q.lsn = p.lsn /\ q.schema = p.schema

(* What a step does to the table a reader finds: nothing, for most of them *)
SameTable(s, t) ==
  /\ CanLoadMetadata(t) <=> CanLoadMetadata(s)
  /\ CanLoadMetadata(s) => Current(t) = Current(s) /\ CurFiles(t) = CurFiles(s)

SamePending == IF op.pc = "none" THEN op'.pc = "none" ELSE op'.pc # "none" /\ SamePlan(op.payload, op'.payload)

Unseen == SameTable(store, store') /\ world'.dropped = world.dropped /\ SamePending

Begins == store' = store /\ world'.dropped = world.dropped /\ op.pc = "none" /\ op'.pc # "none"

Ends == store' = store /\ world'.dropped = world.dropped /\ op'.pc = "none"

Appears ==
  /\ ~world.dropped /\ ~world'.dropped /\ SamePending
  /\ ~CanLoadMetadata(store) /\ CanLoadMetadata(store') /\ ~HasSnapshot(store') /\ Current(store').lsn = 0

TakesSchema ==
  /\ ~world.dropped /\ ~world'.dropped /\ SamePending
  /\ CanLoadMetadata(store) /\ CanLoadMetadata(store') /\ CurFiles(store') = CurFiles(store)
  /\ Current(store).schema = 0 /\ Current(store').schema = 1 /\ Current(store').lsn = Current(store).lsn

LEMMA SameStore ==
  ASSUME NEW s
  PROVE  SameTable(s, s)
BY DEF SameTable

LEMMA TableOfView ==
  ASSUME NEW s, NEW t, SameView(s, t)
  PROVE  SameTable(s, t)
BY DEF SameTable, SameView, SameList

LEMMA GoFields ==
  ASSUME Shapes, NEW pc, Go(pc)
  PROVE  op'.pc = pc /\ OpStays /\ OpShape
BY DEF Shapes, Go, OpStays, OpShape

BudgetOK == left \in [Kinds -> Int] /\ (scenario.catalog = "file" => left["schema"] = 0)

LEMMA SpendKeeps ==
  ASSUME Types, NEW k \in Kinds \ {"schema"}, Spend(k), scenario' = scenario
  PROVE  BudgetOK'
<1>1. left' \in [Kinds -> Int]
  BY DEF Types, Spend
<1>2. left'["schema"] = left["schema"]
  BY DEF Types, Spend, Kinds
<1> QED BY <1>1, <1>2 DEF Types, BudgetOK

LEMMA StartCompactionStep ==
  ASSUME IInv, StartCompaction
  PROVE  IInv' /\ Unseen
<1> DEFINE c == [old |-> DOMAIN mgr.files, rows |-> Live(mgr.files)]
<1>1. /\ world' = [world EXCEPT !.compaction = c] /\ mgr.up /\ op.pc = "none"
      /\ UNCHANGED <<scenario, store, mgr, op, acked, panicked>>
  BY DEF StartCompaction
<1>2. c.old = DOMAIN mgr.files /\ c.rows = Live(mgr.files)
  OBVIOUS
<1> HIDE DEF c
<1>3. /\ world'.file = world.file /\ world'.lsn = world.lsn /\ world'.schema = world.schema
      /\ world'.dropped = world.dropped /\ world'.cut = world.cut /\ world'.lost = world.lost
      /\ world'.compaction = c
  BY <1>1 DEF IInv, Shapes
<1>4. Shapes'
  BY <1>1, <1>3 DEF IInv, Shapes
<1>5. Types'
  <2>1. BudgetOK'
    BY <1>1, SpendKeeps DEF IInv, StartCompaction, Kinds
  <2> QED BY <1>1, <1>3, <2>1, Zenon DEF IInv, Types, BudgetOK
<1>6. ASSUME ~world.dropped PROVE (StoreOK /\ CreationOK)'
  BY <1>1, <1>3, <1>6 DEF IInv, StoreOK, CreationOK
<1>7. ASSUME ~world.dropped PROVE (ManagerOK /\ CommitOK)'
  BY <1>1, <1>3, <1>7 DEF IInv, ManagerOK, Settled, CommitOK, Ahead
<1>8. ASSUME ~world.dropped PROVE (WritesOK /\ AckedOK)'
  BY <1>1, <1>3, <1>8 DEF IInv, WritesOK, AckedOK
<1>9. ASSUME ~world.dropped PROVE CompactionOK'
  <2>1. mgr.files = CurFiles(store) /\ mgr.indices = CurIndices(store)
    BY <1>1, <1>9, SMTT(30) DEF IInv, ManagerOK, Settled
  <2>2. \A x \in mgr.indices : x.files \subseteq DOMAIN mgr.files
    BY <1>9, <2>1 DEF IInv, StoreOK, SoundIndices
  <2>3. /\ c.rows \subseteq UNION {mgr.files[id].rows : id \in c.old}
        /\ \A id \in c.old : mgr.files[id].rows \ mgr.files[id].deleted \subseteq c.rows
    BY <1>2 DEF Live
  <2> QED BY <1>1, <1>2, <1>3, <2>2, <2>3 DEF CompactionOK
<1>30. Unseen
  BY <1>1, <1>3, SameStore DEF Unseen, SamePending
<1>31. IInv'
  BY <1>1, <1>3, <1>4, <1>5, <1>6, <1>7, <1>8, <1>9 DEF IInv
<1> QED BY <1>30, <1>31

LEMMA BeginStep ==
  ASSUME IInv, Begin
  PROVE  IInv' /\ Begins
<1>1. /\ ~panicked /\ mgr.up /\ op.pc = "none" /\ ~world.dropped
      /\ UNCHANGED <<scenario, store, mgr, acked, panicked>>
  BY DEF Begin
<1>2. PICK import \in BOOLEAN, merge \in BOOLEAN, schema \in BOOLEAN, compact \in {None, world.compaction} :
        \E del \in {{}} \cup {{r} : r \in Deletable(import)} : BeginWith(import, del, compact, merge, schema)
  BY DEF Begin
<1>0. PICK del \in {{}} \cup {{r} : r \in Deletable(import)} : BeginWith(import, del, compact, merge, schema)
  BY <1>2
<1>3. /\ merge => world.compaction = None
      /\ schema => left["schema"] > 0
      /\ left' = [left EXCEPT !["sync"] = @ - 1,
                              !["merge"] = @ - (IF merge THEN 1 ELSE 0),
                              !["schema"] = @ - (IF schema THEN 1 ELSE 0),
                              !["delete"] = @ - (IF del # {} THEN 1 ELSE 0)]
      /\ LET p == Payload(import, del, compact, merge, schema)
         IN  /\ op' = [pc |-> IF mgr.table THEN "files" ELSE "create", payload |-> p,
                       base |-> None, snap |-> 0, tag |-> 0, alter |-> FALSE]
             /\ world' = [world EXCEPT !.file = @ + 3, !.lsn = p.lsn,
                                       !.schema = IF schema THEN @ + 1 ELSE @,
                                       !.compaction = IF compact # None THEN None ELSE @]
  BY <1>0 DEF BeginWith
<1>4. PICK p : p = Payload(import, del, compact, merge, schema)
  OBVIOUS
<1>5. IsPayload(p, import, del, compact, merge, schema)
  BY <1>4, PayloadFields
<1>6. /\ op'.pc = (IF mgr.table THEN "files" ELSE "create") /\ op'.payload = p
      /\ op'.base = None /\ op'.snap = 0 /\ op'.tag = 0 /\ op'.alter = FALSE /\ OpShape
  BY <1>3, <1>4 DEF OpShape
<1>7. /\ world'.file = world.file + 3 /\ world'.lsn = p.lsn
      /\ world'.schema = (IF schema THEN world.schema + 1 ELSE world.schema)
      /\ world'.compaction = (IF compact # None THEN None ELSE world.compaction)
      /\ world'.dropped = world.dropped /\ world'.cut = world.cut /\ world'.lost = world.lost
      /\ world' = [file |-> world'.file, lsn |-> world'.lsn, schema |-> world'.schema, compaction |-> world'.compaction,
                   dropped |-> world'.dropped, cut |-> world'.cut, lost |-> world'.lost]
  BY <1>3, <1>4, Zenon DEF IInv, Shapes
<1>8. Parts
  BY <1>1 DEF IInv, Parts
<1>9. /\ mgr.files = CurFiles(store) /\ mgr.indices = CurIndices(store) /\ mgr.proxy = NoUpdates
      /\ SoundFiles(mgr.files, world.file) /\ SoundIndices(mgr.files, mgr.indices, world.file)
  BY <1>1, <1>8, Zenon DEF Parts, ManagerOK, Settled, StoreOK
<1>10. world.file \in Nat /\ world.lsn \in Nat /\ world.schema \in Nat
  BY DEF IInv, Types
<1>11. del \in SUBSET Deletable(import)
  BY <1>3
<1>12. /\ NewOK(p)
       /\ PlanOK(mgr.files, mgr.indices, p, VectorsOf(mgr.files, p), world.file + 3)
  BY <1>1, <1>3, <1>5, <1>8, <1>9, <1>10, <1>11, PayloadPlan, SMTT(30) DEF Parts
<1>13. p.lsn >= world.lsn /\ p.schema = (IF schema THEN world.schema + 1 ELSE 0)
  BY <1>5, <1>10, SMTT(30) DEF IsPayload
<1>14. Shapes'
  <2>1. p = [new |-> p.new, vectors |-> p.vectors, oldFiles |-> p.oldFiles, compacted |-> p.compacted,
             indices |-> p.indices, oldIndices |-> p.oldIndices, schema |-> p.schema, add |-> p.add,
             del |-> p.del, lsn |-> p.lsn]
    BY <1>5, SMTT(30) DEF IsPayload
  <2> QED BY <1>1, <1>6, <1>7, <2>1 DEF IInv, Shapes, OpShape
<1>15. BudgetOK' /\ (schema => scenario.catalog # "file")
  <2>1. left \in [Kinds -> Int] /\ (scenario.catalog = "file" => left["schema"] = 0)
    BY DEF IInv, Types
  <2>2. left' \in [Kinds -> Int]
    BY <1>3, <2>1 DEF Kinds
  <2>3. left'["schema"] = left["schema"] - (IF schema THEN 1 ELSE 0)
    BY <1>3, <2>1, SMTT(30) DEF Kinds
  <2> QED BY <1>1, <1>3, <2>1, <2>2, <2>3 DEF BudgetOK
<1>16. Types'
  <2>1. p.lsn \in Nat /\ world'.schema \in Nat /\ world'.file \in Nat
    BY <1>7, <1>10, <1>12 DEF NewOK
  <2>2. op'.pc \in {"create", "files"} /\ op'.pc \in Creating \cup {"none", "files"}
    BY <1>6 DEF Creating
  <2>3. scenario'.catalog = "file" => op'.payload.schema = 0
    BY <1>1, <1>6, <1>13, <1>15
  <2> QED BY <1>1, <1>6, <1>7, <1>12, <1>15, <2>1, <2>2, <2>3, ZenonT(60) DEF IInv, Types, BudgetOK
<1>17. StoreOK'
  <2>1. SoundFiles(CurFiles(store), world.file + 3) /\ SoundIndices(CurFiles(store), CurIndices(store), world.file + 3)
    <3>1. RowsBelow(world.file) \subseteq RowsBelow(world.file + 3)
      BY <1>10, RowsBelowGrows, SMTT(30)
    <3> QED BY <1>9, <1>10, <3>1 DEF SoundFiles, SoundIndices
  <2> QED BY <1>1, <1>6, <1>7, <1>8, <1>10, <1>12, <1>13, <2>1, SMTT(30) DEF Parts, StoreOK, NewOK
<1>18. CreationOK'
  BY <1>1, <1>6, <1>7, <1>8, Zenon DEF Parts, CreationOK, Creating, CanLoadMetadata, TableExists
<1>19. ManagerOK' /\ CommitOK' /\ WritesOK' /\ AckedOK'
  BY <1>1, <1>6, <1>7, <1>8, <1>9, <1>12, Zenon DEF Parts, ManagerOK, Settled, CommitOK, Ahead, WritesOK, AckedOK, CommitSteps, Creating
<1>20. CompactionOK'
  <2>1. CASE compact # None
    BY <1>7, <2>1 DEF CompactionOK
  <2>2. CASE compact = None /\ world.compaction # None
    <3>1. p.oldFiles = {} /\ p.oldIndices = {} /\ p.indices = {IndexOf(f) : f \in p.new}
      BY <1>3, <1>5, <2>2, SMTT(30) DEF IsPayload, Gone
    <3>2. \A f \in p.new : f.id \notin DOMAIN mgr.files
      BY <1>12 DEF PlanOK
    <3>3. \A x \in p.indices : x.files \cap world.compaction.old = {}
      BY <1>1, <1>8, <2>2, <3>1, <3>2 DEF Parts, CompactionOK, IndexOf, Index
    <3> QED BY <1>1, <1>6, <1>7, <1>8, <2>2, <3>1, <3>3 DEF Parts, CompactionOK
  <2>3. CASE compact = None /\ world.compaction = None
    BY <1>7, <2>3 DEF CompactionOK
  <2> QED BY <2>1, <2>2, <2>3
<1>30. Begins
  BY <1>1, <1>6, <1>7 DEF Begins
<1>31. IInv'
  BY <1>1, <1>7, <1>14, <1>16, <1>17, <1>18, <1>19, <1>20 DEF IInv
<1> QED BY <1>30, <1>31

-----------------------------------------------------------------------------
LEMMA ListFromView ==
  ASSUME NEW s, NEW t, CurrentList(t) = CurrentList(s)
  PROVE  SameList(s, t)
BY DEF SameList, CurData, CurVectors, CurEntries, CurIndices, CurFiles

LEMMA NothingToShow ==
  ASSUME NEW s, NEW t, ~HasSnapshot(s), ~HasSnapshot(t)
  PROVE  SameList(s, t)
BY ListFromView DEF CurrentList

LEMMA ViewKept ==
  ASSUME NEW s, NEW t, t.hint = s.hint,
         s.hint \in DOMAIN s.meta <=> t.hint \in DOMAIN t.meta,
         CanLoadMetadata(s) => t.meta[s.hint] = s.meta[s.hint],
         CanLoadMetadata(s) /\ Current(s).snap # NoSnapshot => t.lists[Current(s).snap] = s.lists[Current(s).snap]
  PROVE  SameView(s, t)
<1>1. CanLoadMetadata(t) <=> CanLoadMetadata(s)
  BY DEF CanLoadMetadata, TableExists
<1>2. CanLoadMetadata(s) => Current(t) = Current(s)
  BY DEF Current
<1>3. HasSnapshot(t) <=> HasSnapshot(s)
  BY <1>1, <1>2 DEF HasSnapshot
<1>4. CurrentList(t) = CurrentList(s)
  BY <1>2, <1>3 DEF CurrentList, HasSnapshot
<1> QED BY <1>1, <1>2, <1>3, <1>4, ListFromView DEF SameView

LEMMA InProgress ==
  ASSUME IInv, NEW pc, pc # "none", At(pc)
  PROVE  /\ op.pc = pc /\ ~panicked /\ ~world.dropped /\ Parts /\ mgr.up
         /\ NewOK(op.payload) /\ op.payload.lsn = world.lsn
BY DEF IInv, At, Parts, Types

LEMMA CreateNamespaceStepStep ==
  ASSUME IInv, CreateNamespaceStep
  PROVE  IInv' /\ Unseen
<1>1. op.pc = "create" /\ ~panicked /\ ~world.dropped /\ Parts /\ mgr.up
  BY InProgress DEF CreateNamespaceStep
<1>2. store.hint = None
  BY <1>1 DEF Parts, CreationOK
<1>3. /\ store' = CreateNamespace(store)
      /\ Go(IF scenario.catalog = "file" THEN "first_hint" ELSE "service")
      /\ UNCHANGED <<scenario, mgr, world, acked, left, panicked>>
  BY <1>2 DEF CreateNamespaceStep, CanLoadMetadata, TableExists
<1>4. op'.pc = (IF scenario.catalog = "file" THEN "first_hint" ELSE "service") /\ OpStays /\ OpShape
  BY <1>3, GoFields DEF IInv
<1>5. /\ store'.hint = store.hint /\ store'.meta = store.meta /\ store'.lists = store.lists
      /\ store' = [ns |-> store'.ns, hint |-> store'.hint, tag |-> store'.tag, meta |-> store'.meta, lists |-> store'.lists]
  BY <1>3, ZenonT(60) DEF IInv, Shapes, CreateNamespace
<1>6. SameView(store, store')
  BY <1>5, ViewKept
<1>7. Shapes'
  BY <1>1, <1>3, <1>4, <1>5 DEF IInv, Shapes, OpStays, OpShape
<1>8. Types'
  <2>1. scenario.catalog \in {"file", "service"}
    BY ScenariosAssumption DEF IInv, Types
  <2> QED BY <1>1, <1>3, <1>4, <1>5, <2>1, ZenonT(60) DEF IInv, Types, OpStays, Creating
<1>9. StoreOK' /\ CreationOK'
  BY <1>1, <1>2, <1>3, <1>4, <1>5, <1>6 DEF Parts, StoreOK, CreationOK, SameView, SameList, Creating, CanLoadMetadata, TableExists
<1>10. ManagerOK'
  BY <1>1, <1>3, <1>4, <1>6, ZenonT(60) DEF Parts, ManagerOK, Settled, SameView, SameList, Creating, OpStays
<1>11. CommitOK' /\ WritesOK' /\ AckedOK'
  BY <1>1, <1>3, <1>4, <1>6, ZenonT(60) DEF Parts, CommitOK, Ahead, WritesOK, AckedOK, SameView, CommitSteps, OpStays, HasSnapshot
<1>12. CompactionOK'
  BY <1>1, <1>3, <1>4, Zenon DEF Parts, CompactionOK, OpStays
<1>30. Unseen
  BY <1>1, <1>3, <1>4, <1>6, TableOfView DEF Unseen, SamePending, SamePlan, OpStays
<1>31. IInv'
  BY <1>1, <1>3, <1>7, <1>8, <1>9, <1>10, <1>11, <1>12 DEF IInv
<1> QED BY <1>30, <1>31

MgrStays == mgr'.up = mgr.up /\ mgr'.files = mgr.files /\ mgr'.indices = mgr.indices /\ mgr'.proxy = mgr.proxy

MgrShape == mgr' = [up |-> mgr'.up, table |-> mgr'.table, files |-> mgr'.files, indices |-> mgr'.indices, proxy |-> mgr'.proxy]

LEMMA CreatedFields ==
  ASSUME Shapes, mgr' = [mgr EXCEPT !.table = TRUE]
  PROVE  mgr'.table /\ mgr'.table \in BOOLEAN /\ MgrStays /\ MgrShape
BY Zenon DEF Shapes, MgrStays, MgrShape

LEMMA UnchangedManager ==
  ASSUME Shapes, mgr' = mgr
  PROVE  mgr'.table = mgr.table /\ MgrStays /\ MgrShape
BY DEF Shapes, MgrStays, MgrShape

LEMMA CreateFirstHintStep ==
  ASSUME IInv, CreateFirstHint
  PROVE  IInv' /\ Unseen
<1>1. op.pc = "first_hint" /\ ~panicked /\ ~world.dropped /\ Parts /\ mgr.up
  BY InProgress DEF CreateFirstHint
<1>2. store.hint = None /\ DOMAIN store.meta = {} /\ ~HasSnapshot(store) /\ ~mgr.table /\ ~world.cut
  BY <1>1 DEF Parts, CreationOK, CanLoadMetadata, TableExists, HasSnapshot, Metadata, NoSnapshot
<1>3. /\ store' = WriteFirstHint(store) /\ Go("first_metadata")
      /\ UNCHANGED <<scenario, world, acked, left, panicked>>
  BY DEF CreateFirstHint, Created
<1>4. op'.pc = "first_metadata" /\ OpStays /\ OpShape
  BY <1>3, GoFields DEF IInv
<1>0. /\ store'.hint = 0 /\ store'.meta = store.meta /\ store'.lists = store.lists
      /\ store' = [ns |-> store'.ns, hint |-> store'.hint, tag |-> store'.tag, meta |-> store'.meta, lists |-> store'.lists]
  BY <1>3, ZenonT(60) DEF IInv, Shapes, WriteFirstHint
<1>5. store'.hint = 0 /\ store'.lists = store.lists /\ ~CanLoadMetadata(store') /\ DOMAIN store'.meta = {}
      /\ store' = [ns |-> store'.ns, hint |-> store'.hint, tag |-> store'.tag, meta |-> store'.meta, lists |-> store'.lists]
  BY <1>0, <1>2, NoneAssumption DEF Put, Current, CanLoadMetadata, TableExists, Metadata
<1>6. ~HasSnapshot(store') /\ SameList(store, store')
  BY <1>2, <1>5, NothingToShow DEF HasSnapshot, Metadata, NoSnapshot
<1>13. mgr'.table = mgr.table /\ MgrStays /\ MgrShape
  BY UnchangedManager DEF IInv, CreateFirstHint
<1>7. Shapes'
  BY <1>1, <1>3, <1>4, <1>5, <1>13 DEF IInv, Shapes, OpStays, OpShape, MgrShape, MgrStays
<1>8. Types'
  BY <1>1, <1>3, <1>4, <1>5, <1>13, SMTT(30) DEF IInv, Types, OpStays, Creating, MgrStays
<1>9. StoreOK'
  <2>1. CanLoadMetadata(store') =>
          /\ Current(store') \in [seq : Nat, snap : Nat, lsn : Nat, schema : Nat]
          /\ Current(store').snap = 0 /\ Current(store').lsn = 0
          /\ Current(store').seq = 0 /\ (Current(store').schema = 0 => op'.pc = "creation_schema")
    BY <1>4, <1>5 DEF Metadata, NoSnapshot
  <2>2. world.lsn \in Nat /\ (op.pc = "creation_schema" => scenario.catalog # "file")
    BY SMTT(30) DEF IInv, Types
  <2> QED BY <1>1, <1>3, <1>4, <1>5, <1>6, <1>13, <2>1, <2>2 DEF Parts, StoreOK, SameList, MgrStays
<1>14. CreationOK'
  BY <1>1, <1>2, <1>3, <1>4, <1>5, <1>6, <1>13, SMTT(30) DEF Parts, CreationOK, Creating, CanLoadMetadata, TableExists, Current, HasSnapshot, Metadata, NoSnapshot, MgrStays
<1>10. ManagerOK'
  BY <1>1, <1>3, <1>4, <1>6, <1>13, ZenonT(60) DEF Parts, ManagerOK, Settled, SameList, Creating, OpStays, MgrStays
<1>11. CommitOK' /\ WritesOK' /\ AckedOK'
  BY <1>1, <1>2, <1>3, <1>4, <1>6, <1>13, ZenonT(60) DEF Parts, CommitOK, Ahead, WritesOK, AckedOK, CommitSteps, OpStays
<1>12. CompactionOK'
  BY <1>1, <1>3, <1>4, <1>13 DEF Parts, CompactionOK, OpStays, MgrStays
<1>30. Unseen
  BY <1>1, <1>2, <1>3, <1>4, <1>5, SMTT(30) DEF Unseen, SamePending, SameTable, SamePlan, OpStays, CanLoadMetadata
<1>31. IInv'
  BY <1>1, <1>3, <1>7, <1>8, <1>9, <1>10, <1>11, <1>12, <1>14, SMTT(30) DEF IInv
<1> QED BY <1>30, <1>31

LEMMA CreateFirstMetadataStep ==
  ASSUME IInv, CreateFirstMetadata
  PROVE  IInv' /\ Appears
<1>1. op.pc = "first_metadata" /\ ~panicked /\ ~world.dropped /\ Parts /\ mgr.up
  BY InProgress DEF CreateFirstMetadata
<1>2. store.hint = 0 /\ DOMAIN store.meta = {} /\ ~HasSnapshot(store) /\ ~world.cut
  BY <1>1 DEF Parts, CreationOK, CanLoadMetadata, TableExists, HasSnapshot, Metadata, NoSnapshot
<1>3. /\ store' = WriteFirstMetadata(store) /\ Go("files")
      /\ UNCHANGED <<scenario, world, acked, left, panicked>>
  BY DEF CreateFirstMetadata, Created
<1>4. op'.pc = "files" /\ OpStays /\ OpShape
  BY <1>3, GoFields DEF IInv
<1>0. /\ store'.hint = store.hint /\ store'.meta = Put(store.meta, 0, Metadata(0, NoSnapshot, 0, 1)) /\ store'.lists = store.lists
      /\ store' = [ns |-> store'.ns, hint |-> store'.hint, tag |-> store'.tag, meta |-> store'.meta, lists |-> store'.lists]
  BY <1>3 DEF IInv, Shapes, WriteFirstMetadata
<1>5. /\ store'.hint = 0 /\ 0 \in DOMAIN store'.meta /\ store'.lists = store.lists
      /\ CanLoadMetadata(store') /\ Current(store') = Metadata(0, NoSnapshot, 0, 1)
      /\ store' = [ns |-> store'.ns, hint |-> store'.hint, tag |-> store'.tag, meta |-> store'.meta, lists |-> store'.lists]
  BY <1>0, <1>2, NoneAssumption DEF Put, Current, CanLoadMetadata, TableExists, Metadata
<1>6. ~HasSnapshot(store') /\ SameList(store, store')
  BY <1>2, <1>5, NothingToShow DEF HasSnapshot, Metadata, NoSnapshot
<1>13. mgr'.table /\ mgr'.table \in BOOLEAN /\ MgrStays /\ MgrShape
  BY CreatedFields, SMTT(30) DEF IInv, CreateFirstMetadata, Created
<1>7. Shapes'
  BY <1>1, <1>3, <1>4, <1>5, <1>13, SMTT(30) DEF IInv, Shapes, OpStays, OpShape, MgrShape, MgrStays
<1>8. Types'
  BY <1>1, <1>3, <1>4, <1>5, <1>13, SMTT(30) DEF IInv, Types, OpStays, Creating, MgrStays
<1>9. StoreOK'
  <2>1. CanLoadMetadata(store') =>
          /\ Current(store') \in [seq : Nat, snap : Nat, lsn : Nat, schema : Nat]
          /\ Current(store').snap = 0 /\ Current(store').lsn = 0
          /\ Current(store').seq = 0 /\ (Current(store').schema = 0 => op'.pc = "creation_schema")
    BY <1>4, <1>5, SMTT(30) DEF Metadata, NoSnapshot
  <2>2. world.lsn \in Nat /\ (op.pc = "creation_schema" => scenario.catalog # "file")
    BY DEF IInv, Types
  <2> QED BY <1>1, <1>3, <1>4, <1>5, <1>6, <1>13, <2>1, <2>2, SMTT(30) DEF Parts, StoreOK, SameList, MgrStays
<1>14. CreationOK'
  BY <1>1, <1>2, <1>3, <1>4, <1>5, <1>6, <1>13, SMTT(30) DEF Parts, CreationOK, Creating, CanLoadMetadata, TableExists, Current, HasSnapshot, Metadata, NoSnapshot, MgrStays
<1>10. ManagerOK'
  BY <1>1, <1>3, <1>4, <1>6, <1>13, ZenonT(60) DEF Parts, ManagerOK, Settled, SameList, Creating, OpStays, MgrStays
<1>11. CommitOK' /\ WritesOK' /\ AckedOK'
  BY <1>1, <1>2, <1>3, <1>4, <1>6, <1>13, ZenonT(60) DEF Parts, CommitOK, Ahead, WritesOK, AckedOK, CommitSteps, OpStays
<1>12. CompactionOK'
  BY <1>1, <1>3, <1>4, <1>13, SMTT(30) DEF Parts, CompactionOK, OpStays, MgrStays
<1>30. Appears
  BY <1>1, <1>2, <1>3, <1>4, <1>5, <1>6, SMTT(30) DEF Appears, SamePending, SamePlan, OpStays, CanLoadMetadata, Metadata
<1>31. IInv'
  BY <1>1, <1>3, <1>7, <1>8, <1>9, <1>10, <1>11, <1>12, <1>14, SMTT(30) DEF IInv
<1> QED BY <1>30, <1>31

LEMMA CreateTableAtServiceStep ==
  ASSUME IInv, CreateTableAtService
  PROVE  IInv' /\ Appears
<1>1. op.pc = "service" /\ ~panicked /\ ~world.dropped /\ Parts /\ mgr.up
  BY InProgress DEF CreateTableAtService
<1>2. store.hint = None /\ DOMAIN store.meta = {} /\ ~HasSnapshot(store) /\ ~mgr.table /\ ~world.cut
  BY <1>1 DEF Parts, CreationOK, CanLoadMetadata, TableExists, HasSnapshot, Metadata, NoSnapshot
<1>3. /\ store' = CreateAtService(store) /\ Go("creation_schema")
      /\ UNCHANGED <<scenario, world, acked, left, panicked>>
  BY DEF CreateTableAtService, Created
<1>4. op'.pc = "creation_schema" /\ OpStays /\ OpShape
  BY <1>3, GoFields DEF IInv
<1>0. /\ store'.hint = 0 /\ store'.meta = Put(store.meta, 0, Metadata(0, NoSnapshot, 0, 0)) /\ store'.lists = store.lists
      /\ store' = [ns |-> store'.ns, hint |-> store'.hint, tag |-> store'.tag, meta |-> store'.meta, lists |-> store'.lists]
  BY <1>3, ZenonT(60) DEF IInv, Shapes, CreateAtService
<1>5. /\ store'.hint = 0 /\ 0 \in DOMAIN store'.meta /\ store'.lists = store.lists
      /\ CanLoadMetadata(store') /\ Current(store') = Metadata(0, NoSnapshot, 0, 0)
      /\ store' = [ns |-> store'.ns, hint |-> store'.hint, tag |-> store'.tag, meta |-> store'.meta, lists |-> store'.lists]
  BY <1>0, <1>2, NoneAssumption DEF Put, Current, CanLoadMetadata, TableExists, Metadata
<1>6. ~HasSnapshot(store') /\ SameList(store, store')
  BY <1>2, <1>5, NothingToShow DEF HasSnapshot, Metadata, NoSnapshot
<1>13. mgr'.table = mgr.table /\ MgrStays /\ MgrShape
  BY UnchangedManager DEF IInv, CreateTableAtService
<1>7. Shapes'
  BY <1>1, <1>3, <1>4, <1>5, <1>13, SMTT(30) DEF IInv, Shapes, OpStays, OpShape, MgrShape, MgrStays
<1>8. Types'
  BY <1>1, <1>3, <1>4, <1>5, <1>13, SMTT(30) DEF IInv, Types, OpStays, Creating, MgrStays
<1>9. StoreOK'
  <2>1. CanLoadMetadata(store') =>
          /\ Current(store') \in [seq : Nat, snap : Nat, lsn : Nat, schema : Nat]
          /\ Current(store').snap = 0 /\ Current(store').lsn = 0
          /\ Current(store').seq = 0 /\ (Current(store').schema = 0 => op'.pc = "creation_schema")
    BY <1>4, <1>5, SMTT(30) DEF Metadata, NoSnapshot
  <2>2. world.lsn \in Nat /\ (op.pc = "creation_schema" => scenario.catalog # "file")
    BY DEF IInv, Types
  <2> QED BY <1>1, <1>3, <1>4, <1>5, <1>6, <1>13, <2>1, <2>2, SMTT(30) DEF Parts, StoreOK, SameList, MgrStays
<1>14. CreationOK'
  BY <1>1, <1>2, <1>3, <1>4, <1>5, <1>6, <1>13, SMTT(30) DEF Parts, CreationOK, Creating, CanLoadMetadata, TableExists, Current, HasSnapshot, Metadata, NoSnapshot, MgrStays
<1>10. ManagerOK'
  BY <1>1, <1>3, <1>4, <1>6, <1>13, ZenonT(60) DEF Parts, ManagerOK, Settled, SameList, Creating, OpStays, MgrStays
<1>11. CommitOK' /\ WritesOK' /\ AckedOK'
  BY <1>1, <1>2, <1>3, <1>4, <1>6, <1>13, ZenonT(60) DEF Parts, CommitOK, Ahead, WritesOK, AckedOK, CommitSteps, OpStays
<1>12. CompactionOK'
  BY <1>1, <1>3, <1>4, <1>13, SMTT(30) DEF Parts, CompactionOK, OpStays, MgrStays
<1>30. Appears
  BY <1>1, <1>2, <1>3, <1>4, <1>5, <1>6, SMTT(30) DEF Appears, SamePending, SamePlan, OpStays, CanLoadMetadata, TableExists, Metadata
<1>31. IInv'
  BY <1>1, <1>3, <1>7, <1>8, <1>9, <1>10, <1>11, <1>12, <1>14, SMTT(30) DEF IInv
<1> QED BY <1>30, <1>31

LEMMA CreationSchemaAtServiceStep ==
  ASSUME IInv, CreationSchemaAtService
  PROVE  IInv' /\ TakesSchema
<1>1. op.pc = "creation_schema" /\ ~panicked /\ ~world.dropped /\ Parts /\ mgr.up
  BY InProgress DEF CreationSchemaAtService
<1>2. CanLoadMetadata(store) /\ Current(store) = Metadata(0, NoSnapshot, 0, 0) /\ ~HasSnapshot(store) /\ ~world.cut
  BY <1>1 DEF Parts, CreationOK, CanLoadMetadata, TableExists, HasSnapshot, Metadata, NoSnapshot
<1>3. /\ store' = CreationSchema(store) /\ Go("files")
      /\ UNCHANGED <<scenario, world, acked, left, panicked>>
  BY DEF CreationSchemaAtService, Created
<1>4. op'.pc = "files" /\ OpStays /\ OpShape
  BY <1>3, GoFields DEF IInv
<1>0. /\ store'.hint = 1 /\ store'.meta = Put(store.meta, 1, [Current(store) EXCEPT !.schema = 1]) /\ store'.lists = store.lists
      /\ store' = [ns |-> store'.ns, hint |-> store'.hint, tag |-> store'.tag, meta |-> store'.meta, lists |-> store'.lists]
  BY <1>3, ZenonT(60) DEF IInv, Shapes, CreationSchema
<1>5. /\ store'.hint = 1 /\ 1 \in DOMAIN store'.meta /\ store'.lists = store.lists
      /\ CanLoadMetadata(store') /\ Current(store') = Metadata(0, NoSnapshot, 0, 1)
      /\ store' = [ns |-> store'.ns, hint |-> store'.hint, tag |-> store'.tag, meta |-> store'.meta, lists |-> store'.lists]
  BY <1>0, <1>2, NoneAssumption DEF Put, Current, CanLoadMetadata, TableExists, Metadata
<1>6. ~HasSnapshot(store') /\ SameList(store, store')
  BY <1>2, <1>5, NothingToShow DEF HasSnapshot, Metadata, NoSnapshot
<1>13. mgr'.table /\ mgr'.table \in BOOLEAN /\ MgrStays /\ MgrShape
  BY CreatedFields DEF IInv, CreationSchemaAtService, Created
<1>7. Shapes'
  BY <1>1, <1>3, <1>4, <1>5, <1>13 DEF IInv, Shapes, OpStays, OpShape, MgrShape, MgrStays
<1>8. Types'
  BY <1>1, <1>3, <1>4, <1>5, <1>13, SMTT(30) DEF IInv, Types, OpStays, Creating, MgrStays
<1>9. StoreOK'
  <2>1. CanLoadMetadata(store') =>
          /\ Current(store') \in [seq : Nat, snap : Nat, lsn : Nat, schema : Nat]
          /\ Current(store').snap = 0 /\ Current(store').lsn = 0
          /\ Current(store').seq = 0 /\ (Current(store').schema = 0 => op'.pc = "creation_schema")
    BY <1>4, <1>5, SMTT(30) DEF Metadata, NoSnapshot
  <2>2. world.lsn \in Nat /\ (op.pc = "creation_schema" => scenario.catalog # "file")
    BY DEF IInv, Types
  <2> QED BY <1>1, <1>3, <1>4, <1>5, <1>6, <1>13, <2>1, <2>2, SMTT(30) DEF Parts, StoreOK, SameList, MgrStays
<1>14. CreationOK'
  BY <1>1, <1>2, <1>3, <1>4, <1>5, <1>6, <1>13, SMTT(30) DEF Parts, CreationOK, Creating, CanLoadMetadata, TableExists, Current, HasSnapshot, Metadata, NoSnapshot, MgrStays
<1>10. ManagerOK'
  BY <1>1, <1>3, <1>4, <1>6, <1>13, ZenonT(60) DEF Parts, ManagerOK, Settled, SameList, Creating, OpStays, MgrStays
<1>11. CommitOK' /\ WritesOK' /\ AckedOK'
  BY <1>1, <1>2, <1>3, <1>4, <1>6, <1>13, ZenonT(60) DEF Parts, CommitOK, Ahead, WritesOK, AckedOK, CommitSteps, OpStays
<1>12. CompactionOK'
  BY <1>1, <1>3, <1>4, <1>13, ZenonT(60) DEF Parts, CompactionOK, OpStays, MgrStays
<1>30. TakesSchema
  BY <1>1, <1>2, <1>3, <1>4, <1>5, <1>6, SMTT(30) DEF Parts, CreationOK, TakesSchema, SamePending, SamePlan, OpStays, SameList, Metadata
<1>31. IInv'
  BY <1>1, <1>3, <1>7, <1>8, <1>9, <1>10, <1>11, <1>12, <1>14, SMTT(30) DEF IInv
<1> QED BY <1>30, <1>31

-----------------------------------------------------------------------------
LEMMA PlanKept ==
  ASSUME NEW p, NEW q, SamePlan(p, q), NEW F, NEW X, NEW vs, NEW n
  PROVE  /\ Synced(F, q) = Synced(F, p)
         /\ NewOK(p) => NewOK(q)
         /\ PlanOK(F, X, p, vs, n) => PlanOK(F, X, q, vs, n)
<1>1. Synced(F, q) = Synced(F, p) /\ Target(F, q, vs) = Target(F, p, vs)
  BY DEF SamePlan, Synced, Target
<1>2. NewIndices(X, q) = NewIndices(X, p)
  BY DEF SamePlan, NewIndices
<1>3. NewOK(p) => NewOK(q)
  BY SMTT(30) DEF SamePlan, NewOK
<1>4. PlanOK(F, X, p, vs, n) => PlanOK(F, X, q, vs, n)
  BY <1>1, <1>2, SMTT(30) DEF SamePlan, PlanOK
<1> QED BY <1>1, <1>3, <1>4

LEMMA FreshOfPlan ==
  ASSUME NEW F, NEW X, NEW p, NEW vs, NEW n, NewOK(p), PlanOK(F, X, p, vs, n)
  PROVE  Fresh(F, p) /\ OnePerFile(vs)
BY Zenon DEF NewOK, PlanOK, Fresh, OnePerFile

LEMMA SyncDataFilesStep ==
  ASSUME IInv, SyncDataFiles
  PROVE  IInv' /\ Unseen
<1> DEFINE p == op.payload
<1>1. op.pc = "files" /\ ~panicked /\ ~world.dropped /\ Parts /\ mgr.up /\ NewOK(p)
  BY InProgress DEF SyncDataFiles
<1>2. UNCHANGED <<scenario, store, world, acked, left>>
  BY SMTT(30) DEF SyncDataFiles
<1>3. /\ mgr.files = CurFiles(store) /\ mgr.indices = CurIndices(store) /\ mgr.proxy = NoUpdates
      /\ PlanOK(CurFiles(store), CurIndices(store), p, VectorsOf(CurFiles(store), p), world.file)
  BY <1>1 DEF Parts, ManagerOK, Settled
<1>4. mgr.proxy.oldFiles = {} /\ mgr.proxy.vectors = {} /\ mgr.proxy.indices = {} /\ mgr.proxy.oldIndices = {}
  BY <1>3, SMTT(30) DEF NoUpdates
<1>5. FilesValid(p)
  BY <1>3 DEF FilesValid, PlanOK
<1>6. CASE ~SchemaAsserts
  <2>1. panicked' = TRUE /\ UNCHANGED <<mgr, op>>
    BY <1>6, SMTT(30) DEF SyncDataFiles
  <2>2. world.cut
    BY <1>1, <1>6, ZenonT(60) DEF Parts, StoreOK, CreationOK, SchemaAsserts, Creating
  <2>3. Shapes'
    BY <1>2, <2>1, SMTT(30) DEF IInv, Shapes
  <2>4. Types'
    BY <1>2, <2>1, SMTT(30) DEF IInv, Types
  <2>5. (StoreOK /\ CreationOK)'
    BY <1>1, <1>2, <2>1, <2>2, ZenonT(60) DEF Parts, StoreOK, CreationOK
  <2>6. (ManagerOK /\ CommitOK)'
    BY <1>1, <1>2, <2>1, ZenonT(60) DEF Parts, ManagerOK, Settled, CommitOK, Ahead
  <2>7. (WritesOK /\ CompactionOK /\ AckedOK)'
    BY <1>1, <1>2, <2>1, Zenon DEF Parts, WritesOK, CompactionOK, AckedOK
  <2>8. Unseen
    BY <1>1, <1>2, <2>1, SameStore DEF Unseen, SamePending, SamePlan
  <2>9. IInv'
    BY <1>1, <1>2, <2>3, <2>4, <2>5, <2>6, <2>7 DEF IInv
  <2> QED BY <2>8, <2>9
<1>7. CASE SchemaAsserts
  <2> DEFINE vs == VectorsOf(mgr.files, p)
             G  == Synced(mgr.files, p)
  <2>1. /\ mgr' = [mgr EXCEPT !.files = G, !.proxy.oldFiles = p.oldFiles]
        /\ op' = [op EXCEPT !.pc = "vectors", !.payload.vectors = vs]
        /\ panicked' = panicked
    BY <1>4, <1>5, <1>7 DEF SyncDataFiles, Synced, VectorsOf
  <2> HIDE DEF vs, G
  <2>2. /\ mgr'.up = mgr.up /\ mgr'.table = mgr.table /\ mgr'.files = G /\ mgr'.indices = mgr.indices
        /\ mgr'.proxy.oldFiles = p.oldFiles /\ mgr'.proxy.vectors = mgr.proxy.vectors
        /\ mgr'.proxy.indices = mgr.proxy.indices /\ mgr'.proxy.oldIndices = mgr.proxy.oldIndices
        /\ MgrShape
        /\ mgr'.proxy = [vectors |-> mgr'.proxy.vectors, indices |-> mgr'.proxy.indices,
                         oldIndices |-> mgr'.proxy.oldIndices, oldFiles |-> mgr'.proxy.oldFiles]
    BY <2>1, Zenon DEF IInv, Shapes, MgrShape
  <2>3. /\ op'.pc = "vectors" /\ op'.base = op.base /\ op'.snap = op.snap /\ op'.tag = op.tag /\ op'.alter = op.alter
        /\ OpShape /\ op'.payload = [p EXCEPT !.vectors = vs]
    BY <2>1, Zenon DEF IInv, Shapes, OpShape
  <2>4. PICK q : q = op'.payload
    OBVIOUS
  <2>5. /\ q.vectors = vs /\ SamePlan(p, q)
        /\ q = [new |-> q.new, vectors |-> q.vectors, oldFiles |-> q.oldFiles, compacted |-> q.compacted,
                indices |-> q.indices, oldIndices |-> q.oldIndices, schema |-> q.schema, add |-> q.add,
                del |-> q.del, lsn |-> q.lsn]
    BY <1>1, <2>3, <2>4 DEF IInv, Shapes, SamePlan
  <2>6. /\ NewOK(q) /\ PlanOK(CurFiles(store), CurIndices(store), q, vs, world.file)
        /\ G = Synced(CurFiles(store), q)
    BY <1>1, <1>3, <2>5, PlanKept DEF vs, G
  <2>7. Shapes'
    BY <1>1, <1>2, <2>2, <2>3, <2>4, <2>5 DEF IInv, Shapes, OpShape, MgrShape
  <2>8. Types'
    BY <1>1, <1>2, <2>1, <2>2, <2>3, <2>4, <2>5, <2>6, ZenonT(60) DEF IInv, Types, SamePlan
  <2>9. StoreOK'
    BY <1>1, <1>2, <2>2, <2>3 DEF Parts, StoreOK
  <2>10. CreationOK'
    <3>1. ~world.cut /\ CanLoadMetadata(store)
      BY <1>1, <1>7 DEF Parts, CreationOK, SchemaAsserts, Creating
    <3> QED BY <1>1, <1>2, <2>1, <2>2, <2>3, <3>1 DEF Parts, CreationOK, Creating, CanLoadMetadata, TableExists
  <2>11. ManagerOK'
    BY <1>1, <1>2, <1>3, <1>4, <2>2, <2>3, <2>4, <2>5, <2>6, SMTT(30) DEF Parts, ManagerOK, Settled, Creating, SamePlan, Types, IInv
  <2>12. (CommitOK /\ WritesOK /\ AckedOK)'
    BY <1>1, <1>2, <2>3 DEF Parts, CommitOK, Ahead, WritesOK, AckedOK, CommitSteps, IInv, Types
  <2>13. CompactionOK'
    <3> SUFFICES ASSUME world.compaction # None PROVE CompactionOK'
      BY <1>2 DEF CompactionOK
    <3>1. PICK c : c = world.compaction
      OBVIOUS
    <3>2. /\ c.old \subseteq DOMAIN mgr.files
          /\ c.rows \subseteq UNION {mgr.files[id].rows : id \in c.old}
          /\ \A id \in c.old : mgr.files[id].rows \ mgr.files[id].deleted \subseteq c.rows
          /\ \A x \in mgr.indices : x.files \subseteq c.old \/ x.files \cap c.old = {}
          /\ p.oldFiles = {} /\ p.oldIndices = {} /\ \A x \in p.indices : x.files \cap c.old = {}
      BY <1>1, <3>1, SMTT(30) DEF Parts, CompactionOK
    <3>3. IsSynced(G, mgr.files, p)
      BY <1>1, <1>3, FreshOfPlan, SyncedAt DEF G
    <3>4. c.old \subseteq DOMAIN G /\ \A id \in c.old : G[id] = mgr.files[id]
      BY <3>2, <3>3 DEF IsSynced
    <3>5. /\ c.rows \subseteq UNION {G[id].rows : id \in c.old}
          /\ \A id \in c.old : G[id].rows \ G[id].deleted \subseteq c.rows
      BY <3>2, <3>4
    <3> QED BY <1>2, <2>2, <2>3, <2>4, <2>5, <3>1, <3>2, <3>4, <3>5, SMTT(30) DEF CompactionOK, SamePlan
  <2>14. Unseen
    BY <1>1, <1>2, <2>3, <2>4, <2>5, SameStore DEF Unseen, SamePending
  <2>15. IInv'
    BY <1>1, <1>2, <2>1, <2>7, <2>8, <2>9, <2>10, <2>11, <2>12, <2>13, SMTT(30) DEF IInv
  <2> QED BY <2>14, <2>15
<1> QED BY <1>6, <1>7

LEMMA SyncDeletionVectorStep ==
  ASSUME IInv, SyncDeletionVector
  PROVE  IInv' /\ Unseen
<1> DEFINE p == op.payload
           vs == Written(mgr.files, p.vectors)
           T == Marked(mgr.files, vs)
<1>1. op.pc = "vectors" /\ ~panicked /\ ~world.dropped /\ Parts /\ mgr.up /\ NewOK(p)
  BY InProgress DEF SyncDeletionVector
<1>2. UNCHANGED <<scenario, store, world, acked, left, panicked>>
  BY SMTT(30) DEF SyncDeletionVector
<1>3. /\ PlanOK(CurFiles(store), CurIndices(store), p, p.vectors, world.file)
      /\ mgr.indices = CurIndices(store) /\ mgr.files = Synced(CurFiles(store), p)
      /\ mgr.proxy.vectors = {} /\ mgr.proxy.oldFiles = p.oldFiles
      /\ mgr.proxy.indices = {} /\ mgr.proxy.oldIndices = {}
  BY <1>1 DEF Parts, ManagerOK
<1>4. /\ mgr' = [mgr EXCEPT !.proxy.vectors = @ \cup vs, !.files = T] /\ Go("indices")
  BY DEF SyncDeletionVector
<1>5. op'.pc = "indices" /\ OpStays /\ OpShape
  BY <1>4, GoFields, SMTT(30) DEF IInv
<1>6. T = Target(CurFiles(store), p, p.vectors) /\ vs = Written(Synced(CurFiles(store), p), p.vectors)
  BY <1>3, SMTT(30) DEF Target
<1>7. IsMarked(T, mgr.files, p.vectors)
  BY <1>1, <1>3, FreshOfPlan, MarkedAt
<1> HIDE DEF vs, T
<1>8. /\ mgr'.up = mgr.up /\ mgr'.table = mgr.table /\ mgr'.files = T /\ mgr'.indices = mgr.indices
      /\ mgr'.proxy.vectors = mgr.proxy.vectors \cup vs /\ mgr'.proxy.oldFiles = mgr.proxy.oldFiles
      /\ mgr'.proxy.indices = mgr.proxy.indices /\ mgr'.proxy.oldIndices = mgr.proxy.oldIndices
      /\ MgrShape
      /\ mgr'.proxy = [vectors |-> mgr'.proxy.vectors, indices |-> mgr'.proxy.indices,
                       oldIndices |-> mgr'.proxy.oldIndices, oldFiles |-> mgr'.proxy.oldFiles]
  BY <1>4, ZenonT(60) DEF IInv, Shapes, MgrShape
<1>9. Shapes'
  BY <1>1, <1>2, <1>5, <1>8 DEF IInv, Shapes, OpShape, OpStays, MgrShape
<1>10. Types'
  BY <1>1, <1>2, <1>5, <1>8, SMTT(30) DEF IInv, Types, OpStays
<1>11. (StoreOK /\ CreationOK)'
  BY <1>1, <1>2, <1>5, <1>8, ZenonT(60) DEF Parts, StoreOK, CreationOK, Creating
<1>12. ManagerOK'
  BY <1>1, <1>2, <1>3, <1>5, <1>6, <1>8, ZenonT(60) DEF IInv, Types, ManagerOK, Settled, Creating, OpStays
<1>13. (CommitOK /\ WritesOK /\ AckedOK)'
  BY <1>1, <1>2, <1>5, ZenonT(60) DEF Parts, CommitOK, Ahead, WritesOK, AckedOK, CommitSteps, IInv, Types, OpStays
<1>14. CompactionOK'
  <2> SUFFICES ASSUME world.compaction # None PROVE CompactionOK'
    BY <1>2, Zenon DEF CompactionOK
  <2>1. PICK c : c = world.compaction
    OBVIOUS
  <2>2. /\ c.old \subseteq DOMAIN mgr.files
        /\ c.rows \subseteq UNION {mgr.files[id].rows : id \in c.old}
        /\ \A id \in c.old : mgr.files[id].rows \ mgr.files[id].deleted \subseteq c.rows
        /\ \A x \in mgr.indices : x.files \subseteq c.old \/ x.files \cap c.old = {}
        /\ p.oldFiles = {} /\ p.oldIndices = {} /\ \A x \in p.indices : x.files \cap c.old = {}
    BY <1>1, <2>1 DEF Parts, CompactionOK
  <2>3. /\ c.old \subseteq DOMAIN T
        /\ \A id \in c.old : T[id].rows = mgr.files[id].rows /\ mgr.files[id].deleted \subseteq T[id].deleted
    BY <1>7, <2>2 DEF IsMarked
  <2>4. /\ c.rows \subseteq UNION {T[id].rows : id \in c.old}
        /\ \A id \in c.old : T[id].rows \ T[id].deleted \subseteq c.rows
    BY <2>2, <2>3
  <2> QED BY <1>2, <1>5, <1>8, <2>1, <2>2, <2>3, <2>4, SMTT(60) DEF CompactionOK, OpStays
<1>30. Unseen
  BY <1>1, <1>2, <1>5, SameStore DEF Unseen, SamePending, SamePlan, OpStays
<1>31. IInv'
  BY <1>1, <1>2, <1>9, <1>10, <1>11, <1>12, <1>13, <1>14, SMTT(30) DEF IInv
<1> QED BY <1>30, <1>31

LEMMA SyncFileIndicesStep ==
  ASSUME IInv, SyncFileIndices
  PROVE  IInv' /\ Unseen
<1> DEFINE p == op.payload
           F == CurFiles(store)
<1>1. op.pc = "indices" /\ ~panicked /\ ~world.dropped /\ Parts /\ mgr.up /\ NewOK(p)
  BY InProgress DEF SyncFileIndices
<1>2. UNCHANGED <<scenario, store, world, acked, left>>
  BY SMTT(30) DEF SyncFileIndices
<1>3. /\ PlanOK(F, CurIndices(store), p, p.vectors, world.file)
      /\ mgr.indices = CurIndices(store) /\ mgr.files = Target(F, p, p.vectors)
      /\ mgr.proxy.vectors = Written(Synced(F, p), p.vectors)
      /\ mgr.proxy.oldFiles = p.oldFiles /\ mgr.proxy.indices = {} /\ mgr.proxy.oldIndices = {}
  BY <1>1, SMTT(30) DEF Parts, ManagerOK
<1>4. p.oldIndices \subseteq {x.puffin : x \in mgr.indices}
  BY <1>3, SMTT(30) DEF PlanOK
<1>5. mgr' = Dropped(Imported(mgr, p), p) /\ Go("append") /\ panicked' = panicked
  BY <1>3, <1>4, Zenon DEF SyncFileIndices
<1>6. op'.pc = "append" /\ OpStays /\ OpShape
  BY <1>5, GoFields DEF IInv
<1>7. /\ mgr'.up = mgr.up /\ mgr'.table = mgr.table /\ mgr'.files = mgr.files
      /\ mgr'.indices = {x \in mgr.indices \cup p.indices : x.puffin \notin p.oldIndices}
      /\ mgr'.proxy.vectors = mgr.proxy.vectors /\ mgr'.proxy.oldFiles = mgr.proxy.oldFiles
      /\ mgr'.proxy.indices = mgr.proxy.indices \cup p.indices /\ mgr'.proxy.oldIndices = p.oldIndices
      /\ MgrShape
      /\ mgr'.proxy = [vectors |-> mgr'.proxy.vectors, indices |-> mgr'.proxy.indices,
                       oldIndices |-> mgr'.proxy.oldIndices, oldFiles |-> mgr'.proxy.oldFiles]
  BY <1>5, Zenon DEF IInv, Shapes, MgrShape, Imported, Dropped
<1>8. mgr'.indices = NewIndices(CurIndices(store), p) /\ mgr'.indices = NewIndices(CurIndices(store), mgr'.proxy)
  BY <1>1, <1>3, <1>7, ZenonT(60) DEF NewOK, NewIndices
<1>9. Shapes'
  BY <1>1, <1>2, <1>6, <1>7, ZenonT(60) DEF IInv, Shapes, OpShape, OpStays, MgrShape
<1>10. Types'
  BY <1>1, <1>2, <1>5, <1>6, <1>7, ZenonT(60) DEF IInv, Types, OpStays
<1>11. (StoreOK /\ CreationOK)'
  BY <1>1, <1>2, <1>5, <1>6, <1>7, ZenonT(60) DEF Parts, StoreOK, CreationOK, Creating
<1>12. (ManagerOK /\ WritesOK /\ AckedOK)'
  BY <1>1, <1>2, <1>6, ZenonT(60) DEF Parts, IInv, Types, ManagerOK, Settled, Creating, OpStays, WritesOK, AckedOK, CommitSteps
<1>13. CommitOK'
  <2>1. Fresh(F, p) /\ OnePerFile(p.vectors) /\ EntriesOK(CurData(store), CurVectors(store))
    BY <1>1, <1>3, FreshOfPlan, ZenonT(60) DEF Parts, StoreOK
  <2>2. \A snap \in Nat :
          Shows(NewData(CurData(store), p.new, snap, p.oldFiles), NewVectors(CurVectors(store), mgr'.proxy), mgr.files)
    <3> SUFFICES ASSUME NEW snap \in Nat
                 PROVE  Shows(NewData(CurData(store), p.new, snap, p.oldFiles), NewVectors(CurVectors(store), mgr'.proxy), mgr.files)
      BY SMTT(30)
    <3>1. IsFiniteSet(p.new) /\ \A v \in p.vectors : v.file \in DOMAIN Synced(F, p)
      BY <1>1, <1>3, ZenonT(60) DEF NewOK, PlanOK
    <3>2. mgr'.proxy.oldFiles = p.oldFiles /\ mgr'.proxy.vectors = Written(Synced(F, p), p.vectors)
      BY <1>3, <1>7, Zenon
    <3>3. PICK D, V : D = CurData(store) /\ V = CurVectors(store)
      OBVIOUS
    <3>4. F = FilesFrom(D, V) /\ EntriesOK(D, V)
      BY <2>1, <3>3 DEF CurFiles
    <3> HIDE DEF F
    <3>5. PICK u : u = mgr'.proxy
      BY SMTT(30)
    <3>6. Prepared(FilesFrom(D, V), p, p.vectors, u)
      BY <2>1, <3>1, <3>2, <3>4, <3>5 DEF Prepared
    <3>7. Shows(NewData(D, p.new, snap, p.oldFiles), NewVectors(V, u), Target(FilesFrom(D, V), p, p.vectors))
      BY <3>4, <3>6, CommitShows, SMTT(30)
    <3> QED BY <1>3, <3>3, <3>4, <3>5, <3>7, Zenon
  <2>3. /\ SoundFiles(mgr.files, world.file) /\ SoundIndices(mgr.files, mgr'.indices, world.file)
        /\ Live(mgr.files) = (Live(F) \cup p.add) \ p.del
    BY <1>3, <1>8, ZenonT(60) DEF PlanOK
  <2>4. \A f \in p.new, e \in CurData(store) : e.id # f.id
    <3>1. IsFilesFrom(F, CurData(store), CurVectors(store))
      BY <2>1, FilesFromAt, SMTT(30) DEF CurFiles
    <3> HIDE DEF F
    <3> QED BY <2>1, <3>1, Zenon DEF Fresh, IsFilesFrom
  <2>5. NewNames(CurData(store), CurIndices(store), p)
    BY <1>3, <2>4, ZenonT(60) DEF PlanOK, NewNames
  <2> QED BY <1>2, <1>3, <1>6, <1>7, <1>8, <2>2, <2>3, <2>5, ZenonT(60) DEF CommitOK, OpStays
<1>14. CompactionOK'
  <2> SUFFICES ASSUME world.compaction # None PROVE CompactionOK'
    BY <1>2 DEF CompactionOK
  <2>1. PICK c : c = world.compaction
    OBVIOUS
  <2>2. /\ c.old \subseteq DOMAIN mgr.files
        /\ c.rows \subseteq UNION {mgr.files[id].rows : id \in c.old}
        /\ \A id \in c.old : mgr.files[id].rows \ mgr.files[id].deleted \subseteq c.rows
        /\ \A x \in mgr.indices : x.files \subseteq c.old \/ x.files \cap c.old = {}
        /\ p.oldFiles = {} /\ p.oldIndices = {} /\ \A x \in p.indices : x.files \cap c.old = {}
    BY <1>1, <2>1 DEF Parts, CompactionOK
  <2> QED BY <1>2, <1>6, <1>7, <2>1, <2>2, SMTT(30) DEF CompactionOK, OpStays
<1>30. Unseen
  BY <1>1, <1>2, <1>6, SameStore DEF Unseen, SamePending, SamePlan, OpStays
<1>31. IInv'
  BY <1>1, <1>2, <1>5, <1>9, <1>10, <1>11, <1>12, <1>13, <1>14 DEF IInv
<1> QED BY <1>30, <1>31

-----------------------------------------------------------------------------
LEMMA BeginCommitStep ==
  ASSUME IInv, BeginCommit
  PROVE  IInv' /\ Unseen
<1>1. op.pc = "append" /\ ~panicked /\ ~world.dropped /\ Parts /\ mgr.up /\ CanLoadMetadata(store)
  BY InProgress DEF BeginCommit
<1>2. PICK n \in Nat : DOMAIN store.lists = 1 .. n
  BY DEF IInv, Types
<1>3. PICK snap : snap = Cardinality(DOMAIN store.lists) + 1
  OBVIOUS
<1>4. snap = n + 1
  <2>1. Cardinality(1 .. n) = IF 1 > n THEN 0 ELSE n - 1 + 1
    BY FS_Interval
  <2> QED BY <1>2, <1>3, <2>1
<1>5. PICK list : list = CurrentList(store) \cup Emitted("data", {DataEntry(f, snap) : f \in op.payload.new})
  BY Zenon
<1>6. /\ store' = [store EXCEPT !.lists = Put(@, snap, list)]
      /\ op' = [op EXCEPT !.pc = IF scenario.catalog = "file" THEN "metadata" ELSE "rewrite",
                          !.base = Current(store), !.snap = snap, !.tag = store.tag]
      /\ UNCHANGED <<scenario, mgr, world, acked, left, panicked>>
  BY <1>3, <1>5 DEF BeginCommit, Appended
<1>7. /\ op'.pc = (IF scenario.catalog = "file" THEN "metadata" ELSE "rewrite")
      /\ op'.base = Current(store) /\ op'.snap = snap /\ op'.payload = op.payload /\ op'.alter = op.alter /\ OpShape
  BY <1>6, ZenonT(60) DEF IInv, Shapes, OpShape
<1>8. /\ store'.hint = store.hint /\ store'.meta = store.meta /\ store'.lists = Put(store.lists, snap, list)
      /\ store' = [ns |-> store'.ns, hint |-> store'.hint, tag |-> store'.tag, meta |-> store'.meta, lists |-> store'.lists]
  BY <1>6 DEF IInv, Shapes
<1>9. DOMAIN store'.lists = 1 .. n + 1 /\ store'.lists[snap] = list /\ \A i \in 1 .. n : store'.lists[i] = store.lists[i]
  BY <1>2, <1>4, <1>8 DEF Put
<1>10. Current(store).snap # NoSnapshot => Current(store).snap \in 1 .. n
  BY <1>1, <1>2 DEF Parts, StoreOK, NoSnapshot
<1>11. SameView(store, store')
  BY <1>8, <1>9, <1>10, ViewKept, SMTT(30)
<1>12. op.alter = FALSE /\ scenario.catalog \in {"file", "service"}
  BY <1>1, ScenariosAssumption DEF IInv, Types
<1>13. Shapes'
  BY <1>1, <1>6, <1>7, <1>8 DEF IInv, Shapes, OpShape
<1>14. Types'
  <2>1. \E m \in Nat : DOMAIN store'.lists = 1 .. m
    BY <1>9
  <2>2. /\ op'.pc \in CommitSteps /\ op'.pc # "none"
        /\ op'.pc \in {"first_hint", "first_metadata", "metadata", "hint"} => scenario.catalog = "file"
        /\ op'.pc \in {"service", "creation_schema", "commit", "alter"} => scenario.catalog = "service"
    BY <1>7 DEF CommitSteps
  <2>3. op'.alter = FALSE /\ op'.payload = op.payload
    BY <1>7, <1>12
  <2>4. mgr.up /\ NewOK(op.payload) /\ op.payload.lsn = world.lsn /\ (scenario.catalog = "file" => op.payload.schema = 0)
    BY <1>1 DEF IInv, Types
  <2> QED BY <1>6, <1>8, <2>1, <2>2, <2>3, <2>4 DEF IInv, Types
<1>15. StoreOK'
  BY <1>1, <1>2, <1>6, <1>7, <1>8, <1>9, <1>10, <1>11 DEF Parts, StoreOK, SameView, SameList, NoSnapshot
<1>16. CreationOK'
  BY <1>1, <1>6, <1>7, <1>8, <1>11 DEF Parts, CreationOK, SameView, Creating, TableExists
<1>17. ManagerOK' /\ AckedOK'
  BY <1>1, <1>6, <1>7, <1>11, <1>12 DEF Parts, ManagerOK, Settled, AckedOK, SameView, Creating, HasSnapshot
<1>18. CommitOK'
  BY <1>1, <1>6, <1>7, <1>11, <1>12 DEF Parts, CommitOK, Ahead, CommitSteps, SameView, SameList
<1>19. WritesOK'
  <2>1. CurrentList(store') = CurrentList(store) /\ Current(store') = Current(store)
    BY <1>1, <1>11 DEF SameView, SameList
  <2>2. snap \in DOMAIN store'.lists /\ snap \in Nat \ {0} /\ snap # Current(store).snap
    BY <1>4, <1>9, <1>10, SMTT(30) DEF NoSnapshot
  <2>3. store'.lists[op'.snap] = CurrentList(store') \cup Emitted("data", {DataEntry(f, op'.snap) : f \in op'.payload.new})
    BY <1>5, <1>7, <1>9, <2>1
  <2> QED BY <1>6, <1>7, <1>12, <2>1, <2>2, <2>3 DEF WritesOK
<1>20. CompactionOK'
  BY <1>1, <1>6, <1>7 DEF Parts, CompactionOK
<1>30. Unseen
  BY <1>1, <1>6, <1>7, <1>11, TableOfView DEF Unseen, SamePending, SamePlan
<1>31. IInv'
  BY <1>1, <1>6, <1>13, <1>14, <1>15, <1>16, <1>17, <1>18, <1>19, <1>20, SMTT(30) DEF IInv
<1> QED BY <1>30, <1>31

LEMMA BeginSchemaCommitStep ==
  ASSUME IInv, BeginSchemaCommit
  PROVE  IInv' /\ Unseen
<1>1. op.pc = "alter" /\ ~panicked /\ ~world.dropped /\ Parts /\ mgr.up
  BY InProgress DEF BeginSchemaCommit
<1>2. scenario.catalog = "service"
  BY <1>1 DEF IInv, Types
<1>3. /\ op' = [op EXCEPT !.pc = "commit", !.base = Current(store), !.tag = store.tag, !.alter = TRUE]
      /\ UNCHANGED <<scenario, store, mgr, world, acked, left, panicked>>
  BY <1>2 DEF BeginSchemaCommit
<1>4. /\ op'.pc = "commit" /\ op'.base = Current(store) /\ op'.payload = op.payload /\ op'.alter = TRUE /\ OpShape
  BY <1>3, Zenon DEF IInv, Shapes, OpShape
<1>5. Shapes'
  BY <1>1, <1>3, <1>4 DEF IInv, Shapes, OpShape
<1>6. Types'
  <2>1. mgr.up /\ NewOK(op.payload) /\ op.payload.lsn = world.lsn /\ (scenario.catalog = "file" => op.payload.schema = 0)
    BY <1>1 DEF IInv, Types
  <2>2. op'.pc \in CommitSteps
    BY <1>4 DEF CommitSteps
  <2> QED BY <1>2, <1>3, <1>4, <2>1, <2>2 DEF IInv, Types
<1>7. (StoreOK /\ CreationOK)'
  BY <1>1, <1>3, <1>4 DEF Parts, StoreOK, CreationOK, Creating
<1>8. (ManagerOK /\ CommitOK /\ AckedOK)'
  BY <1>1, <1>3, <1>4 DEF Parts, ManagerOK, Settled, Creating, CommitOK, Ahead, AckedOK
<1>9. WritesOK'
  BY <1>1, <1>2, <1>3, <1>4 DEF Parts, WritesOK
<1>10. CompactionOK'
  BY <1>1, <1>3, <1>4 DEF Parts, CompactionOK
<1>30. Unseen
  BY <1>1, <1>3, <1>4, SameStore DEF Unseen, SamePending, SamePlan
<1>31. IInv'
  BY <1>1, <1>3, <1>5, <1>6, <1>7, <1>8, <1>9, <1>10, SMTT(30) DEF IInv
<1> QED BY <1>30, <1>31

LEMMA WriteMetadataFileStep ==
  ASSUME IInv, WriteMetadataFile
  PROVE  IInv' /\ Unseen
<1>1. op.pc = "metadata" /\ ~panicked /\ ~world.dropped /\ Parts /\ mgr.up
  BY InProgress DEF WriteMetadataFile
<1>2. scenario.catalog = "file" /\ op.alter = FALSE
  BY <1>1 DEF IInv, Types
<1>3. PICK v, m : v = NextVersion(op.base) /\ m = WithSnapshot(op.base, op.snap, op.payload.lsn)
  OBVIOUS
<1>4. /\ store' = [store EXCEPT !.meta = Put(@, v, m)] /\ Go("rewrite")
      /\ UNCHANGED <<scenario, mgr, world, acked, left, panicked>>
  BY <1>2, <1>3 DEF WriteMetadataFile, WriteMetadata, NewMetadata
<1>5. op'.pc = "rewrite" /\ OpStays /\ OpShape
  BY <1>4, GoFields DEF IInv
<1>6. /\ store'.hint = store.hint /\ store'.lists = store.lists /\ store'.meta = Put(store.meta, v, m)
      /\ store' = [ns |-> store'.ns, hint |-> store'.hint, tag |-> store'.tag, meta |-> store'.meta, lists |-> store'.lists]
  BY <1>4, SMTT(30) DEF IInv, Shapes
<1>7. CanLoadMetadata(store) /\ op.base = Current(store) /\ Current(store).seq = store.hint /\ Current(store).seq \in Nat
  BY <1>1, <1>2, Zenon DEF Parts, CreationOK, WritesOK, StoreOK, CommitSteps, Creating
<1>8. v # store.hint /\ store.hint \in DOMAIN store.meta
  BY <1>3, <1>7 DEF NextVersion, CanLoadMetadata
<1>9. /\ store'.hint \in DOMAIN store'.meta /\ store'.meta[store.hint] = store.meta[store.hint]
      /\ v \in DOMAIN store'.meta /\ store'.meta[v] = m
  BY <1>6, <1>8 DEF Put
<1>10. SameView(store, store')
  BY <1>6, <1>8, <1>9, ViewKept
<1>11. Shapes'
  BY <1>1, <1>4, <1>5, <1>6 DEF IInv, Shapes, OpShape, OpStays
<1>12. Types'
  <2>1. mgr.up /\ NewOK(op.payload) /\ op.payload.lsn = world.lsn /\ (scenario.catalog = "file" => op.payload.schema = 0)
    BY <1>1 DEF IInv, Types
  <2>2. op'.pc \in CommitSteps
    BY <1>5 DEF CommitSteps
  <2> QED BY <1>2, <1>4, <1>5, <1>6, <2>1, <2>2, SMTT(30) DEF IInv, Types, OpStays
<1>13. StoreOK'
  BY <1>1, <1>4, <1>5, <1>6, <1>10 DEF Parts, StoreOK, SameView, SameList
<1>14. CreationOK'
  BY <1>1, <1>4, <1>5, <1>6, <1>7, <1>10 DEF Parts, CreationOK, SameView, Creating, TableExists, CanLoadMetadata
<1>15. ManagerOK' /\ AckedOK'
  BY <1>1, <1>2, <1>4, <1>5, <1>10 DEF Parts, ManagerOK, Settled, AckedOK, SameView, Creating, HasSnapshot, OpStays
<1>16. CommitOK'
  BY <1>1, <1>2, <1>4, <1>5, <1>10 DEF Parts, CommitOK, Ahead, CommitSteps, SameView, SameList, OpStays
<1>17. WritesOK'
  <2>1. CurrentList(store') = CurrentList(store) /\ Current(store') = Current(store)
    BY <1>7, <1>10 DEF SameView, SameList
  <2> QED BY <1>1, <1>2, <1>3, <1>4, <1>5, <1>6, <1>9, <2>1, SMTT(30) DEF Parts, WritesOK, OpStays, CommitSteps
<1>18. CompactionOK'
  BY <1>1, <1>4, <1>5 DEF Parts, CompactionOK, OpStays
<1>30. Unseen
  BY <1>1, <1>4, <1>5, <1>10, TableOfView DEF Unseen, SamePending, SamePlan, OpStays
<1>31. IInv'
  BY <1>1, <1>4, <1>11, <1>12, <1>13, <1>14, <1>15, <1>16, <1>17, <1>18, SMTT(30) DEF IInv
<1> QED BY <1>30, <1>31

(* What a snapshot's list holds before it is rewritten *)
LEMMA AppendedEntries ==
  ASSUME IInv, op.pc = "rewrite", ~world.dropped, NEW list, list = store.lists[op.snap]
  PROVE  /\ Manifests(list) /\ IsFiniteSet(DataFiles(list))
         /\ \A e \in DataFiles(list) : e.id \in Nat
         /\ DataFiles(list) = CurData(store) \cup {DataEntry(f, op.snap) : f \in op.payload.new}
         /\ Entries(list, "vector") = CurVectors(store) /\ Entries(list, "index") = CurEntries(store)
<1> DEFINE p == op.payload
<1>1. Parts /\ op.alter = FALSE /\ NewOK(p) /\ world.file \in Nat
  BY DEF IInv, Types, Parts
<1>2. PICK E : E = {DataEntry(f, op.snap) : f \in p.new}
  BY Zenon
<1>3. PICK cur, add : cur = CurrentList(store) /\ add = Emitted("data", E)
  OBVIOUS
<1>4. list = cur \cup add /\ op.snap \in Nat
  BY <1>1, <1>2, <1>3, Zenon DEF Parts, WritesOK, CommitSteps
<1>5. /\ Entries(add, "data") = E /\ Entries(add, "vector") = {} /\ Entries(add, "index") = {}
  BY <1>3, EntriesOfEmitted, SMTT(30)
<1>6. /\ DataFiles(list) = CurData(store) \cup E
      /\ Entries(list, "vector") = CurVectors(store) /\ Entries(list, "index") = CurEntries(store)
  <2>0. \A kind : Entries(list, kind) = Entries(cur, kind) \cup Entries(add, kind)
    BY <1>4, EntriesOfUnion
  <2>1. /\ Entries(list, "data") = Entries(cur, "data") \cup E
        /\ Entries(list, "vector") = Entries(cur, "vector") /\ Entries(list, "index") = Entries(cur, "index")
    BY <1>5, <2>0
  <2> QED BY <1>3, <2>1 DEF DataFiles, CurData, CurVectors, CurEntries
<1>7. Manifests(list)
  <2>1. Manifests(cur)
    BY <1>1, <1>3, Zenon DEF Parts, StoreOK
  <2>2. Manifests(add)
    BY <1>3 DEF Manifests, Emitted, Manifest
  <2> QED BY <1>4, <2>1, <2>2, SMTT(30) DEF Manifests
<1>8. PICK D, V : D = NewData(CurData(store), p.new, op.snap, p.oldFiles) /\ V = NewVectors(CurVectors(store), mgr.proxy)
  BY SMTT(30)
<1>9. EntriesOK(D, V) /\ FilesFrom(D, V) = mgr.files /\ SoundFiles(mgr.files, world.file)
  BY <1>1, <1>4, <1>8, ZenonT(60) DEF Parts, CommitOK, Ahead, CommitSteps, Shows
<1>10. E \subseteq D
  BY <1>1, <1>2, <1>8, SMTT(30) DEF NewOK, NewData, DataEntry
<1>11. EntriesOK(CurData(store), CurVectors(store)) /\ SoundFiles(CurFiles(store), world.file)
  BY <1>1, ZenonT(60) DEF Parts, StoreOK
<1>12. IsFiniteSet(DataFiles(list))
  <2>1. IsFiniteSet(E) /\ IsFiniteSet(CurData(store))
    BY <1>9, <1>10, <1>11, FS_Subset, Zenon DEF EntriesOK
  <2> QED BY <1>6, <2>1, FS_Union, Zenon
<1>13. \A e \in DataFiles(list) : e.id \in Nat
  <2>1. IsFilesFrom(mgr.files, D, V)
    BY <1>9, FilesFromAt, SMTT(30)
  <2>2. IsFilesFrom(CurFiles(store), CurData(store), CurVectors(store))
    BY <1>11, FilesFromAt, SMTT(30) DEF CurFiles
  <2>3. \A e \in D : e.id \in 0 .. world.file - 1
    BY <1>9, <2>1, SMTT(30) DEF IsFilesFrom, SoundFiles
  <2>4. \A e \in CurData(store) : e.id \in 0 .. world.file - 1
    BY <1>11, <2>2 DEF IsFilesFrom, SoundFiles
  <2> QED BY <1>1, <1>6, <1>10, <2>3, <2>4, SMTT(30)
<1> QED BY <1>2, <1>6, <1>7, <1>12, <1>13, SMTT(30)

LEMMA RewriteManifestListStep ==
  ASSUME IInv, ManifestTakesAll, RewriteManifestList
  PROVE  IInv' /\ Unseen
<1> DEFINE p == op.payload
           u == mgr.proxy
           next == IF scenario.catalog = "file" THEN "hint" ELSE "commit"
<1>1. op.pc = "rewrite" /\ ~panicked /\ ~world.dropped /\ Parts /\ mgr.up
  BY InProgress DEF RewriteManifestList
<1>2. op.alter = FALSE /\ scenario.catalog \in {"file", "service"}
  BY <1>1, ScenariosAssumption DEF IInv, Types
<1>3. PICK list : list = store.lists[op.snap]
  BY SMTT(30)
<1>4. /\ Manifests(list) /\ IsFiniteSet(DataFiles(list))
      /\ \A e \in DataFiles(list) : e.id \in Nat
      /\ DataFiles(list) = CurData(store) \cup {DataEntry(f, op.snap) : f \in p.new}
      /\ Entries(list, "vector") = CurVectors(store) /\ Entries(list, "index") = CurEntries(store)
  BY <1>1, <1>3, AppendedEntries
<1>5. PICK new : new = AppendPuffinAndRewrite(list, u, op.snap)
  BY SMTT(30)
<1>6. store' = RewriteList(store, op.snap, u) /\ panicked' = panicked /\ Go(next)
      /\ UNCHANGED <<scenario, mgr, world, acked, left>>
  BY <1>2, <1>3, <1>4 DEF RewriteManifestList, RewriteAsserts, Manifests
<1>7. op'.pc = next /\ OpStays /\ OpShape
  BY <1>6, GoFields, SMTT(30) DEF IInv
<1>8. op.snap \in DOMAIN store.lists /\ op.snap # Current(store).snap /\ op.base = Current(store)
  BY <1>1, <1>2, Zenon DEF Parts, WritesOK, CommitSteps
<1>9. /\ store'.hint = store.hint /\ store'.meta = store.meta
      /\ DOMAIN store'.lists = DOMAIN store.lists /\ store'.lists[op.snap] = new
      /\ \A i \in DOMAIN store.lists : i # op.snap => store'.lists[i] = store.lists[i]
      /\ store' = [ns |-> store'.ns, hint |-> store'.hint, tag |-> store'.tag, meta |-> store'.meta, lists |-> store'.lists]
  <2>1. CASE u = NoUpdates
    BY <1>3, <1>5, <1>6, <2>1 DEF IInv, Shapes, RewriteList, AppendPuffinAndRewrite
  <2>2. CASE u # NoUpdates
    <3>1. store' = [store EXCEPT !.lists[op.snap] = new]
      BY <1>3, <1>5, <1>6, <2>2, SMTT(30) DEF RewriteList
    <3> QED BY <1>8, <3>1 DEF IInv, Shapes
  <2> QED BY <2>1, <2>2
<1>10. u.oldFiles = p.oldFiles
  BY <1>1, <1>2, Zenon DEF Parts, CommitOK, Ahead, CommitSteps
<1>11. u.oldFiles # {} => Cardinality({e \in DataFiles(list) : e.id \notin u.oldFiles}) < MaxManifestEntries
  BY <1>1, <1>2, <1>3, SMTT(30) DEF ManifestTakesAll
<1>12. /\ Manifests(new)
       /\ DataFiles(new) = {e \in DataFiles(list) : e.id \notin u.oldFiles}
       /\ Entries(new, "vector") = NewVectors(CurVectors(store), u)
       /\ Entries(new, "index") = NewEntries(CurEntries(store), u, op.snap)
  BY <1>4, <1>5, <1>11, RewriteEntries, ZenonT(60)
<1>13. DataFiles(new) = NewData(CurData(store), p.new, op.snap, p.oldFiles)
  BY <1>4, <1>10, <1>12, SMTT(30) DEF NewData
<1>14. CanLoadMetadata(store) /\ (Current(store).snap # NoSnapshot => Current(store).snap \in DOMAIN store.lists)
  BY <1>1, Zenon DEF Parts, CreationOK, StoreOK, Creating, NoSnapshot
<1>15. SameView(store, store')
  BY <1>8, <1>9, <1>14, ViewKept, SMTT(30)
<1> HIDE DEF u
<1>16. Shapes'
  BY <1>1, <1>6, <1>7, <1>9, ZenonT(60) DEF IInv, Shapes, OpShape, OpStays
<1>17. Types'
  <2>1. mgr.up /\ NewOK(p) /\ p.lsn = world.lsn /\ (scenario.catalog = "file" => p.schema = 0)
    BY <1>1 DEF IInv, Types
  <2>2. /\ op'.pc \in CommitSteps /\ op'.pc # "none"
        /\ op'.pc \in {"first_hint", "first_metadata", "metadata", "hint"} => scenario.catalog = "file"
        /\ op'.pc \in {"service", "creation_schema", "commit", "alter"} => scenario.catalog = "service"
    BY <1>2, <1>7, SMTT(30) DEF CommitSteps
  <2> QED BY <1>2, <1>6, <1>7, <1>9, <2>1, <2>2, SMTT(30) DEF IInv, Types, OpStays
<1>18. StoreOK'
  BY <1>1, <1>6, <1>7, <1>9, <1>15, SMTT(30) DEF Parts, StoreOK, SameView, SameList
<1>19. CreationOK'
  BY <1>1, <1>6, <1>7, <1>9, <1>14, <1>15, SMTT(30) DEF Parts, CreationOK, SameView, Creating, TableExists
<1>20. ManagerOK' /\ AckedOK'
  BY <1>1, <1>2, <1>6, <1>7, <1>15, ZenonT(60) DEF Parts, ManagerOK, Settled, AckedOK, SameView, Creating, HasSnapshot, OpStays
<1>21. CommitOK'
  BY <1>1, <1>2, <1>6, <1>7, <1>15, ZenonT(60) DEF Parts, CommitOK, Ahead, CommitSteps, SameView, SameList, OpStays
<1>22. WritesOK'
  <2>1. Current(store') = Current(store) /\ SameList(store, store')
    BY <1>14, <1>15, SMTT(30) DEF SameView
  <2> QED BY <1>1, <1>2, <1>6, <1>7, <1>8, <1>9, <1>12, <1>13, <2>1, ZenonT(60) DEF Parts, WritesOK, OpStays, CommitSteps, SameList, u
<1>23. CompactionOK'
  BY <1>1, <1>6, <1>7, ZenonT(60) DEF Parts, CompactionOK, OpStays
<1>30. Unseen
  BY <1>1, <1>6, <1>7, <1>15, TableOfView, SMTT(30) DEF Unseen, SamePending, SamePlan, OpStays
<1>31. IInv'
  BY <1>1, <1>6, <1>16, <1>17, <1>18, <1>19, <1>20, <1>21, <1>22, <1>23, SMTT(30) DEF IInv
<1> QED BY <1>30, <1>31
=============================================================================
