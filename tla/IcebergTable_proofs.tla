------------------------- MODULE IcebergTable_proofs -------------------------
(***************************************************************************)
(* A restart finds the table, the manager holds what is on storage, and    *)
(* IcebergTable implements AtomicTable: for every number of snapshots,     *)
(* compactions, failed and unanswered commits, crashes and restarts, at a  *)
(* file catalog and at a REST or Glue service, in the executions where no  *)
(* file catalog changes its schema and the rewritten data manifest holds   *)
(* every entry that stays (Regular).                                       *)
(*                                                                         *)
(* The invariant and the actions before a commit can be seen are in        *)
(* IcebergSteps_proofs.  Here are the end of a commit, its failures and    *)
(* the restarts; NextIInv puts the actions together.                       *)
(***************************************************************************)
EXTENDS IcebergSteps_proofs

-----------------------------------------------------------------------------
(* The write that makes a snapshot visible: what a reader finds then *)
Landed(t) ==
  /\ HasSnapshot(t)
  /\ Current(t) \in [seq : Nat, snap : Nat, lsn : Nat, schema : Nat]
  /\ Current(t).lsn = op.payload.lsn /\ Current(t).schema = Current(store).schema
  /\ Current(t).seq = Current(store).seq + 1 /\ Current(t).snap = op.snap
  /\ Manifests(CurrentList(t))
  /\ CurData(t) = NewData(CurData(store), op.payload.new, op.snap, op.payload.oldFiles)
  /\ CurVectors(t) = NewVectors(CurVectors(store), mgr.proxy)
  /\ CurIndices(t) = mgr.indices /\ CurFiles(t) = mgr.files
  /\ EntriesOK(CurData(t), CurVectors(t))
  /\ ~world.lost => OneEntryEach(CurData(t), CurEntries(t))

LEMMA Landing ==
  ASSUME IInv, ~world.dropped, op.pc \in {"hint", "commit"}, op.alter = FALSE, NEW t, t.lists = store.lists,
         CanLoadMetadata(t), Current(t) = WithSnapshot(Current(store), op.snap, op.payload.lsn)
  PROVE  Landed(t)
<1> DEFINE p == op.payload
<1>1. Parts /\ NewOK(p) /\ CanLoadMetadata(store)
  BY ZenonT(60) DEF IInv, Types, Parts, CreationOK, Creating
<1>2. /\ op.snap \in Nat \ {0} /\ Current(store) \in [seq : Nat, snap : Nat, lsn : Nat, schema : Nat]
  BY <1>1, ZenonT(60) DEF Parts, WritesOK, StoreOK, CommitSteps
<1>3. /\ Current(t) \in [seq : Nat, snap : Nat, lsn : Nat, schema : Nat]
      /\ Current(t).lsn = p.lsn /\ Current(t).schema = Current(store).schema
      /\ Current(t).seq = Current(store).seq + 1 /\ Current(t).snap = op.snap
  <2>1. p.lsn \in Nat
    BY <1>1 DEF NewOK
  <2>2. PICK m, n : m = Current(store) /\ n = Current(t)
    OBVIOUS
  <2>3. m \in [seq : Nat, snap : Nat, lsn : Nat, schema : Nat] /\ n = [m EXCEPT !.seq = @ + 1, !.snap = op.snap, !.lsn = p.lsn]
    BY <1>2, <2>2 DEF WithSnapshot
  <2>4. n = [seq |-> m.seq + 1, snap |-> op.snap, lsn |-> p.lsn, schema |-> m.schema]
    BY <2>3, Zenon
  <2>5. m.seq + 1 \in Nat /\ m.schema \in Nat /\ op.snap \in Nat
    BY <1>2, <2>3
  <2>6. n \in [seq : Nat, snap : Nat, lsn : Nat, schema : Nat]
    BY <2>1, <2>4, <2>5
  <2>7. n.lsn = p.lsn /\ n.schema = m.schema /\ n.seq = m.seq + 1 /\ n.snap = op.snap
    BY <2>4
  <2> QED BY <2>2, <2>6, <2>7, ZenonT(60)
<1>4. HasSnapshot(t) /\ CurrentList(t) = store.lists[op.snap]
  BY <1>2, <1>3 DEF HasSnapshot, CurrentList, NoSnapshot
<1>5. PICK D, V : D = NewData(CurData(store), p.new, op.snap, p.oldFiles) /\ V = NewVectors(CurVectors(store), mgr.proxy)
  BY SMTT(30)
<1>6. /\ Manifests(CurrentList(t)) /\ CurData(t) = D /\ CurVectors(t) = V
      /\ CurEntries(t) = NewEntries(CurEntries(store), mgr.proxy, op.snap)
  BY <1>1, <1>4, <1>5, ZenonT(60) DEF Parts, WritesOK, CurData, CurVectors, CurEntries
<1>7. Shows(D, V, mgr.files) /\ mgr.indices = NewIndices(CurIndices(store), mgr.proxy)
  BY <1>1, <1>2, <1>5, Zenon DEF Parts, CommitOK, Ahead, CommitSteps
<1>8. CurFiles(t) = mgr.files /\ EntriesOK(CurData(t), CurVectors(t))
  BY <1>6, <1>7, SMTT(30) DEF Shows, CurFiles
<1>10. PICK E, u : E = CurEntries(store) /\ u = mgr.proxy
  OBVIOUS
<1>11. u.indices = p.indices /\ SoundIndices(mgr.files, mgr.indices, world.file)
  BY <1>1, <1>10, Zenon DEF Parts, CommitOK, Ahead, CommitSteps
<1>12. CurIndices(t) = mgr.indices
  <2>1. \A x \in u.indices : x = Index(x.puffin, x.files)
    BY <1>1, <1>11, Zenon DEF NewOK
  <2>2. IndexView(NewEntries(E, u, op.snap)) = NewIndices(IndexView(E), u)
    BY <2>1, ViewOfEntries, Zenon
  <2> QED BY <1>6, <1>7, <1>10, <2>2, Zenon DEF CurIndices
<1>13. ASSUME ~world.lost PROVE \A x, y \in CurEntries(t) : x.puffin = y.puffin => x = y
  <2>1. /\ \A x, y \in E : x.puffin = y.puffin => x = y
        /\ \A x \in u.indices, y \in IndexView(E) : x.puffin # y.puffin
    BY <1>1, <1>10, <1>11, <1>13, ZenonT(60) DEF Parts, StoreOK, CommitOK, Ahead, CommitSteps, OneEntryEach, NewNames, CurIndices
  <2>2. \A x, y \in u.indices : x.puffin = y.puffin => x = y
    BY <1>7, <1>10, <1>11, Zenon DEF SoundIndices, NewIndices
  <2>3. \A x, y \in NewEntries(E, u, op.snap) : x.puffin = y.puffin => x = y
    BY <2>1, <2>2, EntriesStayOne, Zenon
  <2> QED BY <1>6, <1>10, <2>3, Zenon
<1>9. ASSUME ~world.lost PROVE \A e, f \in D : e.id = f.id => e = f
  <2>1. /\ \A e, f \in CurData(store) : e.id = f.id => e = f
        /\ \A f \in p.new, e \in CurData(store) : e.id # f.id
    BY <1>1, <1>9, ZenonT(60) DEF Parts, StoreOK, CommitOK, Ahead, CommitSteps, OneEntryEach, NewNames
  <2>2. \A f, g \in p.new : f.id = g.id => f = g
    BY <1>1, ZenonT(60) DEF NewOK
  <2>3. \A e \in D : e \in CurData(store) \/ \E f \in p.new : e = DataEntry(f, op.snap) /\ e.id = f.id
    BY <1>5 DEF NewData, DataEntry
  <2> QED BY <2>1, <2>2, <2>3, SMTT(30)
<1>14. ~world.lost => OneEntryEach(CurData(t), CurEntries(t))
  BY <1>6, <1>9, <1>13, Zenon DEF OneEntryEach
<1> QED BY <1>3, <1>4, <1>5, <1>6, <1>8, <1>12, <1>14, ZenonT(60) DEF Landed

(* How it may go on: with the schema, done, or once more if nobody was told *)
AfterLanding ==
  /\ scenario' = scenario /\ panicked' = panicked /\ store'.lists = store.lists /\ store'.hint \in Nat
  /\ scenario.catalog = "file" => store'.hint = Current(store).seq + 1
  /\ world'.file = world.file /\ world'.lsn = world.lsn /\ world'.schema = world.schema
  /\ world'.dropped = world.dropped /\ world'.cut = world.cut /\ world'.compaction = world.compaction
  /\ world'.lost = FALSE => world.lost = FALSE
  /\ op'.pc \in {"none", "alter", "append"} /\ op'.alter = FALSE
  /\ mgr'.up => mgr'.table = mgr.table /\ mgr'.files = mgr.files /\ mgr'.indices = mgr.indices
  /\ op'.pc # "none" => mgr'.up /\ op'.payload = op.payload

LEMMA CurrentFacts ==
  ASSUME StoreOK, CanLoadMetadata(store)
  PROVE  Current(store).seq \in Nat /\ Current(store).lsn \in Nat /\ Current(store).schema \in Nat
BY DEF StoreOK

LEMMA AckedFacts ==
  ASSUME StoreOK, AckedOK, CanLoadMetadata(store)
  PROVE  /\ acked.lsn \in Nat /\ acked.schema \in Nat
         /\ acked.lsn <= Current(store).lsn /\ acked.schema <= Current(store).schema
BY CurrentFacts DEF AckedOK

LEMMA LandedStore ==
  ASSUME IInv, ~world.dropped, op.pc \in {"hint", "commit"}, op.alter = FALSE, Landed(store'), AfterLanding
  PROVE  (StoreOK /\ CreationOK /\ CompactionOK)'
<1>1. Parts /\ NewOK(op.payload) /\ CanLoadMetadata(store) /\ ~world.cut /\ mgr.up /\ op.payload.lsn = world.lsn /\ mgr.table
  BY ZenonT(60) DEF IInv, Types, Parts, CreationOK, Creating
<1>2. CanLoadMetadata(store') /\ TableExists(store') /\ store'.hint # None /\ store'.hint \in DOMAIN store'.meta
  BY NoneAssumption, SMTT(30) DEF Landed, HasSnapshot, CanLoadMetadata, TableExists
<1>3. Current(store).schema # 0
  BY <1>1, ZenonT(60) DEF Parts, StoreOK
<1>4. SoundFiles(mgr.files, world.file) /\ SoundIndices(mgr.files, mgr.indices, world.file)
  BY <1>1, ZenonT(60) DEF Parts, CommitOK, Ahead, CommitSteps
<1>5. world.lsn \in Nat /\ world.lost \in BOOLEAN /\ op.snap \in DOMAIN store.lists /\ op.snap # 0
  BY <1>1, ZenonT(60) DEF IInv, Types, Parts, WritesOK, CommitSteps
<1>6. StoreOK'
  <2>1. Current(store').snap # 0 /\ Current(store').snap \in DOMAIN store'.lists /\ Current(store').schema # 0
    BY <1>3, <1>5, Zenon DEF Landed, AfterLanding
  <2>2. scenario'.catalog = "file" => Current(store').seq = store'.hint
    BY Zenon DEF Landed, AfterLanding
  <2>3. Current(store').lsn = world'.lsn /\ world'.lsn \in Nat
    BY <1>1, <1>5, Zenon DEF Landed, AfterLanding
  <2>4. Current(store').lsn <= world'.lsn
    BY <2>3
  <2>5. /\ Manifests(CurrentList(store')) /\ EntriesOK(CurData(store'), CurVectors(store'))
        /\ SoundFiles(CurFiles(store'), world'.file) /\ SoundIndices(CurFiles(store'), CurIndices(store'), world'.file)
    BY <1>4, Zenon DEF Landed, AfterLanding
  <2>6. ~world'.lost => OneEntryEach(CurData(store'), CurEntries(store'))
    <3>1. ~world'.lost => ~world.lost
      BY <1>5 DEF AfterLanding
    <3>2. ~world.lost => OneEntryEach(CurData(store'), CurEntries(store'))
      BY Zenon DEF Landed
    <3> QED BY <3>1, <3>2, Zenon
  <2>7. Current(store') \in [seq : Nat, snap : Nat, lsn : Nat, schema : Nat]
    BY DEF Landed
  <2> QED BY <2>1, <2>2, <2>4, <2>5, <2>6, <2>7, Zenon DEF StoreOK
<1>7. CreationOK'
  BY <1>1, <1>2, Zenon DEF Parts, CreationOK, Landed, AfterLanding, Creating
<1>8. CompactionOK'
  BY <1>1, ZenonT(60) DEF Parts, CompactionOK, AfterLanding
<1> QED BY <1>6, <1>7, <1>8, SMTT(30)

Commits ==
  /\ ~world.dropped /\ ~world'.dropped /\ op.pc \in {"hint", "commit"} /\ op.alter = FALSE /\ Landed(store')
  /\ op'.pc = "none" \/ SamePending

StoreShape == store' = [ns |-> store'.ns, hint |-> store'.hint, tag |-> store'.tag, meta |-> store'.meta, lists |-> store'.lists]

LEMMA CommittedManager ==
  ASSUME Shapes, Committed
  PROVE  /\ mgr'.up = mgr.up /\ mgr'.table = mgr.table /\ mgr'.files = mgr.files /\ mgr'.indices = mgr.indices
         /\ mgr'.proxy = NoUpdates /\ MgrShape
BY DEF Shapes, Committed, MgrShape

LEMMA NoOpFields == NoOp.pc = "none" /\ NoOp.alter = FALSE
BY DEF NoOp

LEMMA ReportedStep ==
  ASSUME IInv, ~world.dropped, ~panicked, op.pc \in {"hint", "commit"}, op.alter = FALSE, Committed,
         Landed(store'), StoreShape, store'.lists = store.lists, store'.hint \in Nat,
         scenario.catalog = "file" => store'.hint = Current(store).seq + 1,
         UNCHANGED <<scenario, world, left, panicked>>
  PROVE  IInv' /\ Commits
<1> DEFINE p == op.payload
<1>1. Parts /\ mgr.up /\ NewOK(p) /\ p.lsn = world.lsn /\ CanLoadMetadata(store)
  BY Zenon DEF IInv, Types, Parts, CreationOK, Creating
<1>2. /\ mgr'.up = mgr.up /\ mgr'.table = mgr.table /\ mgr'.files = mgr.files /\ mgr'.indices = mgr.indices
      /\ mgr'.proxy = NoUpdates /\ MgrShape
  BY CommittedManager DEF IInv
<1>3. CASE p.schema # 0
  <2>1. Go("alter") /\ acked' = acked
    BY <1>3 DEF Committed
  <2>2. op'.pc = "alter" /\ OpStays /\ OpShape
    BY <2>1, GoFields, Zenon DEF IInv
  <2>3. scenario.catalog = "service"
    BY <1>3, ScenariosAssumption, SMTT(30) DEF IInv, Types
  <2>4. AfterLanding
    BY <1>1, <1>2, <2>2 DEF AfterLanding, OpStays
  <2>5. (StoreOK /\ CreationOK /\ CompactionOK)'
    BY <2>4, LandedStore, ZenonT(60)
  <2>6. Shapes'
    BY <1>2, <2>2, Zenon DEF IInv, Shapes, NoUpdates, MgrShape, StoreShape, OpShape, OpStays
  <2>7. Types'
    BY <1>1, <1>2, <2>2, <2>3, SMTT(30) DEF IInv, Types, OpStays
  <2>8. ManagerOK'
    BY <1>2, <2>2, ZenonT(60) DEF ManagerOK, Settled, Landed, Creating
  <2>9. (CommitOK /\ WritesOK)'
    BY <1>1, <1>3, <2>2, ZenonT(60) DEF CommitOK, Ahead, WritesOK, CommitSteps, Landed, OpStays
  <2>10. AckedOK'
    <3>1. /\ HasSnapshot(store') /\ Current(store').schema = Current(store).schema
          /\ Current(store').lsn = world.lsn /\ Current(store).lsn <= world.lsn /\ world.lsn \in Nat
      BY <1>1, Zenon DEF Landed, Parts, StoreOK, IInv, Types
    <3>2. StoreOK /\ AckedOK /\ CanLoadMetadata(store)
      BY <1>1, Zenon DEF Parts
    <3>3. acked.lsn \in Nat /\ acked.schema \in Nat /\ acked.lsn <= world.lsn /\ acked.schema <= Current(store).schema
      BY <3>1, <3>2, AckedFacts, CurrentFacts
    <3> QED BY <2>1, <3>1, <3>3, Zenon DEF AckedOK
  <2>11. Commits
    BY <2>2, Zenon DEF Commits, SamePending, SamePlan, OpStays
  <2>12. IInv'
    BY <2>5, <2>6, <2>7, <2>8, <2>9, <2>10, Zenon DEF IInv
  <2> QED BY <2>11, <2>12
<1>4. CASE p.schema = 0
  <2>1. op' = NoOp /\ acked' = [lsn |-> p.lsn, schema |-> acked.schema]
    BY <1>4 DEF Committed
  <2>2. op'.pc = "none" /\ op'.alter = FALSE
    BY <2>1, NoOpFields, SMTT(30)
  <2>4. AfterLanding
    BY <1>2, <2>2, SMTT(30) DEF AfterLanding
  <2>5. (StoreOK /\ CreationOK /\ CompactionOK)'
    BY <2>4, LandedStore, Zenon
  <2>6. Shapes'
    BY <1>2, <2>1, ZenonT(60) DEF IInv, Shapes, NoUpdates, MgrShape, StoreShape, NoOp
  <2>7. Types'
    BY <1>1, <1>2, <2>2, ZenonT(60) DEF IInv, Types
  <2>8. ManagerOK'
    BY <1>2, <2>2, Zenon DEF ManagerOK, Settled, Landed, Creating
  <2>9. (CommitOK /\ WritesOK)'
    BY <2>2, ZenonT(60) DEF CommitOK, Ahead, WritesOK, CommitSteps
  <2>10. AckedOK'
    <3>1. acked'.lsn = p.lsn /\ acked'.schema = acked.schema
      BY <2>1
    <3>2. acked.schema \in Nat /\ acked.schema <= Current(store).schema
      BY <1>1, AckedFacts, Zenon DEF Parts
    <3>3. HasSnapshot(store') /\ Current(store').lsn = p.lsn /\ Current(store').schema = Current(store).schema
      BY Zenon DEF Landed
    <3>4. p.lsn \in Nat
      BY <1>1, Zenon DEF NewOK
    <3>5. acked'.lsn \in Nat /\ acked'.lsn <= Current(store').lsn
      BY <3>1, <3>3, <3>4
    <3> QED BY <3>1, <3>2, <3>3, <3>5, Zenon DEF AckedOK
  <2>11. Commits
    BY <2>2 DEF Commits
  <2>12. IInv'
    BY <2>2, <2>5, <2>6, <2>7, <2>8, <2>9, <2>10 DEF IInv
  <2> QED BY <2>11, <2>12
<1> QED BY <1>3, <1>4, Zenon

LEMMA HintFields ==
  ASSUME IInv, ~world.dropped, op.pc = "hint", store' = WriteHint(store, NextVersion(op.base))
  PROVE  /\ StoreShape /\ store'.lists = store.lists /\ store'.hint \in Nat /\ store'.hint = Current(store).seq + 1
         /\ op.alter = FALSE /\ scenario.catalog = "file" /\ Landed(store')
<1>1. Parts /\ op.alter = FALSE /\ scenario.catalog = "file"
  BY DEF IInv, Types, Parts
<1>2. PICK v : v = NextVersion(op.base)
  OBVIOUS
<1>3. store'.hint = v /\ store'.meta = store.meta /\ store'.lists = store.lists /\ StoreShape
  BY <1>2, ZenonT(60) DEF IInv, Shapes, WriteHint, StoreShape
<1>4. op.base = Current(store) /\ v \in DOMAIN store.meta /\ store.meta[v] = WithSnapshot(op.base, op.snap, op.payload.lsn)
  BY <1>1, <1>2, Zenon DEF Parts, WritesOK, CommitSteps
<1>5. v \in Nat /\ v = Current(store).seq + 1
  <2>1. StoreOK /\ CanLoadMetadata(store)
    BY <1>1, Zenon DEF Parts, CreationOK, Creating
  <2>2. v = Current(store).seq + 1
    BY <1>2, <1>4, Zenon DEF NextVersion
  <2> QED BY <2>1, <2>2, CurrentFacts
<1>6. CanLoadMetadata(store') /\ Current(store') = WithSnapshot(Current(store), op.snap, op.payload.lsn)
  BY <1>3, <1>4, <1>5, NoneAssumption, Zenon DEF CanLoadMetadata, TableExists, Current
<1> QED BY <1>1, <1>3, <1>5, <1>6, Landing, Zenon

LEMMA WriteVersionHintStep ==
  ASSUME IInv, WriteVersionHint
  PROVE  IInv' /\ Commits
<1>1. op.pc = "hint" /\ ~panicked /\ ~world.dropped
  BY InProgress, Zenon DEF WriteVersionHint
<1>2. store' = WriteHint(store, NextVersion(op.base)) /\ Committed /\ UNCHANGED <<scenario, world, left, panicked>>
  BY DEF WriteVersionHint
<1>3. /\ StoreShape /\ store'.lists = store.lists /\ store'.hint \in Nat /\ store'.hint = Current(store).seq + 1
      /\ op.alter = FALSE /\ Landed(store')
  BY <1>1, <1>2, HintFields, Zenon
<1> QED BY <1>1, <1>2, <1>3, ReportedStep, ZenonT(60)

LEMMA ServiceFields ==
  ASSUME IInv, ~world.dropped, op.pc = "commit", NEW m, store' = CommitAtService(store, m)
  PROVE  /\ StoreShape /\ store'.lists = store.lists /\ store'.hint \in Nat
         /\ scenario.catalog = "service" /\ CanLoadMetadata(store') /\ Current(store') = m
<1>1. Parts /\ scenario.catalog = "service" /\ CanLoadMetadata(store) /\ store.hint \in Nat \cup {None}
  BY Zenon DEF IInv, Types, Parts, CreationOK, Creating
<1>2. PICK v : v = store.hint + 1
  OBVIOUS
<1>3. v \in Nat
  BY <1>1, <1>2 DEF CanLoadMetadata, TableExists
<1>4. store'.hint = v /\ store'.meta = Put(store.meta, v, m) /\ store'.lists = store.lists /\ StoreShape
  BY <1>2, ZenonT(60) DEF IInv, Shapes, CommitAtService, WriteHint, WriteMetadata, StoreShape
<1>5. v \in DOMAIN store'.meta /\ store'.meta[v] = m
  BY <1>4 DEF Put
<1> QED BY <1>1, <1>3, <1>4, <1>5, NoneAssumption DEF CanLoadMetadata, TableExists, Current

(* A schema change is visible: the snapshot is as it was *)
LEMMA Altered ==
  ASSUME IInv, ~world.dropped, op.alter, NEW t, t.lists = store.lists, CanLoadMetadata(t),
         Current(t) = WithSchema(Current(store), op.payload.schema)
  PROVE  /\ Current(t) \in [seq : Nat, snap : Nat, lsn : Nat, schema : Nat]
         /\ Current(t).lsn = Current(store).lsn /\ Current(t).snap = Current(store).snap
         /\ Current(t).schema = op.payload.schema
         /\ HasSnapshot(t) /\ SameList(store, t)
<1>1. Parts /\ NewOK(op.payload) /\ op.pc = "commit"
  BY ZenonT(60) DEF IInv, Types, Parts
<1>2. HasSnapshot(store) /\ CanLoadMetadata(store)
  BY <1>1, Zenon DEF Parts, WritesOK, HasSnapshot
<1>3. PICK m, n : m = Current(store) /\ n = Current(t)
  OBVIOUS
<1>4. PICK k : k = op.payload.schema
  OBVIOUS
<1>5. m \in [seq : Nat, snap : Nat, lsn : Nat, schema : Nat] /\ k \in Nat /\ n = [m EXCEPT !.schema = k]
  BY <1>1, <1>2, <1>3, <1>4 DEF Parts, StoreOK, NewOK, WithSchema
<1>6. n \in [seq : Nat, snap : Nat, lsn : Nat, schema : Nat] /\ n.lsn = m.lsn /\ n.snap = m.snap /\ n.schema = k
  BY <1>5
<1>7. HasSnapshot(t)
  BY <1>2, <1>3, <1>6, SMTT(30) DEF HasSnapshot
<1>8. CurrentList(t) = CurrentList(store)
  BY <1>2, <1>3, <1>6, <1>7 DEF CurrentList
<1> QED BY <1>3, <1>4, <1>6, <1>7, <1>8, ListFromView, Zenon

Evolves ==
  /\ ~world.dropped /\ ~world'.dropped /\ op.pc # "none" /\ op'.pc = "none"
  /\ CanLoadMetadata(store) /\ CanLoadMetadata(store') /\ CurFiles(store') = CurFiles(store)
  /\ op.payload.schema # 0 /\ Current(store).lsn = op.payload.lsn
  /\ Current(store').lsn = Current(store).lsn /\ Current(store').schema = op.payload.schema

LEMMA CommitToServiceStep ==
  ASSUME IInv, CommitToService
  PROVE  IInv' /\ (Commits \/ Evolves)
<1> DEFINE p == op.payload
<1>1. op.pc = "commit" /\ ~panicked /\ ~world.dropped /\ Parts /\ mgr.up /\ NewOK(p) /\ p.lsn = world.lsn
  BY InProgress DEF CommitToService
<1>2. store' = CommitAtService(store, NewMetadata) /\ Committed /\ UNCHANGED <<scenario, world, left, panicked>>
  BY DEF CommitToService
<1>3. /\ StoreShape /\ store'.lists = store.lists /\ store'.hint \in Nat
      /\ scenario.catalog = "service" /\ CanLoadMetadata(store') /\ Current(store') = NewMetadata
  BY <1>1, <1>2, ServiceFields
<1>4. op.base = Current(store) /\ op.alter \in BOOLEAN
  BY <1>1, ZenonT(60) DEF IInv, Types, Parts, WritesOK, CommitSteps
<1>5. CASE op.alter = FALSE
  <2>1. Current(store') = WithSnapshot(Current(store), op.snap, p.lsn)
    BY <1>3, <1>4, <1>5 DEF NewMetadata
  <2>2. Landed(store')
    BY <1>1, <1>3, <1>5, <2>1, Landing, ZenonT(60)
  <2> QED BY <1>1, <1>2, <1>3, <1>5, <2>2, ReportedStep, Zenon
<1>6. CASE op.alter = TRUE
  <2>1. Current(store') = WithSchema(Current(store), p.schema)
    BY <1>3, <1>4, <1>6 DEF NewMetadata
  <2>2. /\ Current(store') \in [seq : Nat, snap : Nat, lsn : Nat, schema : Nat]
        /\ Current(store').lsn = Current(store).lsn /\ Current(store').snap = Current(store).snap
        /\ Current(store').schema = p.schema
        /\ HasSnapshot(store') /\ SameList(store, store')
    BY <1>1, <1>3, <1>6, <2>1, Altered
  <2>3. /\ mgr'.up = mgr.up /\ mgr'.table = mgr.table /\ mgr'.files = mgr.files /\ mgr'.indices = mgr.indices
        /\ mgr'.proxy = NoUpdates /\ MgrShape
    BY <1>2, CommittedManager, SMTT(30) DEF IInv
  <2>4. p.schema # 0 /\ HasSnapshot(store) /\ Current(store).lsn = p.lsn
    BY <1>1, <1>6, Zenon DEF Parts, WritesOK
  <2>5. op' = NoOp /\ acked'.lsn = p.lsn /\ acked'.schema = p.schema
    BY <1>2, <1>6, <2>4 DEF Committed
  <2>6. op'.pc = "none" /\ op'.alter = FALSE
    BY <2>5, NoOpFields, SMTT(30)
  <2>7. TableExists(store) /\ CanLoadMetadata(store) /\ mgr.table /\ ~world.cut
    BY <1>1, <2>4, SMTT(30) DEF Parts, CreationOK, HasSnapshot, CanLoadMetadata, Creating
  <2>8. Shapes'
    BY <1>2, <1>3, <2>3, <2>5, ZenonT(60) DEF IInv, Shapes, NoUpdates, MgrShape, StoreShape, NoOp
  <2>9. Types'
    BY <1>1, <1>2, <1>3, <2>3, <2>6, Zenon DEF IInv, Types
  <2>10. StoreOK'
    BY <1>1, <1>2, <1>3, <2>2, <2>3, <2>4, <2>6, <2>7, ZenonT(60) DEF Parts, StoreOK, SameList
  <2>11. CreationOK'
    BY <1>1, <1>2, <1>3, <2>3, <2>6, <2>7, NoneAssumption, ZenonT(60) DEF Parts, CreationOK, Creating, CanLoadMetadata, TableExists
  <2>12. ManagerOK'
    BY <1>1, <1>6, <2>2, <2>3, <2>6, ZenonT(60) DEF Parts, ManagerOK, Settled, SameList, Creating
  <2>13. (CommitOK /\ WritesOK)'
    BY <2>6, ZenonT(60) DEF CommitOK, Ahead, WritesOK, CommitSteps
  <2>14. CompactionOK'
    BY <1>1, <1>2, <2>3, <2>6, SMTT(30) DEF Parts, CompactionOK
  <2>15. AckedOK'
    BY <1>1, <2>2, <2>4, <2>5, SMTT(60) DEF AckedOK, NewOK
  <2>16. Evolves
    BY <1>1, <1>2, <1>3, <2>2, <2>4, <2>6, <2>7, Zenon DEF Evolves, SameList
  <2>17. IInv'
    BY <1>1, <1>2, <2>6, <2>8, <2>9, <2>10, <2>11, <2>12, <2>13, <2>14, <2>15, SMTT(30) DEF IInv
  <2> QED BY <2>16, <2>17
<1> QED BY <1>4, <1>5, <1>6, ZenonT(60)

-----------------------------------------------------------------------------
WorldStays ==
  /\ world'.file = world.file /\ world'.lsn = world.lsn /\ world'.schema = world.schema
  /\ world'.dropped = world.dropped

WorldShape ==
  world' = [file |-> world'.file, lsn |-> world'.lsn, schema |-> world'.schema, compaction |-> world'.compaction,
            dropped |-> world'.dropped, cut |-> world'.cut, lost |-> world'.lost]

NoManagerFields == mgr'.up = FALSE /\ mgr'.table = FALSE /\ mgr'.proxy = NoUpdates /\ MgrShape

LEMMA NoManagerShape ==
  ASSUME mgr' = NoManager
  PROVE  NoManagerFields
BY ZenonT(60) DEF NoManager, NewManager, NoManagerFields, MgrShape

(* An attempt that is given up, with the manager, leaves the table as it is *)
LEMMA GivenUpStep ==
  ASSUME IInv, mgr' = NoManager, op' = NoOp, UNCHANGED <<scenario, store, acked>>, BudgetOK',
         panicked' \in BOOLEAN, panicked' => panicked,
         WorldStays, WorldShape, world'.lost = world.lost, world'.cut = (world.cut \/ CutsCreation)
  PROVE  IInv' /\ Ends
<1>1. op'.pc = "none" /\ op'.alter = FALSE /\ NoManagerFields
  BY NoOpFields, NoManagerShape
<1>2. Shapes'
  BY <1>1, Zenon DEF IInv, Shapes, NoOp, NoUpdates, NoManagerFields, MgrShape, WorldShape
<1>3. Types'
  <2>1. world'.cut \in BOOLEAN
    BY DEF CutsCreation, IInv, Types
  <2> QED BY <1>1, <2>1, Zenon DEF IInv, Types, BudgetOK, WorldStays, NoManagerFields
<1>6. Ends
  BY <1>1 DEF Ends, WorldStays
<1>4. CASE world.dropped
  BY <1>1, <1>2, <1>3, <1>4, <1>6, SMTT(30) DEF IInv, WorldStays
<1>5. CASE ~world.dropped
  <2>1. Parts
    BY <1>5, SMTT(30) DEF IInv, Parts
  <2>2. CutsCreation => /\ ~HasSnapshot(store) /\ store.hint # None
                        /\ CanLoadMetadata(store) => Current(store).schema = 0
    BY <2>1, NoneAssumption, SMTT(30) DEF Parts, CreationOK, CutsCreation, HasSnapshot, CanLoadMetadata, TableExists, Metadata, NoSnapshot
  <2>3. StoreOK'
    <3>1. op.pc = "creation_schema" => world'.cut
      BY ZenonT(60) DEF CutsCreation
    <3> QED BY <1>1, <2>1, <3>1, Zenon DEF Parts, StoreOK, WorldStays, NoManagerFields
  <2>4. CreationOK'
    <3>1. op.pc = "first_metadata" => world'.cut
      BY Zenon DEF CutsCreation
    <3> QED BY <1>1, <2>1, <2>2, <3>1, Zenon DEF Parts, CreationOK, NoManagerFields, Creating
  <2>5. (ManagerOK /\ CommitOK /\ WritesOK /\ CompactionOK /\ AckedOK)'
    BY <1>1, <2>1, Zenon DEF Parts, ManagerOK, CommitOK, Ahead, WritesOK, CompactionOK, AckedOK, NoManagerFields, CommitSteps
  <2> QED BY <1>2, <1>3, <1>5, <2>3, <2>4, <2>5, <1>6, SMTT(30) DEF IInv, WorldStays
<1> QED BY <1>4, <1>5

LEMMA CrashStep ==
  ASSUME IInv, Crash
  PROVE  IInv' /\ Ends
<1>1. /\ mgr' = NoManager /\ op' = NoOp /\ panicked' = FALSE /\ UNCHANGED <<scenario, store, acked>>
      /\ world' = [world EXCEPT !.compaction = None, !.cut = @ \/ CutsCreation]
  BY DEF Crash
<1>2. BudgetOK'
  BY <1>1, SpendKeeps DEF IInv, Crash, Kinds
<1>3. WorldStays /\ WorldShape /\ world'.lost = world.lost /\ world'.cut = (world.cut \/ CutsCreation)
  BY <1>1, ZenonT(60) DEF IInv, Shapes, WorldStays, WorldShape
<1> QED BY <1>1, <1>2, <1>3, GivenUpStep, Zenon

(* A commit that starts over *)
LEMMA StartOverStep ==
  ASSUME IInv, op.pc \in CommitSteps, op.alter = FALSE, ~panicked, Go("append"),
         UNCHANGED <<scenario, store, mgr, acked, panicked>>, BudgetOK',
         WorldStays, WorldShape, world'.lost = world.lost, world'.cut = world.cut, world'.compaction = world.compaction
  PROVE  IInv' /\ Unseen
<1>1. op'.pc = "append" /\ OpStays /\ OpShape
  BY GoFields, ZenonT(60) DEF IInv
<1>2. Parts /\ ~world.dropped /\ mgr.up /\ NewOK(op.payload) /\ op.payload.lsn = world.lsn
  BY SMTT(30) DEF IInv, Types, Parts, CommitSteps
<1>3. Shapes'
  BY <1>1, <1>2, ZenonT(60) DEF IInv, Shapes, OpShape, OpStays, WorldShape, CommitSteps
<1>4. Types'
  BY <1>1, <1>2, SMTT(30) DEF IInv, Types, OpStays, BudgetOK, WorldStays, CommitSteps
<1>5. StoreOK'
  BY <1>1, <1>2, ZenonT(60) DEF Parts, StoreOK, WorldStays, CommitSteps
<1>6. CreationOK'
  BY <1>1, <1>2, ZenonT(60) DEF Parts, CreationOK, CommitSteps, Creating
<1>7. (ManagerOK /\ WritesOK /\ AckedOK)'
  BY <1>1, <1>2, ZenonT(60) DEF Parts, ManagerOK, Settled, WritesOK, AckedOK, CommitSteps, Creating, OpStays
<1>8. CommitOK'
  BY <1>1, <1>2, ZenonT(60) DEF Parts, CommitOK, Ahead, OpStays, WorldStays
<1>9. CompactionOK'
  BY <1>1, <1>2, SMTT(30) DEF Parts, CompactionOK, OpStays, CommitSteps
<1>30. Unseen
  BY <1>1, SameStore, SMTT(30) DEF Unseen, SamePending, SamePlan, OpStays, WorldStays, CommitSteps
<1>31. IInv'
  BY <1>2, <1>3, <1>4, <1>5, <1>6, <1>7, <1>8, <1>9, ZenonT(60) DEF IInv, WorldStays
<1> QED BY <1>30, <1>31

LEMMA FailStepStep ==
  ASSUME IInv, FailStep
  PROVE  IInv' /\ (Unseen \/ Ends)
<1>1. /\ ~panicked /\ op.pc # "none" /\ UNCHANGED <<scenario, store, acked, panicked>>
      /\ world' = [world EXCEPT !.cut = @ \/ CutsCreation]
  BY DEF FailStep
<1>2. BudgetOK'
  BY <1>1, SpendKeeps DEF IInv, FailStep, Kinds
<1>3. /\ WorldStays /\ WorldShape /\ world'.lost = world.lost /\ world'.cut = (world.cut \/ CutsCreation)
      /\ world'.compaction = world.compaction
  BY <1>1 DEF IInv, Shapes, WorldStays, WorldShape
<1>4. CASE op.pc \in CommitSteps /\ ~op.alter /\ Go(Retried) /\ mgr' = mgr
  <2>1. op.alter = FALSE /\ Go("append")
    BY <1>4 DEF IInv, Types, Retried
  <2>2. world'.cut = world.cut
    BY <1>3, <1>4 DEF IInv, Types, CutsCreation, CommitSteps
  <2> QED BY <1>1, <1>2, <1>3, <1>4, <2>1, <2>2, StartOverStep, ZenonT(60)
<1>5. CASE op' = NoOp /\ mgr' = NoManager
  <2>1. panicked' \in BOOLEAN /\ (panicked' => panicked)
    BY <1>1 DEF IInv, Types
  <2> QED BY <1>1, <1>2, <1>3, <1>5, <2>1, GivenUpStep
<1> QED BY <1>4, <1>5 DEF FailStep

LEMMA LoseAnswerStep ==
  ASSUME IInv, LoseAnswer
  PROVE  IInv' /\ Commits
<1> DEFINE p == op.payload
<1>1. op.pc = "hint" /\ ~panicked /\ ~world.dropped /\ Parts /\ mgr.up /\ NewOK(p) /\ p.lsn = world.lsn
  BY InProgress DEF LoseAnswer
<1>2. /\ store' = WriteHint(store, NextVersion(op.base)) /\ UNCHANGED <<scenario, acked, panicked>>
      /\ world' = [world EXCEPT !.lost = TRUE]
  BY DEF LoseAnswer
<1>3. /\ StoreShape /\ store'.lists = store.lists /\ store'.hint \in Nat /\ store'.hint = Current(store).seq + 1
      /\ op.alter = FALSE /\ scenario.catalog = "file" /\ Landed(store')
  BY <1>1, <1>2, HintFields, Zenon
<1>4. BudgetOK'
  BY <1>2, SpendKeeps DEF IInv, LoseAnswer, Kinds
<1>5. /\ WorldStays /\ WorldShape /\ world'.lost = TRUE /\ world'.cut = world.cut
      /\ world'.compaction = world.compaction
  BY <1>2, ZenonT(60) DEF IInv, Shapes, WorldStays, WorldShape
<1>6. AckedOK'
  <2>1. CanLoadMetadata(store)
    BY <1>1 DEF Parts, CreationOK, Creating
  <2> QED BY <1>1, <1>2, <1>3, <2>1 DEF Parts, AckedOK, StoreOK, Landed, NewOK
<1>7. CASE Go(Retried) /\ mgr' = mgr
  <2>1. op'.pc = "append" /\ OpStays /\ OpShape
    BY <1>3, <1>7, GoFields DEF IInv, Retried
  <2>2. AfterLanding
    BY <1>1, <1>2, <1>3, <1>5, <1>7, <2>1, SMTT(30) DEF AfterLanding, WorldStays, OpStays
  <2>3. (StoreOK /\ CreationOK /\ CompactionOK)'
    BY <1>1, <1>3, <2>2, LandedStore, Zenon
  <2>4. Shapes'
    BY <1>1, <1>2, <1>3, <1>5, <1>7, <2>1 DEF IInv, Shapes, OpShape, OpStays, WorldShape, StoreShape
  <2>5. Types'
    BY <1>1, <1>2, <1>3, <1>4, <1>5, <1>7, <2>1, ZenonT(60) DEF IInv, Types, OpStays, BudgetOK, WorldStays
  <2>6. (ManagerOK /\ WritesOK)'
    BY <1>3, <2>1, Zenon DEF ManagerOK, Settled, WritesOK, CommitSteps, Creating, OpStays
  <2>7. CommitOK'
    <3>1. PICK D, V, X, u : D = CurData(store) /\ V = CurVectors(store) /\ X = CurIndices(store) /\ u = mgr.proxy
      OBVIOUS
    <3>2. PICK D1, V1 : D1 = NewData(D, p.new, op.snap, p.oldFiles) /\ V1 = NewVectors(V, u)
      BY SMTT(30)
    <3>3. op.snap \in Nat /\ IsFiniteSet(p.new) /\ \A f \in p.new : f.id \notin p.oldFiles
      BY <1>1, <1>3, ZenonT(60) DEF Parts, WritesOK, CommitSteps, NewOK
    <3>4. /\ Shows(D1, V1, mgr.files) /\ mgr.indices = NewIndices(X, u)
          /\ u.oldFiles = p.oldFiles /\ u.indices = p.indices /\ u.oldIndices = p.oldIndices
          /\ SoundFiles(mgr.files, world.file) /\ SoundIndices(mgr.files, mgr.indices, world.file)
          /\ Live(mgr.files) = (Live(CurFiles(store)) \cup p.add) \ p.del
      BY <1>1, <1>3, <3>1, <3>2, <3>3, ZenonT(60) DEF Parts, CommitOK, Ahead, CommitSteps
    <3>5. CurData(store') = D1 /\ CurVectors(store') = V1 /\ CurIndices(store') = mgr.indices /\ CurFiles(store') = mgr.files
      BY <1>3, <3>1, <3>2, ZenonT(60) DEF Landed
    <3>6. ASSUME NEW snap \in Nat
          PROVE  Shows(NewData(D1, p.new, snap, p.oldFiles), NewVectors(V1, u), mgr.files)
      BY <3>2, <3>3, <3>4, CommitAgain, ZenonT(60)
    <3>7. mgr.indices = NewIndices(mgr.indices, u)
      BY <3>4, SMTT(30) DEF NewIndices
    <3>8. Live(mgr.files) = (Live(mgr.files) \cup p.add) \ p.del
      BY <3>4, SMTT(30)
    <3> QED BY <1>5, <1>7, <2>1, <3>1, <3>4, <3>5, <3>6, <3>7, <3>8, ZenonT(60) DEF CommitOK, OpStays, WorldStays
  <2>8. Commits
    BY <1>1, <1>3, <1>5, <2>1 DEF Commits, SamePending, SamePlan, OpStays, WorldStays
  <2>9. IInv'
    BY <1>1, <1>2, <1>5, <1>6, <2>3, <2>4, <2>5, <2>6, <2>7, SMTT(30) DEF IInv, WorldStays
  <2> QED BY <2>8, <2>9
<1>8. CASE op' = NoOp /\ mgr' = NoManager
  <2>1. op'.pc = "none" /\ op'.alter = FALSE /\ NoManagerFields
    BY <1>8, NoOpFields, NoManagerShape
  <2>2. AfterLanding
    BY <1>2, <1>3, <1>5, <2>1, SMTT(30) DEF AfterLanding, WorldStays, NoManagerFields
  <2>3. (StoreOK /\ CreationOK /\ CompactionOK)'
    BY <1>1, <1>3, <2>2, LandedStore
  <2>4. Shapes'
    BY <1>2, <1>3, <1>5, <1>8, <2>1, SMTT(30) DEF IInv, Shapes, NoOp, NoUpdates, NoManagerFields, MgrShape, WorldShape, StoreShape
  <2>5. Types'
    BY <1>2, <1>3, <1>4, <1>5, <2>1, Zenon DEF IInv, Types, BudgetOK, WorldStays, NoManagerFields
  <2>6. (ManagerOK /\ CommitOK /\ WritesOK)'
    BY <2>1, Zenon DEF ManagerOK, CommitOK, Ahead, WritesOK, NoManagerFields, CommitSteps
  <2>7. Commits
    BY <1>1, <1>3, <1>5, <2>1 DEF Commits, WorldStays
  <2>8. IInv'
    BY <1>1, <1>2, <1>5, <1>6, <2>3, <2>4, <2>5, <2>6, SMTT(30) DEF IInv, WorldStays
  <2> QED BY <2>7, <2>8
<1> QED BY <1>7, <1>8 DEF LoseAnswer

LEMMA LoadStep ==
  ASSUME IInv, Load
  PROVE  IInv' /\ Unseen
<1>1. /\ ~panicked /\ ~mgr.up /\ ~world.dropped /\ LoadSucceeds(store) /\ UNCHANGED <<scenario, store, op, acked, left, panicked>>
      /\ mgr' = [up |-> TRUE, table |-> TableExists(store), files |-> LoadedFiles(store),
                 indices |-> LoadedIndices(store), proxy |-> NoUpdates]
  BY DEF Load
<1>2. PICK lsn : lsn = IF HasSnapshot(store) THEN Current(store).lsn ELSE 0
  OBVIOUS
<1>3. world' = [world EXCEPT !.lsn = lsn, !.compaction = None]
  BY <1>2 DEF Load
<1>4. /\ world'.file = world.file /\ world'.lsn = lsn /\ world'.schema = world.schema /\ world'.compaction = None
      /\ world'.dropped = world.dropped /\ world'.cut = world.cut /\ world'.lost = world.lost /\ WorldShape
  BY <1>3, ZenonT(60) DEF IInv, Shapes, WorldShape
<1>5. Parts /\ op.pc = "none" /\ op.alter = FALSE
  BY <1>1 DEF IInv, Types, Parts
<1>6. lsn \in Nat /\ (CanLoadMetadata(store) => Current(store).lsn <= lsn)
  BY <1>2, <1>5, SMTT(60) DEF Parts, StoreOK, HasSnapshot, NoSnapshot
<1>7. /\ mgr'.up = TRUE /\ mgr'.table = TableExists(store) /\ mgr'.files = CurFiles(store)
      /\ mgr'.indices = CurIndices(store) /\ mgr'.proxy = NoUpdates /\ MgrShape
  <2>1. LoadedFiles(store) = CurFiles(store) /\ LoadedIndices(store) = CurIndices(store)
    BY Zenon DEF LoadedFiles, LoadedIndices, CurFiles, CurData, CurVectors, CurEntries, CurIndices, IndexView, FilesFrom, DeletedIn
  <2> QED BY <1>1, <2>1 DEF MgrShape
<1>8. store.hint # None => CanLoadMetadata(store)
  BY <1>1, ZenonT(60) DEF LoadSucceeds, TableExists
<1>9. Shapes'
  BY <1>1, <1>4, <1>5, <1>7, ZenonT(60) DEF IInv, Shapes, NoUpdates, WorldShape, MgrShape
<1>10. Types'
  BY <1>1, <1>4, <1>5, <1>6, <1>7, ZenonT(60) DEF IInv, Types, TableExists
<1>11. (StoreOK /\ CreationOK)'
  BY <1>1, <1>4, <1>5, <1>6, <1>7, <1>8, ZenonT(60) DEF Parts, StoreOK, CreationOK, CanLoadMetadata, Creating
<1>12. (ManagerOK /\ CommitOK /\ WritesOK /\ CompactionOK /\ AckedOK)'
  BY <1>1, <1>4, <1>5, <1>7, ZenonT(60) DEF Parts, ManagerOK, Settled, CommitOK, Ahead, WritesOK, CompactionOK, AckedOK, CommitSteps, Creating
<1>30. Unseen
  BY <1>1, <1>4, <1>5, SameStore, ZenonT(60) DEF Unseen, SamePending
<1>31. IInv'
  BY <1>1, <1>4, <1>5, <1>9, <1>10, <1>11, <1>12, ZenonT(60) DEF IInv
<1> QED BY <1>30, <1>31

Drops == ~world.dropped /\ world'.dropped /\ op.pc = "none" /\ op'.pc = "none"

LEMMA DropTableStep ==
  ASSUME IInv, DropTable
  PROVE  IInv' /\ Drops
<1>1. /\ ~panicked /\ mgr.up /\ op.pc = "none" /\ UNCHANGED <<scenario, op, acked, panicked>>
      /\ store' = [NewStore EXCEPT !.ns = store.ns]
      /\ mgr' = [mgr EXCEPT !.files = <<>>, !.indices = {}]
      /\ world' = [world EXCEPT !.dropped = TRUE]
  BY DEF DropTable
<1>2. store'.hint = None /\ store'.lists = <<>> /\ StoreShape
  BY <1>1 DEF NewStore, StoreShape
<1>3. mgr'.up = mgr.up /\ mgr'.table = mgr.table /\ mgr'.proxy = mgr.proxy /\ MgrShape
  BY <1>1, Zenon DEF IInv, Shapes, MgrShape
<1>4. /\ world'.file = world.file /\ world'.lsn = world.lsn /\ world'.schema = world.schema
      /\ world'.dropped = TRUE /\ world'.cut = world.cut /\ world'.lost = world.lost /\ WorldShape
  BY <1>1, Zenon DEF IInv, Shapes, WorldShape
<1>5. BudgetOK'
  BY <1>1, SpendKeeps DEF IInv, DropTable, Kinds
<1>6. Shapes'
  BY <1>1, <1>2, <1>3, <1>4 DEF IInv, Shapes, StoreShape, MgrShape, WorldShape
<1>7. Types'
  <2>1. \E n \in Nat : DOMAIN store'.lists = 1 .. n
    <3>1. DOMAIN store'.lists = 1 .. 0
      BY <1>2
    <3> QED BY <3>1
  <2> QED BY <1>1, <1>2, <1>3, <1>4, <1>5, <2>1, Zenon DEF IInv, Types, BudgetOK
<1>8. Drops
  BY <1>1, <1>4 DEF Drops, DropTable
<1>9. IInv'
  BY <1>1, <1>2, <1>4, <1>6, <1>7, SMTT(30) DEF IInv
<1> QED BY <1>8, <1>9

-----------------------------------------------------------------------------
LEMMA NothingStored ==
  ASSUME NEW s, s.hint = None
  PROVE  /\ ~CanLoadMetadata(s) /\ ~HasSnapshot(s) /\ CurrentList(s) = {}
         /\ CurData(s) = {} /\ CurVectors(s) = {} /\ CurEntries(s) = {} /\ CurIndices(s) = {} /\ CurFiles(s) = <<>>
<1>1. ~CanLoadMetadata(s) /\ ~HasSnapshot(s) /\ CurrentList(s) = {}
  BY SMTT(30) DEF CanLoadMetadata, TableExists, HasSnapshot, CurrentList
<1>2. CurData(s) = {} /\ CurVectors(s) = {} /\ CurEntries(s) = {} /\ CurIndices(s) = {}
  BY <1>1 DEF CurData, CurVectors, CurEntries, CurIndices, IndexView, DataFiles, Entries
<1>3. CurFiles(s) = <<>>
  <2>1. CurFiles(s) = FilesFrom({}, {})
    BY <1>2 DEF CurFiles
  <2>2. {e.id : e \in {}} = {}
    OBVIOUS
  <2>3. FilesFrom({}, {}) = <<>>
    BY <2>2 DEF FilesFrom
  <2> QED BY <2>1, <2>3
<1> QED BY <1>1, <1>2, <1>3

LEMMA InitIInv ==
  ASSUME Init, Regular
  PROVE  IInv
<1>1. /\ scenario \in Scenarios /\ store = NewStore /\ mgr = NewManager /\ op = NoOp
      /\ world = [file |-> 1, lsn |-> 0, schema |-> 1, compaction |-> None, dropped |-> FALSE, cut |-> FALSE, lost |-> FALSE]
      /\ acked = [lsn |-> 0, schema |-> 0] /\ left = scenario.budget /\ panicked = FALSE
  BY SMTT(30) DEF Init
<1>2. /\ store.hint = None /\ store.lists = <<>> /\ store.meta = <<>>
      /\ store = [ns |-> store.ns, hint |-> store.hint, tag |-> store.tag, meta |-> store.meta, lists |-> store.lists]
  BY <1>1, SMTT(30) DEF NewStore
<1>3. mgr.up = TRUE /\ mgr.table = FALSE /\ mgr.files = <<>> /\ mgr.indices = {} /\ mgr.proxy = NoUpdates
  BY <1>1 DEF NewManager
<1>4. op.pc = "none" /\ op.alter = FALSE
  BY <1>1, NoOpFields, SMTT(30)
<1>5. /\ world.file = 1 /\ world.lsn = 0 /\ world.schema = 1 /\ world.compaction = None
      /\ world.dropped = FALSE /\ world.cut = FALSE /\ world.lost = FALSE
  BY <1>1
<1>6. /\ ~CanLoadMetadata(store) /\ ~HasSnapshot(store) /\ CurrentList(store) = {}
      /\ CurData(store) = {} /\ CurVectors(store) = {} /\ CurEntries(store) = {} /\ CurIndices(store) = {} /\ CurFiles(store) = <<>>
  BY <1>2, NothingStored, SMTT(30)
<1>7. Shapes
  BY <1>1, <1>2, <1>3, <1>4, ZenonT(60) DEF Shapes, NewManager, NoOp, NoUpdates
<1>8. Types
  <2>1. left \in [Kinds -> Int] /\ (scenario.catalog = "file" => left["schema"] = 0)
    BY <1>1, ScenariosAssumption DEF Regular, SchemaChangesAtService
  <2>2. \E n \in Nat : DOMAIN store.lists = 1 .. n
    <3>1. DOMAIN store.lists = 1 .. 0
      BY <1>2, SMTT(30)
    <3> QED BY <3>1
  <2> QED BY <1>1, <1>2, <1>3, <1>4, <1>5, <2>1, <2>2, Zenon DEF Types
<1>9. StoreOK
  <2>1. DOMAIN CurFiles(store) = {}
    BY <1>6, SMTT(30)
  <2>2. SoundFiles(CurFiles(store), world.file) /\ SoundIndices(CurFiles(store), CurIndices(store), world.file)
    BY <1>6, <2>1, SMTT(30) DEF SoundFiles, SoundIndices
  <2>3. EntriesOK(CurData(store), CurVectors(store)) /\ Manifests(CurrentList(store))
    BY <1>6, FS_EmptySet, ZenonT(60) DEF EntriesOK, Manifests
  <2>4. OneEntryEach(CurData(store), CurEntries(store))
    BY <1>6, Zenon DEF OneEntryEach
  <2> QED BY <1>6, <2>2, <2>3, <2>4, Zenon DEF StoreOK
<1>10. CreationOK
  <2>1. DOMAIN store.meta = {}
    BY <1>2
  <2> QED BY <1>1, <1>2, <1>3, <1>4, <1>5, <1>6, <2>1, Zenon DEF CreationOK, Creating, TableExists
<1>11. ManagerOK /\ CommitOK /\ WritesOK /\ CompactionOK /\ AckedOK
  BY <1>1, <1>3, <1>4, <1>5, <1>6, Zenon DEF ManagerOK, Settled, CommitOK, Ahead, WritesOK, CompactionOK, AckedOK, CommitSteps, Creating
<1> QED BY <1>5, <1>7, <1>8, <1>9, <1>10, <1>11, SMTT(30) DEF IInv

Effect == Unseen \/ Begins \/ Ends \/ Appears \/ TakesSchema \/ Commits \/ Evolves \/ Drops

LEMMA NextIInv ==
  ASSUME IInv, Regular, [Next]_vars
  PROVE  IInv' /\ Effect
<1>1. CASE UNCHANGED vars
  <2>1. Shapes' /\ Types'
    BY <1>1, SMTT(60) DEF IInv, Shapes, Types, vars
  <2>2. ASSUME ~world.dropped PROVE (StoreOK /\ CreationOK)'
    BY <1>1, <2>2, ZenonT(60) DEF IInv, StoreOK, CreationOK, vars
  <2>3. ASSUME ~world.dropped PROVE (ManagerOK /\ CommitOK)'
    BY <1>1, <2>3, ZenonT(60) DEF IInv, ManagerOK, Settled, CommitOK, Ahead, vars
  <2>4. ASSUME ~world.dropped PROVE (WritesOK /\ CompactionOK /\ AckedOK)'
    BY <1>1, <2>4, ZenonT(60) DEF IInv, WritesOK, CompactionOK, AckedOK, vars
  <2>5. Unseen
    BY <1>1, SameStore DEF Unseen, SamePending, SamePlan, vars
  <2> QED BY <1>1, <2>1, <2>2, <2>3, <2>4, <2>5, SMTT(30) DEF IInv, vars, Effect
<1>2. CASE Next
  BY <1>2, StartCompactionStep, BeginStep, CreateNamespaceStepStep, CreateFirstHintStep, CreateFirstMetadataStep,
     CreateTableAtServiceStep, CreationSchemaAtServiceStep, SyncDataFilesStep, SyncDeletionVectorStep,
     SyncFileIndicesStep, BeginCommitStep, BeginSchemaCommitStep, WriteMetadataFileStep,
     RewriteManifestListStep, WriteVersionHintStep, CommitToServiceStep, FailStepStep, LoseAnswerStep,
     CrashStep, LoadStep, DropTableStep, SMTT(30) DEF Next, Regular, Effect
<1> QED BY <1>1, <1>2

(* Every state of the writer is as the inductive invariant says *)
THEOREM TableInvariant == Spec /\ []Regular => []IInv
<1>1. Init /\ Regular => IInv
  BY InitIInv
<1>2. IInv /\ Regular /\ [Next]_vars => IInv'
  BY NextIInv, SMTT(30)
<1> QED BY <1>1, <1>2, PTL DEF Spec

-----------------------------------------------------------------------------
LEMMA Loaded ==
  LoadedFiles(store) = CurFiles(store) /\ LoadedIndices(store) = CurIndices(store)
BY Zenon DEF LoadedFiles, LoadedIndices, CurFiles, CurData, CurVectors, CurEntries, CurIndices, IndexView, FilesFrom, DeletedIn

LEMMA StoredLoads ==
  ASSUME IInv, ~world.cut, ~world.dropped, ~mgr.up
  PROVE  LoadSucceeds(store)
<1>1. Parts /\ op.pc = "none"
  BY SMTT(30) DEF IInv, Types, Parts
<1>2. TableExists(store) => CanLoadMetadata(store)
  BY <1>1 DEF Parts, CreationOK, CanLoadMetadata, TableExists
<1>3. PICK list : list = CurrentList(store)
  OBVIOUS
<1>4. PICK ids : ids = {f.id : f \in DataFiles(list)}
  BY ZenonT(60)
<1>5. RewriteAsserts(list)
  BY <1>1, <1>3, Zenon DEF Parts, StoreOK, Manifests, RewriteAsserts
<1>6. EntriesOK(DataFiles(list), Entries(list, "vector")) /\ SoundIndices(CurFiles(store), IndexView(Entries(list, "index")), world.file)
  BY <1>1, <1>3, ZenonT(60) DEF Parts, StoreOK, CurData, CurVectors, CurEntries, CurIndices
<1>7. DOMAIN CurFiles(store) = ids
  BY <1>3, <1>4, SMTT(30) DEF CurFiles, CurData, FilesFrom
<1>8. /\ \A v \in Entries(list, "vector") : v.file \in ids
      /\ \A v, w \in Entries(list, "vector") : v.file = w.file => v = w
  BY <1>4, <1>6, ZenonT(60) DEF EntriesOK
<1>9. \A x \in Entries(list, "index") : x.files \subseteq ids
  <2> SUFFICES ASSUME NEW x \in Entries(list, "index") PROVE x.files \subseteq ids
    OBVIOUS
  <2>1. Index(x.puffin, x.files) \in IndexView(Entries(list, "index")) /\ Index(x.puffin, x.files).files = x.files
    BY DEF IndexView, Index
  <2> QED BY <1>6, <1>7, <2>1, ZenonT(60) DEF SoundIndices
<1> QED BY <1>2, <1>3, <1>4, <1>5, <1>8, <1>9, ZenonT(60) DEF LoadSucceeds

LEMMA OnlyLostTwice ==
  ASSUME IInv, ~world.dropped, ListedTwice(store)
  PROVE  world.lost
<1> SUFFICES ASSUME ~world.lost PROVE FALSE
  OBVIOUS
<1>1. OneEntryEach(CurData(store), CurEntries(store))
  BY ZenonT(60) DEF IInv, StoreOK
<1> QED BY <1>1, ZenonT(60) DEF OneEntryEach, ListedTwice, CurData, CurEntries

LEMMA StoredIsIndexed ==
  ASSUME IInv
  PROVE  FilesAreIndexed
<1>4. ASSUME ~world.dropped PROVE ListedTwice(store) => world.lost
  BY <1>4, OnlyLostTwice
<1> SUFFICES ASSUME ~world.dropped, NEW id \in DOMAIN LoadedFiles(store)
             PROVE  Cardinality({x \in LoadedIndices(store) : id \in x.files}) = 1
  BY <1>4, Zenon DEF FilesAreIndexed
<1>1. SoundIndices(LoadedFiles(store), LoadedIndices(store), world.file)
  BY Loaded, ZenonT(60) DEF IInv, StoreOK
<1>2. PICK x \in LoadedIndices(store) : id \in x.files
  BY <1>1, SMTT(30) DEF SoundIndices
<1>3. {y \in LoadedIndices(store) : id \in y.files} = {x}
  BY <1>1, <1>2 DEF SoundIndices
<1> QED BY <1>3, FS_Singleton, ZenonT(60)

(* Wherever the process stopped, a restart finds a table that loads, at      *)
(* least as new as was reported, every row in one place unless the retry of  *)
(* a commit whose answer was lost listed its files twice, and no assertion   *)
(* of the manager or the syncer fails (load_snapshot_from_table,             *)
(* sync_snapshot)                                                            *)
THEOREM RestartsFindTheTable == Spec /\ []Regular => []RestartFindsTable
<1>1. IInv => RestartFindsTable
  <2> SUFFICES ASSUME IInv PROVE RestartFindsTable
    OBVIOUS
  <2>1. LoadNeverFails
    BY StoredLoads DEF LoadNeverFails
  <2>2. AckedIsStored
    BY SMTT(30) DEF IInv, AckedOK, AckedIsStored
  <2>3. NoPanic
    BY ZenonT(60) DEF IInv, CreationOK, NoPanic
  <2> QED BY <2>1, <2>2, <2>3, StoredIsIndexed DEF RestartFindsTable
<1> QED BY <1>1, TableInvariant, PTL

(* Between two snapshots persisted_data_files and persisted_file_indices are *)
(* what a fresh load would give, whatever was imported, deleted, compacted,  *)
(* merged, tried again or restarted before; a table that lists a file twice  *)
(* after a lost answer would load differently                                *)
THEOREM ManagerFollowsStore == Spec /\ []Regular => []ManagerMatchesStore
<1>1. IInv => ManagerMatchesStore
  BY Loaded, Zenon DEF IInv, ManagerOK, Settled, ManagerMatchesStore
<1> QED BY <1>1, TableInvariant, PTL

-----------------------------------------------------------------------------
(* The table as a reader finds it *)
Seen(s, dropped) ==
  IF dropped \/ ~CanLoadMetadata(s) THEN [exists |-> FALSE, rows |-> {}, lsn |-> 0, schema |-> 0]
  ELSE [exists |-> TRUE, rows |-> Live(CurFiles(s)), lsn |-> Current(s).lsn, schema |-> Current(s).schema]

LEMMA TableIsSeen == IInv => Table = Seen(store, world.dropped)
<1> SUFFICES ASSUME IInv PROVE Table = Seen(store, world.dropped)
  BY SMTT(30)
<1>1. ASSUME ~world.dropped, ~world.lost PROVE ~ListedTwice(store)
  BY <1>1, OnlyLostTwice
<1>2. world.lost \in BOOLEAN /\ world.dropped \in BOOLEAN
  BY SMTT(30) DEF IInv, Types
<1>3. CASE world.dropped \/ ~CanLoadMetadata(store)
  BY <1>3, SMTT(30) DEF Table, Seen
<1>4. CASE ~world.dropped /\ CanLoadMetadata(store)
  <2>1. ~(ListedTwice(store) /\ ~world.lost)
    BY <1>1, <1>2, <1>4, SMTT(30)
  <2> QED BY <1>4, <2>1, Loaded, Zenon DEF Table, Seen
<1> QED BY <1>3, <1>4

PlanOf(p) == [add |-> p.add, del |-> p.del, lsn |-> p.lsn, schema |-> p.schema]

LEMMA PendingIsPlan ==
  IInv => IF op.pc = "none" THEN Pending = None ELSE Pending = PlanOf(op.payload) /\ Pending # None
<1> SUFFICES ASSUME IInv, op.pc # "none" PROVE Pending = PlanOf(op.payload) /\ Pending # None
  BY DEF Pending
<1>1. Pending = PlanOf(op.payload)
  BY DEF Pending, PlanOf
<1>2. PICK a, d, l, s : a = op.payload.add /\ d = op.payload.del /\ l = op.payload.lsn /\ s = op.payload.schema
  BY Zenon
<1>3. a \in SUBSET Row /\ d \in SUBSET Row /\ l \in Nat /\ s \in Nat
  BY <1>2 DEF IInv, Types, NewOK
<1>4. PlanOf(op.payload) = [add |-> a, del |-> d, lsn |-> l, schema |-> s]
  BY <1>2 DEF PlanOf
<1>5. [add |-> a, del |-> d, lsn |-> l, schema |-> s] \in [add : SUBSET Row, del : SUBSET Row, lsn : Nat, schema : Nat]
  BY <1>3
<1> QED BY <1>1, <1>4, <1>5, NoneAssumption, ZenonT(60)

(* The table and the snapshot under way as AtomicTable sees them *)
Mapped ==
  /\ Table = Seen(store, world.dropped)
  /\ IF op.pc = "none" THEN Pending = None ELSE Pending = PlanOf(op.payload) /\ Pending # None

LEMMA MappedNow == IInv => Mapped
BY TableIsSeen, PendingIsPlan DEF Mapped

LEMMA MappedThen == IInv' => Mapped'
BY MappedNow, PTL

LEMMA NothingToRead ==
  ASSUME NEW s, ~HasSnapshot(s)
  PROVE  CurFiles(s) = <<>>
<1>1. CurrentList(s) = {}
  BY SMTT(30) DEF CurrentList
<1>2. CurData(s) = {} /\ CurVectors(s) = {}
  BY <1>1, SMTT(30) DEF CurData, CurVectors, DataFiles, Entries
<1>3. {e.id : e \in {}} = {}
  BY SMTT(30)
<1>4. FilesFrom({}, {}) = <<>>
  BY <1>3, SMTT(60) DEF FilesFrom
<1> QED BY <1>2, <1>4, SMTT(30) DEF CurFiles

Holds(t, e, rows, lsn, schema) == t = [exists |-> e, rows |-> rows, lsn |-> lsn, schema |-> schema]

LEMMA SchemaChanges ==
  ASSUME NEW t, NEW u, NEW e, NEW rows, NEW lsn, NEW s1, NEW s2, Holds(t, e, rows, lsn, s1), Holds(u, e, rows, lsn, s2)
  PROVE  u = [t EXCEPT !.schema = s2]
BY DEF Holds

WithRows(t, rows, lsn) == [t EXCEPT !.rows = rows, !.lsn = lsn]

LEMMA RowsChange ==
  ASSUME NEW t, NEW u, NEW e, NEW r1, NEW r2, NEW l1, NEW l2, NEW schema,
         Holds(t, e, r1, l1, schema), Holds(u, e, r2, l2, schema)
  PROVE  u = WithRows(t, r2, l2)
<1>1. PICK w : w = [t EXCEPT !.rows = r2]
  BY Zenon
<1>2. w = [exists |-> e, rows |-> r2, lsn |-> l1, schema |-> schema]
  BY <1>1 DEF Holds
<1>3. u = [w EXCEPT !.lsn = l2]
  BY <1>2 DEF Holds
<1> QED BY <1>1, <1>3 DEF WithRows

LEMMA EffectIsAbstract ==
  ASSUME IInv, IInv', Effect
  PROVE  [Abstract!Next]_(Abstract!vars)
<1>0. /\ Mapped /\ Mapped'
      /\ world.dropped \in BOOLEAN /\ world'.dropped \in BOOLEAN
  BY MappedNow, MappedThen, ZenonT(60) DEF IInv, Types
<1>1. /\ Table = Seen(store, world.dropped) /\ Table' = Seen(store', world'.dropped)
      /\ IF op.pc = "none" THEN Pending = None ELSE Pending = PlanOf(op.payload) /\ Pending # None
      /\ IF op'.pc = "none" THEN Pending' = None ELSE Pending' = PlanOf(op'.payload) /\ Pending' # None
  BY <1>0, ZenonT(60) DEF Mapped
<1>2. SamePending => Pending' = Pending
  BY <1>1, SMTT(30) DEF SamePending, SamePlan, PlanOf
<1>3. CASE Unseen
  <2>1. Table' = Table
    BY <1>1, <1>3, ZenonT(60) DEF Unseen, SameTable, Seen
  <2> QED BY <1>2, <1>3, <2>1, SMTT(30) DEF Unseen, Abstract!vars
<1>4. CASE Begins
  BY <1>1, <1>4 DEF Begins, Abstract!Next, Abstract!Begin
<1>5. CASE Ends
  <2>1. Table' = Table /\ Pending' = None
    BY <1>1, <1>5, SMTT(30) DEF Ends
  <2>2. CASE op.pc = "none"
    BY <1>1, <2>1, <2>2, SMTT(30) DEF Abstract!vars
  <2>3. CASE op.pc # "none"
    BY <1>1, <2>1, <2>3, SMTT(30) DEF Abstract!Next, Abstract!End
  <2> QED BY <2>2, <2>3, SMTT(30)
<1>6. CASE Appears
  <2>1. CurFiles(store') = <<>>
    BY <1>6, NothingToRead DEF Appears
  <2>2. Live(CurFiles(store')) = {}
    BY <2>1, SMTT(30) DEF Live
  <2>3. Table.exists = FALSE /\ Table'.exists = TRUE /\ Table'.rows = {} /\ Table'.lsn = 0
    BY <1>1, <1>6, <2>2 DEF Appears, Seen
  <2> QED BY <1>2, <1>6, <2>3 DEF Appears, Abstract!Next, Abstract!Create
<1>7. CASE TakesSchema
  <2>1. /\ Table = [exists |-> TRUE, rows |-> Live(CurFiles(store)), lsn |-> Current(store).lsn, schema |-> 0]
        /\ Table' = [exists |-> TRUE, rows |-> Live(CurFiles(store)), lsn |-> Current(store).lsn, schema |-> 1]
    BY <1>1, <1>7, ZenonT(60) DEF TakesSchema, Seen
  <2>2. Table.exists /\ Table.schema = 0
    BY <2>1
  <2>3. Table' = [Table EXCEPT !.schema = 1]
    <3>1. PICK e : /\ Holds(Table, e, Live(CurFiles(store)), Current(store).lsn, 0)
                   /\ Holds(Table', e, Live(CurFiles(store)), Current(store).lsn, 1)
      BY <2>1, Zenon DEF Holds
    <3> QED BY <3>1, SchemaChanges, SMTT(30)
  <2> QED BY <1>2, <1>7, <2>2, <2>3, SMTT(30) DEF TakesSchema, Abstract!Next, Abstract!AdoptSchema
<1>8. CASE Commits
  <2> DEFINE p == op.payload
  <2>1. /\ ~world.dropped /\ ~world'.dropped /\ Landed(store') /\ CanLoadMetadata(store) /\ CanLoadMetadata(store')
        /\ op.pc # "none" /\ NewOK(p) /\ p.lsn = world.lsn /\ mgr.up
    BY <1>8, ZenonT(60) DEF Commits, IInv, CreationOK, Creating, Types, Landed, HasSnapshot
  <2>2. Live(mgr.files) = (Live(CurFiles(store)) \cup p.add) \ p.del
    BY <1>8, <2>1, ZenonT(60) DEF Commits, IInv, CommitOK, Ahead, CommitSteps
  <2>3. Current(store).lsn \in Nat /\ Current(store).lsn <= p.lsn /\ p.lsn \in Nat
    BY <2>1, ZenonT(60) DEF IInv, StoreOK, NewOK
  <2>4. Table = [exists |-> TRUE, rows |-> Live(CurFiles(store)), lsn |-> Current(store).lsn, schema |-> Current(store).schema]
    BY <1>1, <2>1, ZenonT(60) DEF Seen
  <2>5. Table' = [exists |-> TRUE, rows |-> (Live(CurFiles(store)) \cup p.add) \ p.del, lsn |-> p.lsn, schema |-> Current(store).schema]
    <3>1. Table' = [exists |-> TRUE, rows |-> Live(CurFiles(store')), lsn |-> Current(store').lsn, schema |-> Current(store').schema]
      BY <1>1, <2>1, ZenonT(60) DEF Seen
    <3> QED BY <2>1, <2>2, <3>1, ZenonT(60) DEF Landed
  <2>6. /\ Pending # None /\ Pending.lsn = p.lsn /\ Pending.add = p.add /\ Pending.del = p.del
    BY <1>1, <2>1 DEF PlanOf
  <2>7. Table' = [Table EXCEPT !.rows = (@ \cup Pending.add) \ Pending.del, !.lsn = Pending.lsn]
    <3>0. PICK rows, lsn : rows = (Live(CurFiles(store)) \cup p.add) \ p.del /\ lsn = p.lsn
      BY ZenonT(60)
    <3>3. PICK e :
            /\ Holds(Table, e, Live(CurFiles(store)), Current(store).lsn, Current(store).schema)
            /\ Holds(Table', e, rows, lsn, Current(store).schema)
      BY <2>4, <2>5, <3>0, Zenon DEF Holds
    <3>1. Table' = WithRows(Table, rows, lsn)
      BY <3>3, RowsChange
    <3>2. Table.rows = Live(CurFiles(store))
      BY <2>4, SMTT(30)
    <3> QED BY <2>6, <3>0, <3>1, <3>2 DEF WithRows
  <2>8. Pending' \in {Pending, None}
    BY <1>1, <1>2, <1>8, SMTT(30) DEF Commits
  <2>9. Table.exists /\ Pending.lsn >= Table.lsn
    BY <2>3, <2>4, <2>6
  <2> QED BY <2>6, <2>7, <2>8, <2>9 DEF Abstract!Next, Abstract!Commit
<1>9. CASE Evolves
  <2> DEFINE p == op.payload
  <2>1. Table = [exists |-> TRUE, rows |-> Live(CurFiles(store)), lsn |-> Current(store).lsn, schema |-> Current(store).schema]
    BY <1>1, <1>9, SMTT(30) DEF Evolves, Seen
  <2>2. Table' = [exists |-> TRUE, rows |-> Live(CurFiles(store)), lsn |-> Current(store).lsn, schema |-> p.schema]
    BY <1>1, <1>9, ZenonT(60) DEF Evolves, Seen
  <2>3. Pending # None /\ Pending.lsn = p.lsn /\ Pending.schema = p.schema /\ Pending' = None
    BY <1>1, <1>9, SMTT(30) DEF Evolves, PlanOf
  <2>4. Table.exists /\ Table.lsn = Current(store).lsn
    BY <2>1
  <2>5. Table' = [Table EXCEPT !.schema = p.schema]
    <3>1. PICK e :
            /\ Holds(Table, e, Live(CurFiles(store)), Current(store).lsn, Current(store).schema)
            /\ Holds(Table', e, Live(CurFiles(store)), Current(store).lsn, p.schema)
      BY <2>1, <2>2, Zenon DEF Holds
    <3> QED BY <3>1, SchemaChanges, SMTT(30)
  <2> QED BY <1>9, <2>3, <2>4, <2>5, SMTT(30) DEF Evolves, Abstract!Next, Abstract!Evolve
<1>10. CASE Drops
  <2>1. Table' = [exists |-> FALSE, rows |-> {}, lsn |-> 0, schema |-> 0] /\ Pending = None /\ Pending' = None
    BY <1>1, <1>10, SMTT(30) DEF Drops, Seen
  <2>2. CASE CanLoadMetadata(store)
    <3>1. Table.exists
      BY <1>1, <1>10, <2>2, SMTT(30) DEF Drops, Seen
    <3> QED BY <2>1, <3>1, SMTT(30) DEF Abstract!Next, Abstract!Drop, Abstract!Absent
  <2>3. CASE ~CanLoadMetadata(store)
    <3>1. Table' = Table
      BY <1>1, <2>1, <2>3, SMTT(30) DEF Seen
    <3> QED BY <2>1, <3>1, SMTT(30) DEF Abstract!vars
  <2> QED BY <2>2, <2>3, SMTT(30)
<1> QED BY <1>3, <1>4, <1>5, <1>6, <1>7, <1>8, <1>9, <1>10 DEF Effect

LEMMA InitIsAbstract ==
  ASSUME Init, Regular
  PROVE  Abstract!Init
<1>1. IInv /\ store.hint = None /\ op.pc = "none"
  BY InitIInv, NoOpFields, Zenon DEF Init, NewStore
<1>2. Table = Seen(store, world.dropped) /\ Pending = None
  BY <1>1, MappedNow DEF Mapped
<1>3. Table = [exists |-> FALSE, rows |-> {}, lsn |-> 0, schema |-> 0]
  BY <1>1, <1>2, NothingStored, Zenon DEF Seen
<1> QED BY <1>2, <1>3, SMTT(30) DEF Abstract!Init, Abstract!Absent

(* A snapshot becomes visible as a whole or not at all: no write of the      *)
(* syncer or of a catalog, no failure, lost answer or crash shows a reader   *)
(* anything but the table before it or after it (update_table, sync_snapshot)*)
THEOREM SnapshotsAreAtomic == Spec /\ []Regular => ImplementsAtomicTable
<1>1. Init /\ Regular => Abstract!Init
  BY InitIsAbstract
<1>2. IInv /\ Regular /\ [Next]_vars => [Abstract!Next]_(Abstract!vars)
  BY NextIInv, EffectIsAbstract
<1> QED BY <1>1, <1>2, TableInvariant, PTL DEF Spec, ImplementsAtomicTable, Abstract!Spec

=============================================================================
