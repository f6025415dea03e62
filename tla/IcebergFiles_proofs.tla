------------------------- MODULE IcebergFiles_proofs -------------------------
(***************************************************************************)
(* Lemmas for IcebergTable_proofs about the operators on manifest lists:   *)
(* which data files, deletion vectors and file indices the entries of a    *)
(* list show (FilesFrom), what an append and append_puffin_metadata_and_   *)
(* rewrite make of them, and that the files the manager holds after a      *)
(* payload (Target) are the ones a reader of the rewritten list finds.     *)
(***************************************************************************)
EXTENDS IcebergTable, FiniteSetTheorems, TLAPS

-----------------------------------------------------------------------------
(* What the entries of a manifest list show, and what a commit makes of them *)
FilesFrom(D, V) ==
  [id \in {e.id : e \in D} |->
     [rows |-> (CHOOSE e \in D : e.id = id).rows,
      deleted |-> UNION {v.rows : v \in {w \in V : w.file = id}}]]

NewData(D, new, snap, old) == {e \in D \cup {DataEntry(f, snap) : f \in new} : e.id \notin old}

NewVectors(V, u) ==
  {v \in V : v.file \notin u.oldFiles /\ \A w \in u.vectors : w.file # v.file} \cup u.vectors

NewIndices(X, u) == {x \in X : x.puffin \notin u.oldIndices} \cup u.indices

(* The indices that entries name, and the entries a commit leaves *)
IndexView(E) == {Index(x.puffin, x.files) : x \in E}

NewEntries(E, u, snap) == {x \in E : x.puffin \notin u.oldIndices} \cup {IndexEntry(x, snap) : x \in u.indices}

OneEntryEach(D, E) ==
  /\ \A e, f \in D : e.id = f.id => e = f
  /\ \A x, y \in E : x.puffin = y.puffin => x = y

EntriesOK(D, V) ==
  /\ IsFiniteSet(D)
  /\ \A e, f \in D : e.id = f.id => e.rows = f.rows
  /\ \A v \in V : \E e \in D : e.id = v.file
  /\ \A v, w \in V : v.file = w.file => v = w

Manifests(list) == \A m \in list : m.kind \in {"data", "vector", "index"} /\ m.entries # {}

RowsBelow(n) == (0 .. n - 1) \X {1, 2}

(* Files and indices whose names are below n: every row is in one file,     *)
(* every file in one index                                                  *)
SoundFiles(F, n) ==
  /\ DOMAIN F \subseteq 0 .. n - 1
  /\ \A id \in DOMAIN F : F[id].rows \subseteq RowsBelow(n) /\ F[id].deleted \subseteq F[id].rows
  /\ \A i, j \in DOMAIN F : i # j => F[i].rows \cap F[j].rows = {}

SoundIndices(F, X, n) ==
  /\ \A x \in X : x.puffin \in 0 .. n - 1 /\ x.files \subseteq DOMAIN F
  /\ \A x, y \in X : x.puffin = y.puffin => x = y
  /\ \A id \in DOMAIN F : \E x \in X : id \in x.files
  /\ \A x, y \in X : x.files \cap y.files # {} => x = y

(* What a payload makes of the files F and the indices X, with the vectors vs *)
Synced(F, p) == Without(WithNew(F, p.new), p.oldFiles)

Target(F, p, vs) == Marked(Synced(F, p), Written(Synced(F, p), vs))

VectorsOf(F, p) == MergedVectors(p.vectors \cup RemappedDeletions(F, p))

NewOK(p) ==
  /\ IsFiniteSet(p.new)
  /\ \A f, g \in p.new : f.id = g.id => f = g
  /\ \A f \in p.new : f.id \notin p.oldFiles
  /\ \A x \in p.indices : x.puffin \notin p.oldIndices /\ x = Index(x.puffin, x.files)
  /\ p.add \in SUBSET Row /\ p.del \in SUBSET Row /\ p.lsn \in Nat /\ p.schema \in Nat

PlanOK(F, X, p, vs, n) ==
  /\ p.oldFiles \subseteq DOMAIN F
  /\ \A f \in p.new : f.id \notin DOMAIN F
  /\ p.oldIndices \subseteq {x.puffin : x \in X}
  /\ \A x \in p.indices, y \in X : x.puffin # y.puffin
  /\ \A v \in vs : v.file \in DOMAIN Synced(F, p)
  /\ \A v, w \in vs : v.file = w.file => v = w
  /\ SoundFiles(Target(F, p, vs), n)
  /\ SoundIndices(Target(F, p, vs), NewIndices(X, p), n)
  /\ Live(Target(F, p, vs)) = (Live(F) \cup p.add) \ p.del
-----------------------------------------------------------------------------
(* The files of a manifest list, one file at a time *)
RowsOn(vs, id) == UNION {v.rows : v \in {w \in vs : w.file = id}}

IsFilesFrom(F, D, V) ==
  /\ DOMAIN F = {e.id : e \in D}
  /\ \A e \in D : F[e.id].rows = e.rows /\ F[e.id].deleted = RowsOn(V, e.id)

LEMMA FilesFromAt ==
  ASSUME NEW D, NEW V, EntriesOK(D, V)
  PROVE  IsFilesFrom(FilesFrom(D, V), D, V)
<1> DEFINE F == FilesFrom(D, V)
<1>1. DOMAIN F = {e.id : e \in D}
  BY DEF FilesFrom
<1>2. ASSUME NEW e \in D PROVE F[e.id].rows = e.rows /\ F[e.id].deleted = RowsOn(V, e.id)
  <2>1. (CHOOSE d \in D : d.id = e.id).rows = e.rows
    BY DEF EntriesOK
  <2> QED BY <2>1 DEF FilesFrom, RowsOn
<1> QED BY <1>1, <1>2 DEF IsFilesFrom

(* The files after the data files of a payload are in and the old ones out *)
Fresh(F, p) ==
  /\ \A f, g \in p.new : f.id = g.id => f = g
  /\ \A f \in p.new : f.id \notin p.oldFiles /\ f.id \notin DOMAIN F

IsSynced(G, F, p) ==
  /\ \A id : id \in DOMAIN G <=> (id \in DOMAIN F \/ \E f \in p.new : f.id = id) /\ id \notin p.oldFiles
  /\ \A id \in DOMAIN F \ p.oldFiles : G[id] = F[id]
  /\ \A f \in p.new : G[f.id].rows = f.rows /\ G[f.id].deleted = {}

LEMMA SyncedAt ==
  ASSUME NEW F, NEW p, Fresh(F, p)
  PROVE  IsSynced(Synced(F, p), F, p)
<1> USE DEF Fresh
<1>1. DOMAIN WithNew(F, p.new) = DOMAIN F \cup {f.id : f \in p.new}
  BY DEF WithNew
<1>2. DOMAIN Synced(F, p) = (DOMAIN F \cup {f.id : f \in p.new}) \ p.oldFiles
  BY <1>1 DEF Synced, Without
<1>3. \A id \in DOMAIN Synced(F, p) : Synced(F, p)[id] = WithNew(F, p.new)[id]
  BY <1>1 DEF Synced, Without
<1>4. \A id \in DOMAIN F : WithNew(F, p.new)[id] = F[id]
  BY DEF WithNew
<1>5. ASSUME NEW f \in p.new PROVE WithNew(F, p.new)[f.id] = [rows |-> f.rows, deleted |-> {}]
  <2>1. (CHOOSE g \in p.new : g.id = f.id) = f
    OBVIOUS
  <2> QED BY <2>1 DEF WithNew
<1>6. \A id \in DOMAIN F \ p.oldFiles : Synced(F, p)[id] = F[id]
  BY <1>2, <1>3, <1>4
<1>7. \A f \in p.new : Synced(F, p)[f.id].rows = f.rows /\ Synced(F, p)[f.id].deleted = {}
  <2> SUFFICES ASSUME NEW f \in p.new
               PROVE  Synced(F, p)[f.id].rows = f.rows /\ Synced(F, p)[f.id].deleted = {}
    OBVIOUS
  <2>1. Synced(F, p)[f.id] = [rows |-> f.rows, deleted |-> {}]
    BY <1>2, <1>3, <1>5
  <2> QED BY <2>1
<1> QED BY <1>2, <1>6, <1>7 DEF IsSynced

(* The files after the deletion vectors of a payload are written *)
OnePerFile(vs) == \A v, w \in vs : v.file = w.file => v = w

IsMarked(T, G, vs) ==
  /\ DOMAIN T = DOMAIN G
  /\ \A id \in DOMAIN G : T[id].rows = G[id].rows /\ T[id].deleted = G[id].deleted \cup RowsOn(vs, id)

LEMMA MarkedAt ==
  ASSUME NEW G, NEW vs, OnePerFile(vs)
  PROVE  IsMarked(Marked(G, Written(G, vs)), G, vs)
<1> USE DEF OnePerFile, RowsOn
<1> DEFINE W == Written(G, vs)
<1>1. DOMAIN Marked(G, W) = DOMAIN G /\ \A id \in DOMAIN G : Marked(G, W)[id].rows = G[id].rows
  BY DEF Marked
<1>2. ASSUME NEW id \in DOMAIN G
      PROVE  Marked(G, W)[id].deleted = G[id].deleted \cup UNION {v.rows : v \in {w \in vs : w.file = id}}
  <2>1. CASE \E v \in vs : v.file = id
    <3>1. PICK v \in vs : v.file = id
      BY <2>1
    <3> DEFINE y == [file |-> v.file, rows |-> G[v.file].deleted \cup v.rows]
    <3>2. y \in W
      BY DEF Written
    <3>3. \A z \in W : z.file = id => z = y
      <4> SUFFICES ASSUME NEW z \in W, z.file = id PROVE z = y
        OBVIOUS
      <4>1. PICK x \in vs : z = [file |-> x.file, rows |-> G[x.file].deleted \cup x.rows]
        BY DEF Written
      <4>2. x = v
        BY <3>1, <4>1
      <4> QED BY <4>1, <4>2
    <3>6. (CHOOSE z \in W : z.file = id) = y
      BY <3>1, <3>2, <3>3
    <3>4. {w \in vs : w.file = id} = {v}
      BY <3>1
    <3>5. UNION {w.rows : w \in {w \in vs : w.file = id}} = v.rows
      BY <3>4
    <3>7. y.file = id /\ y.rows = G[id].deleted \cup v.rows
      BY <3>1
    <3> HIDE DEF y
    <3>8. Marked(G, W)[id].deleted = y.rows
      BY <3>2, <3>6, <3>7 DEF Marked
    <3> QED BY <3>5, <3>7, <3>8
  <2>2. CASE ~\E v \in vs : v.file = id
    <3>1. ~\E v \in W : v.file = id
      BY <2>2 DEF Written
    <3>2. UNION {w.rows : w \in {w \in vs : w.file = id}} = {}
      BY <2>2
    <3> QED BY <3>1, <3>2 DEF Marked
  <2> QED BY <2>1, <2>2
<1> QED BY <1>1, <1>2 DEF IsMarked

(* A commit leaves on storage what the manager worked out, whatever the     *)
(* number of the snapshot                                                   *)
Shows(D, V, F) == EntriesOK(D, V) /\ FilesFrom(D, V) = F

Prepared(F, p, vs, u) ==
  /\ IsFiniteSet(p.new)
  /\ Fresh(F, p)
  /\ OnePerFile(vs)
  /\ \A v \in vs : v.file \in DOMAIN Synced(F, p)
  /\ u.oldFiles = p.oldFiles
  /\ u.vectors = Written(Synced(F, p), vs)

LEMMA CommitShows ==
  ASSUME NEW D, NEW V, EntriesOK(D, V), NEW p, NEW vs, NEW u, NEW snap,
         Prepared(FilesFrom(D, V), p, vs, u)
  PROVE  Shows(NewData(D, p.new, snap, p.oldFiles), NewVectors(V, u), Target(FilesFrom(D, V), p, vs))
<1> USE DEF Prepared
<1> DEFINE F  == FilesFrom(D, V)
           G  == Synced(F, p)
           N  == {DataEntry(f, snap) : f \in p.new}
           D2 == NewData(D, p.new, snap, p.oldFiles)
           V2 == NewVectors(V, u)
<1>22. IsFilesFrom(F, D, V)
  BY FilesFromAt
<1>1. DOMAIN F = {e.id : e \in D}
  BY <1>22 DEF IsFilesFrom
<1>2. IsSynced(G, F, p)
  BY SyncedAt
<1> USE DEF IsSynced
<1>3. IsFiniteSet(D2)
  <2>1. IsFiniteSet(N)
    <3> DEFINE E == [f \in p.new |-> DataEntry(f, snap)]
    <3>1. E \in Surjection(p.new, N)
      BY DEF Surjection
    <3> QED BY <3>1, FS_Surjection
  <2>2. IsFiniteSet(D \cup N)
    BY <2>1, FS_Union DEF EntriesOK
  <2> QED BY <2>2, FS_Subset DEF NewData
<1>4. \A e \in N : \E f \in p.new : e.id = f.id /\ e.rows = f.rows
  BY DEF DataEntry
<1>5. \A f \in p.new : DataEntry(f, snap) \in N /\ DataEntry(f, snap).id = f.id /\ DataEntry(f, snap).rows = f.rows
  BY DEF DataEntry
<1>6. D2 = {e \in D \cup N : e.id \notin p.oldFiles}
  BY DEF NewData
<1> HIDE DEF N, D2
<1>7. \A e, f \in D2 : e.id = f.id => e.rows = f.rows
  BY <1>1, <1>4, <1>6 DEF EntriesOK, Fresh
<1>8. {e.id : e \in D2} = DOMAIN G
  <2>1. \A e \in D2 : e.id \in DOMAIN G
    BY <1>1, <1>2, <1>4, <1>6
  <2>2. ASSUME NEW id \in DOMAIN G PROVE \E e \in D2 : e.id = id
    BY <1>1, <1>2, <1>5, <1>6
  <2>3. DOMAIN G \subseteq {e.id : e \in D2}
    BY <2>2
  <2> QED BY <2>1, <2>3
<1>21. u.vectors = {[file |-> v.file, rows |-> G[v.file].deleted \cup v.rows] : v \in vs}
  BY DEF Written
<1> HIDE DEF G
<1>9. \A w \in u.vectors : \E v \in vs : w.file = v.file /\ w.rows = G[v.file].deleted \cup v.rows
  BY <1>21
<1>10. \A v \in vs : \E w \in u.vectors : w.file = v.file /\ w.rows = G[v.file].deleted \cup v.rows
  <2> SUFFICES ASSUME NEW v \in vs
               PROVE  \E w \in u.vectors : w.file = v.file /\ w.rows = G[v.file].deleted \cup v.rows
    OBVIOUS
  <2>1. [file |-> v.file, rows |-> G[v.file].deleted \cup v.rows] \in u.vectors
    BY <1>21
  <2> QED BY <2>1
<1>11. \A v, w \in u.vectors : v.file = w.file => v = w
  <2> SUFFICES ASSUME NEW v \in u.vectors, NEW w \in u.vectors, v.file = w.file PROVE v = w
    OBVIOUS
  <2>1. PICK x \in vs : v = [file |-> x.file, rows |-> G[x.file].deleted \cup x.rows]
    BY <1>21
  <2>2. PICK y \in vs : w = [file |-> y.file, rows |-> G[y.file].deleted \cup y.rows]
    BY <1>21
  <2>3. x = y
    BY <2>1, <2>2 DEF OnePerFile
  <2> QED BY <2>1, <2>2, <2>3
<1>12. \A v \in V2 : v \in u.vectors \/ (v \in V /\ v.file \notin p.oldFiles /\ \A w \in u.vectors : w.file # v.file)
  BY DEF NewVectors
<1>13. \A v \in u.vectors : v \in V2
  BY DEF NewVectors
<1>14. \A v \in V : v.file \notin p.oldFiles /\ (\A w \in u.vectors : w.file # v.file) => v \in V2
  BY DEF NewVectors
<1> HIDE DEF V2, G, F
<1>15. \A v \in V2 : \E e \in D2 : e.id = v.file
  <2> SUFFICES ASSUME NEW v \in V2 PROVE v.file \in DOMAIN G
    BY <1>8
  <2> QED BY <1>1, <1>2, <1>9, <1>12 DEF EntriesOK, G, F
<1>16. \A v, w \in V2 : v.file = w.file => v = w
  BY <1>11, <1>12 DEF EntriesOK
<1>17. EntriesOK(D2, V2)
  BY <1>3, <1>7, <1>15, <1>16 DEF EntriesOK
<1>18. ASSUME NEW id \in DOMAIN G
       PROVE  /\ FilesFrom(D2, V2)[id].rows = G[id].rows
              /\ FilesFrom(D2, V2)[id].deleted = G[id].deleted \cup RowsOn(vs, id)
  <2>1. PICK e \in D2 : e.id = id
    BY <1>8
  <2>2. FilesFrom(D2, V2)[id].rows = e.rows /\ FilesFrom(D2, V2)[id].deleted = RowsOn(V2, id)
    <3>1. IsFilesFrom(FilesFrom(D2, V2), D2, V2)
      BY <1>17, FilesFromAt
    <3> QED BY <2>1, <3>1 DEF IsFilesFrom
  <2>3. e.rows = G[id].rows
    <3>1. CASE e \in D
      <4>1. F[e.id].rows = e.rows /\ e.id \in DOMAIN F \ p.oldFiles
        BY <3>1, <1>6, <1>22 DEF IsFilesFrom
      <4> QED BY <4>1, <1>2, <2>1
    <3>2. CASE e \in N
      <4>1. PICK f \in p.new : e.id = f.id /\ e.rows = f.rows
        BY <3>2, <1>4
      <4>2. G[f.id].rows = f.rows
        BY <1>2
      <4> QED BY <4>1, <4>2, <2>1
    <3> QED BY <3>1, <3>2, <1>6
  <2>4. RowsOn(V2, id)
          = G[id].deleted \cup RowsOn(vs, id)
    <3>1. CASE \E v \in vs : v.file = id
      <4>1. PICK v \in vs : v.file = id
        BY <3>1
      <4>2. PICK w \in u.vectors : w.file = id /\ w.rows = G[id].deleted \cup v.rows
        BY <1>10, <4>1
      <4>3. {x \in V2 : x.file = id} = {w}
        BY <1>11, <1>12, <1>13, <4>2
      <4>4. {x \in vs : x.file = id} = {v}
        BY <4>1 DEF OnePerFile
      <4> QED BY <4>2, <4>3, <4>4 DEF RowsOn
    <3>2. CASE ~\E v \in vs : v.file = id
      <4>1. \A w \in u.vectors : w.file # id
        BY <3>2, <1>9
      <4>2. RowsOn(vs, id) = {}
        BY <3>2 DEF RowsOn
      <4>3. {w \in V2 : w.file = id} = {w \in V : w.file = id}
        BY <4>1, <1>2, <1>12, <1>14
      <4>4. CASE id \in DOMAIN F
        <5>1. PICK d \in D : d.id = id
          BY <4>4, <1>1
        <5>2. F[d.id].deleted = RowsOn(V, d.id)
          BY <1>22 DEF IsFilesFrom
        <5>3. G[id].deleted = F[id].deleted
          BY <4>4, <1>2
        <5> QED BY <5>1, <5>2, <5>3, <4>2, <4>3 DEF RowsOn
      <4>5. CASE id \notin DOMAIN F
        <5>1. {w \in V : w.file = id} = {}
          BY <4>5, <1>1 DEF EntriesOK
        <5>2. G[id].deleted = {}
          <6>1. PICK f \in p.new : f.id = id
            BY <4>5, <1>2
          <6>2. G[f.id].deleted = {}
            BY <1>2
          <6> QED BY <6>1, <6>2
        <5> QED BY <5>1, <5>2, <4>2, <4>3 DEF RowsOn
      <4> QED BY <4>4, <4>5
    <3> QED BY <3>1, <3>2
  <2> QED BY <2>2, <2>3, <2>4
<1>19. IsMarked(Target(F, p, vs), G, vs)
  BY MarkedAt DEF Target, G
<1>20. FilesFrom(D2, V2) = Target(F, p, vs)
  <2>1. FilesFrom(D2, V2) = [id \in DOMAIN G |-> [rows |-> FilesFrom(D2, V2)[id].rows, deleted |-> FilesFrom(D2, V2)[id].deleted]]
    BY <1>8 DEF FilesFrom
  <2>2. Target(F, p, vs) = [id \in DOMAIN G |-> [rows |-> Target(F, p, vs)[id].rows, deleted |-> Target(F, p, vs)[id].deleted]]
    BY DEF Target, Marked, G
  <2>3. \A id \in DOMAIN G :
          [rows |-> FilesFrom(D2, V2)[id].rows, deleted |-> FilesFrom(D2, V2)[id].deleted]
            = [rows |-> Target(F, p, vs)[id].rows, deleted |-> Target(F, p, vs)[id].deleted]
    BY <1>18, <1>19 DEF IsMarked
  <2> HIDE DEF G
  <2>4. [id \in DOMAIN G |-> [rows |-> FilesFrom(D2, V2)[id].rows, deleted |-> FilesFrom(D2, V2)[id].deleted]]
          = [id \in DOMAIN G |-> [rows |-> Target(F, p, vs)[id].rows, deleted |-> Target(F, p, vs)[id].deleted]]
    BY <2>3
  <2> QED BY <2>1, <2>2, <2>4
<1> QED BY <1>17, <1>20 DEF D2, V2, F, Shows

(* A commit made once more, after its answer was lost, shows the same files *)
LEMMA CommitAgain ==
  ASSUME NEW D, NEW V, NEW D1, NEW V1, NEW p, NEW u, NEW s1, NEW s2, NEW F,
         IsFiniteSet(p.new),
         \A f \in p.new : f.id \notin p.oldFiles,
         D1 = NewData(D, p.new, s1, p.oldFiles), V1 = NewVectors(V, u), Shows(D1, V1, F)
  PROVE  Shows(NewData(D1, p.new, s2, p.oldFiles), NewVectors(V1, u), F)
<1> DEFINE N2 == {DataEntry(f, s2) : f \in p.new}
           D2 == NewData(D1, p.new, s2, p.oldFiles)
<1>1. NewVectors(V1, u) = V1
  BY DEF NewVectors
<1>3. \A e \in N2 : \E f \in p.new : e.id = f.id /\ e.rows = f.rows
  BY DEF DataEntry
<1>4. \A f \in p.new : \E e \in D1 : e.id = f.id /\ e.rows = f.rows
  <2> SUFFICES ASSUME NEW f \in p.new PROVE \E e \in D1 : e.id = f.id /\ e.rows = f.rows
    OBVIOUS
  <2>1. DataEntry(f, s1).id = f.id /\ DataEntry(f, s1).rows = f.rows
    BY DEF DataEntry
  <2>2. DataEntry(f, s1) \in D1
    BY <2>1 DEF NewData
  <2> QED BY <2>1, <2>2
<1>5. D2 = D1 \cup N2
  <2>1. \A e \in N2 : e.id \notin p.oldFiles
    BY <1>3
  <2> QED BY <2>1 DEF NewData
<1>6. IsFiniteSet(D2)
  <2>1. IsFiniteSet(N2)
    <3> DEFINE E == [f \in p.new |-> DataEntry(f, s2)]
    <3>1. E \in Surjection(p.new, N2)
      BY DEF Surjection
    <3> QED BY <3>1, FS_Surjection
  <2>2. IsFiniteSet(D1)
    BY DEF Shows, EntriesOK
  <2> HIDE DEF N2
  <2> QED BY <1>5, <2>1, <2>2, FS_Union
<1>7. EntriesOK(D1, V1)
  BY DEF Shows
<1> HIDE DEF N2, D2
<1>8. \A e \in D2 : \E d \in D1 : d.id = e.id /\ d.rows = e.rows
  BY <1>3, <1>4, <1>5
<1>9. EntriesOK(D2, V1)
  BY <1>5, <1>6, <1>7, <1>8 DEF EntriesOK
<1>10. {e.id : e \in D2} = {e.id : e \in D1}
  <2>1. \A e \in D2 : e.id \in {d.id : d \in D1}
    BY <1>8
  <2>2. \A d \in D1 : d.id \in {e.id : e \in D2}
    BY <1>5
  <2> QED BY <2>1, <2>2
<1>11. ASSUME NEW id \in {e.id : e \in D1}
       PROVE  (CHOOSE e \in D2 : e.id = id).rows = (CHOOSE e \in D1 : e.id = id).rows
  <2>1. PICK d \in D1 : d.id = id
    OBVIOUS
  <2>2. d \in D2
    BY <1>5
  <2>3. (CHOOSE e \in D1 : e.id = id).rows = d.rows
    BY <2>1, <1>7 DEF EntriesOK
  <2>4. (CHOOSE e \in D2 : e.id = id).rows = d.rows
    BY <2>1, <2>2, <1>9 DEF EntriesOK
  <2> QED BY <2>3, <2>4
<1>12. FilesFrom(D2, V1) = FilesFrom(D1, V1)
  BY <1>10, <1>11 DEF FilesFrom
<1> QED BY <1>1, <1>9, <1>12 DEF D2, Shows

LEMMA EntriesOfUnion ==
  ASSUME NEW A, NEW B, NEW kind
  PROVE  Entries(A \cup B, kind) = Entries(A, kind) \cup Entries(B, kind)
BY DEF Entries

LEMMA EntriesOfEmitted ==
  ASSUME NEW E, NEW k, NEW kind
  PROVE  Entries(Emitted(k, E), kind) = IF k = kind THEN E ELSE {}
<1>1. CASE E = {}
  BY <1>1 DEF Entries, Emitted
<1>2. CASE E # {}
  <2>1. Emitted(k, E) = {Manifest(k, E)} /\ Manifest(k, E).kind = k /\ Manifest(k, E).entries = E
    BY <1>2 DEF Emitted, Manifest
  <2> HIDE DEF Manifest
  <2>2. CASE k = kind
    <3>1. {n \in Emitted(k, E) : n.kind = kind} = {Manifest(k, E)}
      BY <2>1, <2>2
    <3> QED BY <2>1, <2>2, <3>1 DEF Entries
  <2>3. CASE k # kind
    <3>1. {n \in Emitted(k, E) : n.kind = kind} = {}
      BY <2>1, <2>3
    <3> QED BY <2>3, <3>1 DEF Entries
  <2> QED BY <2>2, <2>3
<1> QED BY <1>1, <1>2

LEMMA EntriesUntouched ==
  ASSUME NEW list, NEW u, NEW kind
  PROVE  Entries({m \in list : Untouched(m.kind, u)}, kind) = IF Untouched(kind, u) THEN Entries(list, kind) ELSE {}
<1> DEFINE A == {m \in list : Untouched(m.kind, u)}
<1>1. CASE Untouched(kind, u)
  <2>1. {n \in A : n.kind = kind} = {n \in list : n.kind = kind}
    BY <1>1
  <2> QED BY <1>1, <2>1 DEF Entries
<1>2. CASE ~Untouched(kind, u)
  <2>1. {n \in A : n.kind = kind} = {}
    BY <1>2
  <2> QED BY <1>2, <2>1 DEF Entries
<1> QED BY <1>1, <1>2

LEMMA DivisionBelow ==
  ASSUME NEW c \in Nat, NEW m \in Nat \ {0}, c < m
  PROVE  c \div m = 0
OBVIOUS

(* A rewriting that one manifest takes keeps every data file that stays *)
LEMMA RewriteKeepsAll ==
  ASSUME NEW list, NEW u, IsFiniteSet(DataFiles(list)),
         \A e \in DataFiles(list) : e.id \in Nat,
         Cardinality({e \in DataFiles(list) : e.id \notin u.oldFiles}) < MaxManifestEntries
  PROVE  RewrittenData(list, u) = {e \in DataFiles(list) : e.id \notin u.oldFiles}
<1> DEFINE kept == {e \in DataFiles(list) : e.id \notin u.oldFiles}
           full == (Cardinality(kept) \div MaxManifestEntries) * MaxManifestEntries
<1>1. IsFiniteSet(kept) /\ Cardinality(kept) \in Nat
  BY FS_Subset, FS_CardinalityType
<1>2. full = 0
  <2>1. Cardinality(kept) \div MaxManifestEntries = 0
    BY <1>1, MaxManifestEntriesAssumption, DivisionBelow
  <2> QED BY <2>1, MaxManifestEntriesAssumption
<1>3. ASSUME NEW e \in kept PROVE Cardinality({d \in kept : NotAfter(d, e)}) > full
  <2> DEFINE before == {d \in kept : NotAfter(d, e)}
  <2>1. e \in before
    BY DEF NotAfter
  <2>2. IsFiniteSet(before)
    BY <1>1, FS_Subset
  <2>3. Cardinality(before) \in Nat /\ Cardinality(before) # 0
    BY <2>1, <2>2, FS_CardinalityType, FS_EmptySet
  <2> QED BY <1>2, <2>3
<1>4. RewrittenData(list, u) = {e \in kept : Cardinality({d \in kept : NotAfter(d, e)}) > full}
  BY DEF RewrittenData
<1> HIDE DEF kept, full
<1>5. RewrittenData(list, u) = kept
  BY <1>3, <1>4
<1> QED BY <1>5 DEF kept

(* The indices of rewritten entries are those the manager works out, and    *)
(* entries of new indices beside entries that are one each are so too       *)
LEMMA ViewOfEntries ==
  ASSUME NEW E, NEW u, NEW snap, \A x \in u.indices : x = Index(x.puffin, x.files)
  PROVE  IndexView(NewEntries(E, u, snap)) = NewIndices(IndexView(E), u)
<1> DEFINE N == NewEntries(E, u, snap)
<1>1. \A x \in u.indices : /\ IndexEntry(x, snap).puffin = x.puffin
                           /\ Index(IndexEntry(x, snap).puffin, IndexEntry(x, snap).files) = x
  BY DEF IndexEntry, Index
<1>2. \A x \in E : Index(x.puffin, x.files).puffin = x.puffin
  BY DEF Index
<1>3. \A x \in N : Index(x.puffin, x.files) \in NewIndices(IndexView(E), u)
  BY <1>1, <1>2 DEF NewEntries, NewIndices, IndexView
<1>4. \A y \in NewIndices(IndexView(E), u) : \E x \in N : y = Index(x.puffin, x.files)
  BY <1>1, <1>2 DEF NewEntries, NewIndices, IndexView
<1> HIDE DEF N
<1> QED BY <1>3, <1>4, Zenon DEF IndexView, N

LEMMA EntriesStayOne ==
  ASSUME NEW E, NEW u, NEW snap, \A x, y \in E : x.puffin = y.puffin => x = y,
         \A x, y \in u.indices : x.puffin = y.puffin => x = y,
         \A x \in u.indices, y \in IndexView(E) : x.puffin # y.puffin
  PROVE  \A x, y \in NewEntries(E, u, snap) : x.puffin = y.puffin => x = y
<1>1. \A x \in u.indices, y \in E : x.puffin # y.puffin
  <2> SUFFICES ASSUME NEW x \in u.indices, NEW y \in E PROVE x.puffin # y.puffin
    OBVIOUS
  <2>1. Index(y.puffin, y.files) \in IndexView(E) /\ Index(y.puffin, y.files).puffin = y.puffin
    BY DEF IndexView, Index
  <2> QED BY <2>1
<1>2. \A x \in u.indices : IndexEntry(x, snap).puffin = x.puffin
  BY DEF IndexEntry
<1> QED BY <1>1, <1>2 DEF NewEntries

(* The manifest list that append_puffin_metadata_and_rewrite writes *)
LEMMA RewriteEntries ==
  ASSUME NEW list, NEW u, NEW snap, Manifests(list), IsFiniteSet(DataFiles(list)),
         \A e \in DataFiles(list) : e.id \in Nat,
         u.oldFiles # {} =>
           Cardinality({e \in DataFiles(list) : e.id \notin u.oldFiles}) < MaxManifestEntries
  PROVE  LET new == AppendPuffinAndRewrite(list, u, snap)
         IN  /\ Manifests(new)
             /\ DataFiles(new) = {e \in DataFiles(list) : e.id \notin u.oldFiles}
             /\ Entries(new, "vector") = NewVectors(Entries(list, "vector"), u)
             /\ Entries(new, "index") = NewEntries(Entries(list, "index"), u, snap)
<1> DEFINE new == AppendPuffinAndRewrite(list, u, snap)
           same == {m \in list : Untouched(m.kind, u)}
           d == IF Untouched("data", u) THEN {} ELSE Emitted("data", RewrittenData(list, u))
           v == IF Untouched("vector", u) THEN {} ELSE Emitted("vector", RewrittenVectors(list, u))
           x == IF Untouched("index", u) THEN {} ELSE Emitted("index", RewrittenIndices(list, u, snap))
<1>1. CASE u = NoUpdates
  <2>1. new = list
    BY <1>1 DEF AppendPuffinAndRewrite
  <2>2. u.oldFiles = {} /\ u.vectors = {} /\ u.indices = {} /\ u.oldIndices = {}
    BY <1>1 DEF NoUpdates
  <2> HIDE DEF new
  <2>3. DataFiles(list) = {e \in DataFiles(list) : e.id \notin u.oldFiles}
    BY <2>2
  <2>4. NewVectors(Entries(list, "vector"), u) = Entries(list, "vector")
    BY <2>2 DEF NewVectors
  <2>5. NewEntries(Entries(list, "index"), u, snap) = Entries(list, "index")
    BY <2>2 DEF NewEntries
  <2> QED BY <2>1, <2>3, <2>4, <2>5 DEF new
<1>2. CASE u # NoUpdates
  <2>1. new = same \cup d \cup v \cup x
    BY <1>2 DEF AppendPuffinAndRewrite
  <2>2. \A E : \A k \in {"data", "vector", "index"} :
          \A m \in Emitted(k, E) : m.kind \in {"data", "vector", "index"} /\ m.entries # {}
    BY DEF Emitted, Manifest
  <2>3. Manifests(new)
    BY <2>1, <2>2 DEF Manifests
  <2> HIDE DEF new
  <2>4. ASSUME NEW k
        PROVE  Entries(new, k) = Entries(same, k) \cup Entries(d, k) \cup Entries(v, k) \cup Entries(x, k)
    <3> HIDE DEF same, d, v, x
    <3>1. Entries(new, k) = Entries(same \cup d \cup v, k) \cup Entries(x, k)
      BY <2>1, EntriesOfUnion
    <3>2. Entries(same \cup d \cup v, k) = Entries(same \cup d, k) \cup Entries(v, k)
      BY EntriesOfUnion
    <3>3. Entries(same \cup d, k) = Entries(same, k) \cup Entries(d, k)
      BY EntriesOfUnion
    <3> QED BY <3>1, <3>2, <3>3
  <2>5. ASSUME NEW k PROVE Entries({}, k) = {}
    BY DEF Entries
  <2>6. DataFiles(new) = {e \in DataFiles(list) : e.id \notin u.oldFiles}
    <3>1. Entries(v, "data") = {} /\ Entries(x, "data") = {}
      BY <2>5, EntriesOfEmitted
    <3>2. CASE u.oldFiles = {}
      <4>1. Untouched("data", u)
        BY <3>2 DEF Untouched
      <4>2. Entries(same, "data") = Entries(list, "data") /\ Entries(d, "data") = {}
        BY <4>1, <2>5, EntriesUntouched
      <4> QED BY <2>4, <3>1, <3>2, <4>2 DEF DataFiles
    <3>3. CASE u.oldFiles # {}
      <4>1. ~Untouched("data", u)
        BY <3>3 DEF Untouched
      <4>2. Entries(same, "data") = {} /\ Entries(d, "data") = RewrittenData(list, u)
        BY <4>1, EntriesUntouched, EntriesOfEmitted
      <4>3. RewrittenData(list, u) = {e \in DataFiles(list) : e.id \notin u.oldFiles}
        BY <3>3, RewriteKeepsAll
      <4> QED BY <2>4, <3>1, <4>2, <4>3 DEF DataFiles
    <3> QED BY <3>2, <3>3
  <2>7. Entries(new, "vector") = NewVectors(Entries(list, "vector"), u)
    <3>1. Entries(d, "vector") = {} /\ Entries(x, "vector") = {}
      BY <2>5, EntriesOfEmitted
    <3>2. CASE Untouched("vector", u)
      <4>1. Entries(same, "vector") = Entries(list, "vector") /\ Entries(v, "vector") = {}
        BY <3>2, <2>5, EntriesUntouched
      <4>2. NewVectors(Entries(list, "vector"), u) = Entries(list, "vector")
        BY <3>2 DEF Untouched, NewVectors
      <4> QED BY <2>4, <3>1, <4>1, <4>2
    <3>3. CASE ~Untouched("vector", u)
      <4>1. Entries(same, "vector") = {} /\ Entries(v, "vector") = RewrittenVectors(list, u)
        BY <3>3, EntriesUntouched, EntriesOfEmitted
      <4> QED BY <2>4, <3>1, <4>1 DEF RewrittenVectors, NewVectors
    <3> QED BY <3>2, <3>3
  <2>8. Entries(new, "index") = NewEntries(Entries(list, "index"), u, snap)
    <3>1. Entries(d, "index") = {} /\ Entries(v, "index") = {}
      BY <2>5, EntriesOfEmitted
    <3>2. CASE Untouched("index", u)
      <4>1. Entries(same, "index") = Entries(list, "index") /\ Entries(x, "index") = {}
        BY <3>2, <2>5, EntriesUntouched
      <4>2. NewEntries(Entries(list, "index"), u, snap) = Entries(list, "index")
        BY <3>2 DEF Untouched, NewEntries
      <4> QED BY <2>4, <3>1, <4>1, <4>2
    <3>3. CASE ~Untouched("index", u)
      <4>1. Entries(same, "index") = {} /\ Entries(x, "index") = RewrittenIndices(list, u, snap)
        BY <3>3, EntriesUntouched, EntriesOfEmitted
      <4> QED BY <2>4, <3>1, <4>1 DEF RewrittenIndices, NewEntries
    <3> QED BY <3>2, <3>3
  <2> QED BY <2>3, <2>6, <2>7, <2>8 DEF new
<1> QED BY <1>1, <1>2

-----------------------------------------------------------------------------
(* What a payload over the files F, below n, is made of *)
FilesPlan(F, p, n) ==
  /\ p.oldFiles \subseteq DOMAIN F
  /\ \A f \in p.new : f.id \in n .. n + 2 /\ f.rows \subseteq RowsBelow(n + 3)
  /\ \A f, g \in p.new : f.id = g.id => f = g
  /\ p.compacted \subseteq p.new
  /\ \A f \in p.new \ p.compacted : f.rows \subseteq p.add /\ f.rows \cap RowsBelow(n) = {}
  /\ \A f, g \in p.new \ p.compacted : f = g
  /\ \A f, g \in p.compacted : f = g
  /\ \A r \in p.add : \E f \in p.new \ p.compacted : r \in f.rows
  /\ \A f \in p.compacted : \A r \in f.rows : \E id \in p.oldFiles : r \in F[id].rows
  /\ \A id \in p.oldFiles : \A r \in F[id].rows \ F[id].deleted : \E f \in p.compacted : r \in f.rows
  /\ p.del \subseteq Live(F) \cup p.add
  /\ p.vectors = VectorsFor(p.del, F, p.new)

(* The files that are left, and what is on them *)
LEMMA PlannedFiles ==
  ASSUME NEW F, NEW n \in Nat, NEW p, SoundFiles(F, n), FilesPlan(F, p, n)
  PROVE  /\ Fresh(F, p)
         /\ \A f, g \in p.new : f # g => f.rows \cap g.rows = {}
         /\ \A f \in p.new, id \in DOMAIN F \ p.oldFiles : f.rows \cap F[id].rows = {}
<1>1. Fresh(F, p)
  BY DEF Fresh, SoundFiles, FilesPlan
<1>2. \A f \in p.compacted : f.rows \subseteq RowsBelow(n)
  BY DEF SoundFiles, FilesPlan
<1>3. \A f, g \in p.new : f # g => f.rows \cap g.rows = {}
  BY <1>2 DEF FilesPlan
<1>4. \A f \in p.new, id \in DOMAIN F \ p.oldFiles : f.rows \cap F[id].rows = {}
  <2> SUFFICES ASSUME NEW f \in p.new, NEW id \in DOMAIN F \ p.oldFiles, NEW r \in f.rows, r \in F[id].rows
               PROVE  FALSE
    OBVIOUS
  <2>1. r \in RowsBelow(n)
    BY DEF SoundFiles
  <2>2. f \in p.compacted
    BY <2>1 DEF FilesPlan
  <2>3. PICK o \in p.oldFiles : r \in F[o].rows
    BY <2>2 DEF FilesPlan
  <2> QED BY <2>3 DEF SoundFiles, FilesPlan
<1> QED BY <1>1, <1>3, <1>4

(* A deletion is recorded on the one file that has the row *)
Located(F, G, p) ==
  /\ \A r \in p.del : FileOf(r, F, p.new) \in DOMAIN G /\ r \in G[FileOf(r, F, p.new)].rows
  /\ \A id \in DOMAIN G : \A r \in G[id].rows \cap p.del : FileOf(r, F, p.new) = id

LEMMA DeletionsLocated ==
  ASSUME NEW F, NEW n \in Nat, NEW p, SoundFiles(F, n), FilesPlan(F, p, n)
  PROVE  Located(F, Synced(F, p), p)
<1> DEFINE G == Synced(F, p)
           Home(r) == FileOf(r, F, p.new)
<1>1. IsSynced(G, F, p)
  BY PlannedFiles, SyncedAt
<1> HIDE DEF G
<1>2. \A f \in p.new : f.id \in DOMAIN G /\ G[f.id].rows = f.rows
  BY <1>1, PlannedFiles DEF IsSynced, Fresh
<1>3. \A id \in DOMAIN F \ p.oldFiles : id \in DOMAIN G /\ G[id].rows = F[id].rows
  BY <1>1 DEF IsSynced
<1>4. ASSUME NEW f \in p.new, NEW r \in f.rows PROVE Home(r) = f.id
  <2>1. (CHOOSE g \in p.new : r \in g.rows) = f
    BY PlannedFiles
  <2> QED BY <2>1 DEF FileOf
<1>5. ASSUME NEW id \in DOMAIN F \ p.oldFiles, NEW r \in F[id].rows PROVE Home(r) = id
  <2>1. ~\E f \in p.new : r \in f.rows
    BY PlannedFiles
  <2>2. (CHOOSE i \in DOMAIN F : r \in F[i].rows) = id
    BY DEF SoundFiles
  <2> QED BY <2>1, <2>2 DEF FileOf
<1>6. ASSUME NEW r \in p.del PROVE Home(r) \in DOMAIN G /\ r \in G[Home(r)].rows
  <2>1. CASE \E f \in p.new : r \in f.rows
    BY <2>1, <1>2, <1>4
  <2>2. CASE ~\E f \in p.new : r \in f.rows
    <3>1. r \in Live(F)
      BY <2>2 DEF FilesPlan
    <3>2. PICK id \in DOMAIN F : r \in F[id].rows \ F[id].deleted
      BY <3>1 DEF Live
    <3>3. id \notin p.oldFiles
      BY <2>2, <3>2 DEF FilesPlan
    <3> QED BY <3>2, <3>3, <1>3, <1>5
  <2> QED BY <2>1, <2>2
<1>7. ASSUME NEW id \in DOMAIN G, NEW r \in G[id].rows PROVE Home(r) = id
  <2>1. CASE id \in DOMAIN F \ p.oldFiles
    BY <2>1, <1>3, <1>5
  <2>2. CASE id \notin DOMAIN F \ p.oldFiles
    <3>1. PICK f \in p.new : f.id = id
      BY <2>2, <1>1 DEF IsSynced
    <3> QED BY <3>1, <1>2, <1>4
  <2> QED BY <2>1, <2>2
<1> QED BY <1>6, <1>7 DEF Located, G

(* The vectors that go to storage: one per file, and which rows they hold *)
VectorsPlan(vs, F, G, p) ==
  /\ OnePerFile(vs)
  /\ \A v \in vs : v.file \in DOMAIN G
  /\ \A id \in DOMAIN G :
       RowsOn(vs, id) = {r \in p.del : FileOf(r, F, p.new) = id}
                          \cup {r \in G[id].rows : /\ \E f \in p.compacted : f.id = id
                                                   /\ \E o \in p.oldFiles : r \in F[o].deleted}

LEMMA VectorsPlanned ==
  ASSUME NEW F, NEW n \in Nat, NEW p, SoundFiles(F, n), FilesPlan(F, p, n)
  PROVE  VectorsPlan(VectorsOf(F, p), F, Synced(F, p), p)
<1> DEFINE G  == Synced(F, p)
           W  == p.vectors \cup RemappedDeletions(F, p)
           vs == VectorsOf(F, p)
<1>1. Located(F, G, p) /\ IsSynced(G, F, p)
  BY PlannedFiles, SyncedAt, DeletionsLocated
<1> HIDE DEF G
<1>2. vs = {[file |-> id, rows |-> RowsOn(W, id)] : id \in {v.file : v \in {w \in W : w.rows # {}}}}
  BY DEF VectorsOf, MergedVectors, RowsOn
<1>13. \A v \in vs : v = [file |-> v.file, rows |-> RowsOn(W, v.file)]
  <2> SUFFICES ASSUME NEW v \in vs PROVE v = [file |-> v.file, rows |-> RowsOn(W, v.file)]
    OBVIOUS
  <2>1. PICK i : v = [file |-> i, rows |-> RowsOn(W, i)]
    BY <1>2
  <2> HIDE DEF W, vs
  <2>2. v.file = i
    BY <2>1
  <2> QED BY <2>1, <2>2
<1>3. \A w \in p.vectors : \E r \in p.del : w.file = FileOf(r, F, p.new)
  BY DEF FilesPlan, VectorsFor
<1>4. \A w \in RemappedDeletions(F, p) : \E f \in p.compacted :
         w.file = f.id /\ w.rows = f.rows \cap UNION {F[o].deleted : o \in p.oldFiles}
  BY DEF RemappedDeletions
<1>5. \A w \in W : w.file \in DOMAIN G
  <2>1. \A f \in p.compacted : f.id \in DOMAIN G
    BY <1>1, PlannedFiles DEF IsSynced, Fresh, FilesPlan
  <2> QED BY <1>1, <1>3, <1>4, <2>1 DEF Located
<1>6. ASSUME NEW id PROVE RowsOn(vs, id) = RowsOn(W, id)
  <2>1. CASE \E w \in W : w.file = id /\ w.rows # {}
    <3> DEFINE y == [file |-> id, rows |-> RowsOn(W, id)]
    <3>1. y \in vs /\ y.file = id /\ y.rows = RowsOn(W, id)
      BY <1>2, <2>1
    <3>2. \A v \in vs : v.file = id => v = y
      BY <1>13
    <3> HIDE DEF y, vs, W
    <3>3. {v \in vs : v.file = id} = {y}
      BY <3>1, <3>2
    <3> QED BY <3>1, <3>3 DEF RowsOn
  <2>2. CASE ~\E w \in W : w.file = id /\ w.rows # {}
    <3>1. RowsOn(W, id) = {}
      BY <2>2 DEF RowsOn
    <3>2. ~\E v \in vs : v.file = id
      BY <1>2, <2>2
    <3>3. RowsOn(vs, id) = {}
      BY <3>2 DEF RowsOn
    <3> QED BY <3>1, <3>3
  <2> QED BY <2>1, <2>2
<1>7. ASSUME NEW id PROVE RowsOn(W, id) = RowsOn(p.vectors, id) \cup RowsOn(RemappedDeletions(F, p), id)
  BY DEF RowsOn
<1>8. ASSUME NEW id PROVE RowsOn(p.vectors, id) = {r \in p.del : FileOf(r, F, p.new) = id}
  <2> DEFINE here == {r \in p.del : FileOf(r, F, p.new) = id}
  <2>1. \A w \in p.vectors : w.file = id => w.rows = here
    BY DEF FilesPlan, VectorsFor
  <2>2. \A r \in here : \E w \in p.vectors : w.file = id
    <3> SUFFICES ASSUME NEW r \in here PROVE [file |-> id, rows |-> here] \in p.vectors
      OBVIOUS
    <3>1. FileOf(r, F, p.new) = id /\ r \in p.del
      OBVIOUS
    <3>2. id \in {FileOf(q, F, p.new) : q \in p.del}
      BY <3>1
    <3>3. p.vectors = {[file |-> i, rows |-> {q \in p.del : FileOf(q, F, p.new) = i}] :
                         i \in {FileOf(q, F, p.new) : q \in p.del}}
      BY DEF FilesPlan, VectorsFor
    <3> QED BY <3>2, <3>3
  <2> HIDE DEF here
  <2> QED BY <2>1, <2>2 DEF RowsOn, here
<1>9. ASSUME NEW id \in DOMAIN G
      PROVE  RowsOn(RemappedDeletions(F, p), id)
               = {r \in G[id].rows : (\E f \in p.compacted : f.id = id) /\ \E o \in p.oldFiles : r \in F[o].deleted}
  <2>1. \A f \in p.compacted : f.id = id => G[id].rows = f.rows
    BY <1>1 DEF IsSynced, FilesPlan
  <2>2. \A w \in RemappedDeletions(F, p) : w.file = id =>
          w.rows = {r \in G[id].rows : \E o \in p.oldFiles : r \in F[o].deleted}
    BY <1>4, <2>1
  <2>3. \A w \in RemappedDeletions(F, p) : w.file = id => \E f \in p.compacted : f.id = id
    BY <1>4
  <2>4. ASSUME NEW f \in p.compacted, f.id = id PROVE \E w \in RemappedDeletions(F, p) : w.file = id
    <3>1. [file |-> f.id, rows |-> f.rows \cap UNION {F[o].deleted : o \in p.oldFiles}] \in RemappedDeletions(F, p)
      BY DEF RemappedDeletions
    <3> QED BY <2>4, <3>1
  <2> QED BY <2>2, <2>3, <2>4 DEF RowsOn
<1>10. OnePerFile(vs)
  <2> HIDE DEF vs, W
  <2> QED BY <1>13 DEF OnePerFile
<1>11. \A v \in vs : v.file \in DOMAIN G
  BY <1>2, <1>5
<1> HIDE DEF vs, W
<1>12. VectorsPlan(vs, F, G, p)
  BY <1>6, <1>7, <1>8, <1>9, <1>10, <1>11 DEF VectorsPlan
<1> QED BY <1>12 DEF vs, G

LEMMA RowsBelowGrows ==
  ASSUME NEW n \in Nat, NEW m \in Nat, n <= m
  PROVE  RowsBelow(n) \subseteq RowsBelow(m)
BY DEF RowsBelow

(* A snapshot changes the rows as its payload says, and keeps the files sound *)
LEMMA PlannedRows ==
  ASSUME NEW F, NEW n \in Nat, NEW p, SoundFiles(F, n), FilesPlan(F, p, n)
  PROVE  LET T == Target(F, p, VectorsOf(F, p))
         IN  /\ DOMAIN T = DOMAIN Synced(F, p)
             /\ SoundFiles(T, n + 3)
             /\ Live(T) = (Live(F) \cup p.add) \ p.del
<1> DEFINE G  == Synced(F, p)
           vs == VectorsOf(F, p)
           T  == Target(F, p, vs)
           Home(r) == FileOf(r, F, p.new)
           remap(id) == {r \in G[id].rows : (\E f \in p.compacted : f.id = id) /\ \E o \in p.oldFiles : r \in F[o].deleted}
<1>1. Located(F, G, p) /\ IsSynced(G, F, p) /\ VectorsPlan(vs, F, G, p)
  BY PlannedFiles, SyncedAt, DeletionsLocated, VectorsPlanned
<1>2. IsMarked(T, G, vs)
  BY <1>1, MarkedAt DEF Target, VectorsPlan
<1> HIDE DEF G, vs, T, Home
<1>3. \A id \in DOMAIN G :
        T[id].rows = G[id].rows /\ T[id].deleted = G[id].deleted \cup {r \in p.del : Home(r) = id} \cup remap(id)
  BY <1>1, <1>2 DEF IsMarked, VectorsPlan, Home
<1>4. DOMAIN T = DOMAIN G
  BY <1>2 DEF IsMarked
<1> HIDE DEF remap
<1>5. \A id \in DOMAIN F \ p.oldFiles :
         id \in DOMAIN G /\ G[id].rows = F[id].rows /\ G[id].deleted = F[id].deleted /\ remap(id) = {}
  BY <1>1, PlannedFiles DEF IsSynced, remap, Fresh, FilesPlan
<1>6. \A f \in p.new : f.id \in DOMAIN G /\ G[f.id].rows = f.rows /\ G[f.id].deleted = {}
  BY <1>1, PlannedFiles DEF IsSynced, Fresh
<1>7. \A f \in p.new \ p.compacted : remap(f.id) = {}
  BY DEF FilesPlan, remap
<1>8. \A f \in p.compacted : remap(f.id) = {r \in f.rows : \E o \in p.oldFiles : r \in F[o].deleted}
  BY <1>6 DEF FilesPlan, remap
<1>9. \A id \in DOMAIN G : id \in DOMAIN F \ p.oldFiles \/ \E f \in p.new : f.id = id
  BY <1>1 DEF IsSynced
<1>10. \A id \in DOMAIN G : remap(id) \subseteq G[id].rows
  BY DEF remap
<1>11. \A id \in DOMAIN G : {r \in p.del : Home(r) = id} \subseteq G[id].rows
  BY <1>1 DEF Located, Home
<1>12. SoundFiles(T, n + 3)
  <2>1. DOMAIN T \subseteq 0 .. (n + 3) - 1
    BY <1>4, <1>9 DEF SoundFiles, FilesPlan
  <2>2. ASSUME NEW id \in DOMAIN T
        PROVE  T[id].rows \subseteq RowsBelow(n + 3) /\ T[id].deleted \subseteq T[id].rows
    <3>1. CASE id \in DOMAIN F \ p.oldFiles
      BY <3>1, <1>3, <1>4, <1>5, <1>11, RowsBelowGrows DEF SoundFiles
    <3>2. CASE \E f \in p.new : f.id = id
      BY <3>2, <1>3, <1>4, <1>6, <1>10, <1>11 DEF FilesPlan
    <3> QED BY <3>1, <3>2, <1>4, <1>9
  <2>3. ASSUME NEW i \in DOMAIN T, NEW j \in DOMAIN T, i # j PROVE T[i].rows \cap T[j].rows = {}
    <3>1. G[i].rows \cap G[j].rows = {}
      BY <2>3, <1>4, <1>5, <1>6, <1>9, PlannedFiles DEF SoundFiles
    <3> QED BY <3>1, <1>3, <1>4
  <2> QED BY <2>1, <2>2, <2>3 DEF SoundFiles
<1>13. ASSUME NEW r \in Live(T) PROVE r \in (Live(F) \cup p.add) \ p.del
  <2>1. PICK id \in DOMAIN G : r \in G[id].rows /\ r \notin T[id].deleted
    BY <1>3, <1>4 DEF Live
  <2>2. r \notin p.del
    BY <2>1, <1>1, <1>3 DEF Located, Home
  <2>3. CASE id \in DOMAIN F \ p.oldFiles
    BY <2>1, <2>2, <2>3, <1>3, <1>5 DEF Live
  <2>4. CASE \E f \in p.new : f.id = id
    <3>1. PICK f \in p.new : f.id = id
      BY <2>4
    <3>2. CASE f \in p.compacted
      <4>1. PICK o \in p.oldFiles : r \in F[o].rows
        BY <3>1, <3>2, <2>1, <1>6 DEF FilesPlan
      <4>2. r \notin F[o].deleted
        BY <3>1, <3>2, <2>1, <1>3, <1>6, <1>8
      <4> QED BY <4>1, <4>2, <2>2 DEF Live, FilesPlan
    <3>3. CASE f \notin p.compacted
      BY <3>1, <3>3, <2>1, <2>2, <1>6 DEF FilesPlan
    <3> QED BY <3>2, <3>3
  <2> QED BY <2>3, <2>4, <1>9
<1>14. ASSUME NEW r \in (Live(F) \cup p.add) \ p.del PROVE r \in Live(T)
  <2> SUFFICES \E id \in DOMAIN G : r \in G[id].rows /\ r \notin G[id].deleted /\ r \notin remap(id)
    BY <1>3, <1>4 DEF Live
  <2>1. CASE r \in p.add
    BY <2>1, <1>6, <1>7 DEF FilesPlan
  <2>2. CASE r \in Live(F)
    <3>1. PICK id \in DOMAIN F : r \in F[id].rows /\ r \notin F[id].deleted
      BY <2>2 DEF Live
    <3>2. CASE id \notin p.oldFiles
      BY <3>1, <3>2, <1>5
    <3>3. CASE id \in p.oldFiles
      <4>1. PICK f \in p.compacted : r \in f.rows
        BY <3>1, <3>3 DEF FilesPlan
      <4>2. \A o \in p.oldFiles : r \notin F[o].deleted
        BY <3>1 DEF SoundFiles, FilesPlan
      <4> QED BY <4>1, <4>2, <1>6, <1>8 DEF FilesPlan
    <3> QED BY <3>2, <3>3
  <2> QED BY <2>1, <2>2
<1> QED BY <1>4, <1>12, <1>13, <1>14 DEF T, G, vs

(* A payload's indices: those of the files that go are gone, every new file *)
(* has one of its own                                                       *)
LEMMA PlannedIndices ==
  ASSUME NEW F, NEW X, NEW n \in Nat, NEW p, NEW T, NEW gone \in SUBSET X,
         SoundFiles(F, n), SoundIndices(F, X, n), FilesPlan(F, p, n),
         DOMAIN T = DOMAIN Synced(F, p),
         p.indices = {IndexOf(f) : f \in p.new},
         p.oldIndices = {x.puffin : x \in gone},
         \A x \in gone : x.files \subseteq p.oldFiles,
         \A x \in X \ gone : x.files \cap p.oldFiles = {}
  PROVE  SoundIndices(T, NewIndices(X, p), n + 3)
<1> DEFINE Y == NewIndices(X, p)
<1>1. IsSynced(Synced(F, p), F, p)
  BY PlannedFiles, SyncedAt
<1>2. \A x \in Y : x \in X \ gone \/ \E f \in p.new : x = [puffin |-> f.id, files |-> {f.id}]
  BY DEF NewIndices, IndexOf, Index
<1>3. X \ gone \subseteq Y
  BY DEF NewIndices, SoundIndices
<1>4. \A f \in p.new : [puffin |-> f.id, files |-> {f.id}] \in Y
  BY DEF NewIndices, IndexOf, Index
<1> HIDE DEF Y
<1>5. \A x \in X : x.puffin \in 0 .. n - 1 /\ x.files \subseteq DOMAIN F
  BY DEF SoundIndices
<1>6. \A f \in p.new : f.id \in n .. n + 2 /\ f.id \notin DOMAIN F
  BY DEF SoundFiles, FilesPlan
<1>7. \A id : id \in DOMAIN T <=> (id \in DOMAIN F \/ \E f \in p.new : f.id = id) /\ id \notin p.oldFiles
  BY <1>1 DEF IsSynced
<1>8. \A f \in p.new : f.id \notin p.oldFiles
  BY <1>6 DEF FilesPlan
<1>9. ASSUME NEW x \in Y PROVE x.puffin \in 0 .. (n + 3) - 1 /\ x.files \subseteq DOMAIN T
  BY <1>2, <1>5, <1>6, <1>7, <1>8
<1>10. ASSUME NEW x \in Y, NEW y \in Y, x.puffin = y.puffin PROVE x = y
  <2>1. CASE x \in X /\ y \in X
    BY <2>1, <1>10 DEF SoundIndices
  <2>2. ASSUME NEW z \in Y, z \notin X PROVE z = [puffin |-> z.puffin, files |-> {z.puffin}] /\ z.puffin \in n .. n + 2
    <3>1. PICK f \in p.new : z = [puffin |-> f.id, files |-> {f.id}]
      BY <1>2, <2>2
    <3>2. z.puffin = f.id
      BY <3>1
    <3> QED BY <3>1, <3>2, <1>6
  <2>3. CASE x \notin X /\ y \notin X
    <3>1. x = [puffin |-> x.puffin, files |-> {x.puffin}] /\ y = [puffin |-> y.puffin, files |-> {y.puffin}]
      BY <2>2, <2>3
    <3> QED BY <3>1, <1>10
  <2>4. CASE (x \in X /\ y \notin X) \/ (x \notin X /\ y \in X)
    BY <2>2, <2>4, <1>5, <1>10
  <2> QED BY <2>1, <2>3, <2>4
<1>11. ASSUME NEW id \in DOMAIN T PROVE \E x \in Y : id \in x.files
  <2>1. CASE id \in DOMAIN F
    <3>1. PICK x \in X : id \in x.files
      BY <2>1 DEF SoundIndices
    <3> QED BY <3>1, <1>3, <1>7
  <2>2. CASE \E f \in p.new : f.id = id
    <3>1. PICK f \in p.new : f.id = id
      BY <2>2
    <3>2. id \in [puffin |-> f.id, files |-> {f.id}].files
      BY <3>1
    <3> QED BY <3>2, <1>4
  <2> QED BY <2>1, <2>2, <1>7
<1>12. ASSUME NEW x \in Y, NEW y \in Y, x.files \cap y.files # {} PROVE x = y
  <2>1. PICK id : id \in x.files /\ id \in y.files
    BY <1>12
  <2>2. CASE id \in DOMAIN F
    <3>1. x \in X /\ y \in X
      BY <2>1, <2>2, <1>2, <1>6
    <3> QED BY <3>1, <1>12 DEF SoundIndices
  <2>3. CASE id \notin DOMAIN F
    BY <2>1, <2>3, <1>2, <1>5
  <2> QED BY <2>2, <2>3
<1>13. SoundIndices(T, Y, n + 3)
  BY <1>9, <1>10, <1>11, <1>12 DEF SoundIndices
<1> QED BY <1>13 DEF Y

(* A merge leaves one index for all files that were there before *)
LEMMA MergedIndices ==
  ASSUME NEW F, NEW X, NEW n \in Nat, NEW p, NEW T,
         SoundFiles(F, n), SoundIndices(F, X, n), FilesPlan(F, p, n),
         DOMAIN T = DOMAIN Synced(F, p),
         p.indices = {IndexOf(f) : f \in p.new} \cup {Index(n + 2, UNION {x.files : x \in X})},
         \A f \in p.new : f.id # n + 2,
         p.oldIndices = {x.puffin : x \in X},
         p.oldFiles = {}
  PROVE  SoundIndices(T, NewIndices(X, p), n + 3)
<1> DEFINE Y == NewIndices(X, p)
           m == [puffin |-> n + 2, files |-> DOMAIN F]
<1>1. IsSynced(Synced(F, p), F, p)
  BY PlannedFiles, SyncedAt
<1>2. UNION {x.files : x \in X} = DOMAIN F
  <2>1. \A id \in DOMAIN F : id \in UNION {x.files : x \in X}
    BY DEF SoundIndices
  <2>2. \A x \in X : x.files \subseteq DOMAIN F
    BY DEF SoundIndices
  <2>3. \A id \in UNION {x.files : x \in X} : id \in DOMAIN F
    BY <2>2
  <2> QED BY <2>1, <2>3
<1>3. \A x \in Y : x = m \/ \E f \in p.new : x = [puffin |-> f.id, files |-> {f.id}]
  BY <1>2 DEF NewIndices, IndexOf, Index
<1>4. m \in Y /\ \A f \in p.new : [puffin |-> f.id, files |-> {f.id}] \in Y
  BY <1>2 DEF NewIndices, IndexOf, Index
<1>5. m.puffin = n + 2 /\ m.files = DOMAIN F
  OBVIOUS
<1> HIDE DEF Y, m
<1>6. \A f \in p.new : f.id \in n .. n + 1 /\ f.id \notin DOMAIN F
  BY DEF SoundFiles, FilesPlan
<1>7. \A id : id \in DOMAIN T <=> (id \in DOMAIN F \/ \E f \in p.new : f.id = id)
  BY <1>1 DEF IsSynced
<1>9. ASSUME NEW x \in Y PROVE x.puffin \in 0 .. (n + 3) - 1 /\ x.files \subseteq DOMAIN T
  BY <1>3, <1>5, <1>6, <1>7
<1>14. ASSUME NEW x \in Y, x # m
       PROVE  x = [puffin |-> x.puffin, files |-> {x.puffin}] /\ x.puffin \in n .. n + 1 /\ x.puffin \notin DOMAIN F
  <2>1. PICK f \in p.new : x = [puffin |-> f.id, files |-> {f.id}]
    BY <1>3, <1>14
  <2>2. x.puffin = f.id
    BY <2>1
  <2> QED BY <2>1, <2>2, <1>6
<1>10. ASSUME NEW x \in Y, NEW y \in Y, x.puffin = y.puffin PROVE x = y
  <2>1. CASE x # m /\ y # m
    <3>1. x = [puffin |-> x.puffin, files |-> {x.puffin}] /\ y = [puffin |-> y.puffin, files |-> {y.puffin}]
      BY <2>1, <1>14
    <3> QED BY <3>1, <1>10
  <2>2. CASE ~(x # m /\ y # m)
    BY <2>2, <1>5, <1>10, <1>14
  <2> QED BY <2>1, <2>2
<1>11. ASSUME NEW id \in DOMAIN T PROVE \E x \in Y : id \in x.files
  <2>1. CASE id \in DOMAIN F
    BY <2>1, <1>4, <1>5
  <2>2. CASE \E f \in p.new : f.id = id
    <3>1. PICK f \in p.new : f.id = id
      BY <2>2
    <3>2. id \in [puffin |-> f.id, files |-> {f.id}].files
      BY <3>1
    <3> QED BY <3>2, <1>4
  <2> QED BY <2>1, <2>2, <1>7
<1>12. ASSUME NEW x \in Y, NEW y \in Y, x.files \cap y.files # {} PROVE x = y
  <2>1. PICK id : id \in x.files /\ id \in y.files
    BY <1>12
  <2>2. ASSUME NEW z \in Y, z # m, id \in z.files
        PROVE  id = z.puffin /\ z = [puffin |-> id, files |-> {id}] /\ id \notin DOMAIN F
    <3>1. z = [puffin |-> z.puffin, files |-> {z.puffin}] /\ z.puffin \notin DOMAIN F
      BY <2>2, <1>14
    <3>2. z.files = {z.puffin}
      BY <3>1
    <3>3. id = z.puffin
      BY <2>2, <3>2
    <3> QED BY <3>1, <3>3
  <2> QED BY <2>1, <2>2, <1>5
<1>13. SoundIndices(T, Y, n + 3)
  BY <1>9, <1>10, <1>11, <1>12 DEF SoundIndices
<1> QED BY <1>13 DEF Y

=============================================================================
