-------------------------- MODULE TableCopy_proofs --------------------------
(***************************************************************************)
(* Proofs about TableAddition: for a source of any length, and however its *)
(* writes, the steps of add_table, the stream, the persistence of the      *)
(* table, crashes and restarts interleave, the copy and the stream meet.   *)
(*                                                                         *)
(* Proofs about InitialCopy, for every set of rows, every estimate of the  *)
(* blocks, any number of shards and writers, every size of batches,        *)
(* channel and files, and every interleaving of the tasks: a copy that     *)
(* succeeds has every row once.                                            *)
(***************************************************************************)
EXTENDS TableAddition, InitialCopy, WellFoundedInduction, TLAPS, SequenceTheorems, FiniteSetTheorems

(* A set of naturals has a smallest element.                                 *)
LEMMA NatHasMin ==
  ASSUME NEW S \in SUBSET Nat, S # {}
  PROVE  \E x \in S : \A y \in S : x <= y
<1>1. PICK x \in S : \A y \in S : <<y, x>> \notin OpToRel(<, Nat)
  BY NatLessThanWellFounded, WFMin
<1>2. ASSUME NEW y \in S PROVE x <= y
  <2>1. <<y, x>> \in Nat \X Nat
    OBVIOUS
  <2>2. ~(y < x)
    BY <1>1, <2>1 DEF OpToRel
  <2> QED BY <2>2
<1> QED BY <1>2

(* Max picks the largest element of a set that has a bound.                  *)
LEMMA MaxOfBounded ==
  ASSUME NEW S \in SUBSET Nat, S # {}, NEW n \in Nat, \A y \in S : y <= n
  PROVE  Max(S) \in S /\ \A y \in S : y <= Max(S)
<1> DEFINE U == {b \in Nat : \A y \in S : y <= b}
<1>1. PICK b \in U : \A c \in U : b <= c
  <2>1. U # {} /\ U \in SUBSET Nat
    OBVIOUS
  <2> QED BY <2>1, NatHasMin, Zenon
<1>2. b \in S
  <2>1. SUFFICES ASSUME b \notin S PROVE FALSE
    OBVIOUS
  <2>2. PICK y \in S : TRUE
    BY Zenon
  <2>3. y <= b /\ y # b /\ y \in Nat
    BY <2>1
  <2>4. b - 1 \in U
    BY <2>1, <2>3
  <2> QED BY <1>1, <2>4
<1>3. \E x \in S : \A y \in S : x >= y
  BY <1>2
<1>4. Max(S) \in S /\ \A y \in S : Max(S) >= y
  BY <1>3, Zenon DEF Max
<1> QED BY <1>4
-----------------------------------------------------------------------------

(* Bags with every row once *)
LogBag == {SetToBag(S) : S \in SUBSET Nat}

Pc == {"start", "publication", "started", "registered", "counted", "published", "snapshot",
       "copying", "loaded", "done", "panicked"}

AddTypeInv ==
  /\ pg \in [log : Seq(BOOLEAN), pub : BOOLEAN, slot : Nat \cup {NoSlot}]
  /\ add \in [pc : Pc, recovery : BOOLEAN, count : Nat, snapshot : Nat, lsn : Nat]
  /\ link \in [state : {"down", "up"}, sent : Nat, registered : BOOLEAN]
  /\ copied \in [special : {"Normal", "InitialCopy"}, buffer : LogBag, rows : LogBag, cut : Nat,
                 durable : LogBag, lsn : Nat]

(* Nothing is ahead of the source *)
Bounded ==
  /\ pg.slot <= WalLsn /\ link.sent <= WalLsn /\ add.count <= WalLsn
  /\ add.snapshot <= WalLsn /\ add.lsn <= WalLsn /\ copied.cut <= WalLsn /\ copied.lsn <= WalLsn
  /\ DOMAIN copied.rows \subseteq 1 .. WalLsn
  /\ DOMAIN copied.buffer \subseteq 1 .. WalLsn
  /\ DOMAIN copied.durable \subseteq 1 .. copied.lsn

Copying == {"snapshot", "copying", "loaded"}

(* What the steps of add_table leave behind them *)
Stages ==
  /\ link.state = "up" <=> add.pc \notin {"start", "publication"}
  /\ link.registered <=> add.pc \notin {"start", "publication", "started"}
  /\ pg.slot = NoSlot <=> ~add.recovery /\ add.pc \in {"start", "publication"}
  /\ add.recovery => add.pc \notin {"published", "panicked"} \cup Copying
  /\ link.registered =>
       (copied.special = "InitialCopy" <=>
          ~add.recovery /\ add.count > 0 /\ add.pc \notin {"registered", "done"})
  /\ ~add.recovery /\ add.pc \in {"published", "panicked"} \cup Copying => add.count > 0

(* Before the copy is loaded the table is empty; nothing is decoded before  *)
(* the table is published                                                   *)
Fresh ==
  ~add.recovery =>
    /\ add.pc # "done" => copied.cut = 0 /\ copied.lsn = 0
    /\ add.pc \notin {"loaded", "done"} => copied.rows = EmptyBag
    /\ add.pc \notin {"published", "panicked", "done"} \cup Copying =>
         /\ ~pg.pub /\ \A i \in 1 .. WalLsn : ~pg.log[i]
         /\ copied.buffer = EmptyBag /\ add.snapshot = 0 /\ add.lsn = 0
    /\ add.pc \in {"published", "panicked", "done"} \cup Copying => pg.pub
    /\ add.pc = "published" => add.snapshot = 0 /\ add.lsn = 0
    /\ add.pc = "loaded" => copied.rows = SetToBag(1 .. add.snapshot)
    /\ add.pc \in {"copying", "loaded"} => add.snapshot <= add.lsn

(* A row that is streamed is not in the table yet: the rows of the table    *)
(* are up to its cut, or up to the position of the stream                   *)
Behind ==
  link.registered =>
    /\ copied.lsn <= copied.cut \/ copied.lsn <= link.sent
    /\ DOMAIN copied.buffer \subseteq 1 .. link.sent
    /\ copied.special = "Normal" =>
         \A r \in DOMAIN copied.rows : r <= copied.cut \/ r <= link.sent

(* While the copy runs, the stream holds back what the copy does not have   *)
HeldBack ==
  ~add.recovery /\ add.pc \in Copying =>
    /\ \A i \in 1 .. WalLsn : add.snapshot < i => pg.log[i]
    /\ \A r \in 1 .. link.sent : add.snapshot < r => r \in DOMAIN copied.buffer
    /\ pg.slot <= add.snapshot
    /\ blame = {} => IF add.pc = "snapshot" THEN add.snapshot = WalLsn ELSE add.snapshot = add.lsn

(* From then on the table has every row up to its cut and the position of   *)
(* the stream, and a restart finds what it had made durable                 *)
Added == add.pc = "done" \/ add.recovery

CaughtUp ==
  blame = {} =>
    /\ ~add.recovery /\ add.pc = "counted" /\ add.count = 0 => WalLsn = 0
    /\ Added =>
         /\ \A i \in 1 .. WalLsn : add.snapshot < i => pg.log[i]
         /\ DOMAIN copied.durable = 1 .. copied.lsn
         /\ pg.slot <= add.snapshot \/ pg.slot <= copied.lsn
    /\ Added /\ link.registered =>
         /\ add.snapshot <= copied.cut
         /\ \A r \in 1 .. WalLsn : r <= copied.cut \/ r <= link.sent => r \in DOMAIN copied.rows
    /\ add.recovery =>
         /\ add.snapshot <= copied.lsn
         /\ ~link.registered /\ link.state = "up" => link.sent <= copied.lsn

AddInv == AddTypeInv /\ Bounded /\ Stages /\ Fresh /\ Behind /\ HeldBack /\ CaughtUp

-----------------------------------------------------------------------------
(* A row bag is the set of its rows.                                         *)
LEMMA LogBagIsSet ==
  ASSUME NEW b \in LogBag
  PROVE  DOMAIN b \in SUBSET Nat /\ b = SetToBag(DOMAIN b)
BY DEF LogBag, SetToBag

(* A set of rows is a row bag.                                               *)
LEMMA SetIsLogBag ==
  ASSUME NEW S \in SUBSET Nat
  PROVE  SetToBag(S) \in LogBag /\ DOMAIN SetToBag(S) = S
BY DEF LogBag, SetToBag

(* A table that was just built has no rows.                                  *)
LEMMA EmptyIsBag == EmptyBag \in LogBag /\ DOMAIN EmptyBag = {}
BY DEF LogBag, SetToBag, EmptyBag

(* Rows that are added to a table that has none of them are there once.      *)
LEMMA AddDisjoint ==
  ASSUME NEW a \in LogBag, NEW b \in LogBag, DOMAIN a \cap DOMAIN b = {}
  PROVE  a (+) b \in LogBag /\ DOMAIN (a (+) b) = DOMAIN a \cup DOMAIN b
<1>1. PICK S \in SUBSET Nat : a = SetToBag(S)
  BY DEF LogBag
<1>2. PICK T \in SUBSET Nat : b = SetToBag(T)
  BY DEF LogBag
<1>3. S \cap T = {}
  BY <1>1, <1>2 DEF SetToBag
<1>4. a (+) b = SetToBag(S \cup T)
  BY <1>1, <1>2, <1>3 DEF SetToBag, (+)
<1> QED BY <1>1, <1>2, <1>4, SetIsLogBag

(* What a table keeps of the rows it is given: those after its cut.          *)
LEMMA AfterIsBag ==
  ASSUME NEW b \in LogBag, NEW tb
  PROVE  /\ After(tb, b) \in LogBag
         /\ DOMAIN After(tb, b) = {x \in DOMAIN b : x > tb.cut}
<1>1. PICK S \in SUBSET Nat : b = SetToBag(S)
  BY DEF LogBag
<1>2. After(tb, b) = SetToBag({x \in S : x > tb.cut})
  BY <1>1 DEF SetToBag, After
<1>3. DOMAIN b = S
  BY <1>1 DEF SetToBag
<1> QED BY <1>2, <1>3, SetIsLogBag

(* The length of the source's log.                                           *)
LEMMA WalLsnIsNat == AddTypeInv => WalLsn \in Nat
BY DEF WalLsn
-----------------------------------------------------------------------------

(* The source writes a row *)
LEMMA WriteStep == AddInv /\ Write => AddInv'
<1> SUFFICES ASSUME AddTypeInv, Bounded, Stages, Fresh, Behind, HeldBack, CaughtUp, Write PROVE AddInv'
  BY DEF AddInv
<1> USE DEF NoSlot, Copying, Added
<1>0. /\ WalLsn \in Nat /\ WalLsn' = WalLsn + 1
      /\ pg'.pub = pg.pub /\ pg'.slot = pg.slot
      /\ add' = add /\ link' = link /\ copied' = copied
  BY DEF Write, WalLsn
<1>a. \A i \in 1 .. WalLsn' :
        \/ i \in 1 .. WalLsn /\ pg'.log[i] = pg.log[i]
        \/ i = WalLsn' /\ pg'.log[i] = pg.pub
  <2>1. pg.log \in Seq(BOOLEAN) /\ pg'.log = Append(pg.log, pg.pub)
    BY DEF Write, AddTypeInv
  <2>2. Len(pg'.log) = Len(pg.log) + 1 /\ Len(pg.log) \in Nat
    BY <2>1
  <2>3. ASSUME NEW i \in 1 .. Len(pg.log) + 1
        PROVE  \/ i \in 1 .. Len(pg.log) /\ pg'.log[i] = pg.log[i]
               \/ i = Len(pg.log) + 1 /\ pg'.log[i] = pg.pub
    <3>1. CASE i = Len(pg.log) + 1
      BY <2>1, <2>2, <3>1
    <3>2. CASE i # Len(pg.log) + 1
      BY <2>1, <2>2, <3>2
    <3> QED BY <3>1, <3>2
  <2>4. WalLsn = Len(pg.log) /\ WalLsn' = Len(pg.log) + 1
    BY <2>2 DEF WalLsn
  <2> QED BY <2>3, <2>4
<1>b. blame' = {} => /\ blame = {} /\ add.pc # "snapshot"
                     /\ ~(add.pc = "counted" /\ ~add.recovery /\ add.count = 0)
                     /\ ~(add.recovery /\ ~pg.pub)
  BY DEF Write, Window
<1>1. AddTypeInv'
  <2>1. Append(pg.log, pg.pub) \in Seq(BOOLEAN)
    BY DEF AddTypeInv
  <2> QED BY <2>1, Zenon DEF Write, AddTypeInv
<1>2. Bounded'
  BY <1>0 DEF Write, AddTypeInv, Bounded
<1>3. Stages'
  BY <1>0 DEF Write, Stages
<1>4. Fresh'
  BY <1>0, <1>a DEF Fresh
<1>5. Behind'
  BY DEF Write, Behind
<1>6. HeldBack'
  BY <1>0, <1>a, <1>b DEF Fresh, HeldBack
<1>7. CaughtUp'
  <2>1. SUFFICES ASSUME blame' = {} PROVE CaughtUp'
    BY DEF CaughtUp
  <2>2. Added => pg.pub
    BY <1>b, <2>1 DEF Fresh
  <2>3. Added => \A i \in 1 .. WalLsn' : add.snapshot < i => pg'.log[i]
    BY <1>a, <1>b, <2>1, <2>2 DEF CaughtUp
  <2>4. Added /\ link.registered =>
          \A x \in 1 .. WalLsn' : x <= copied.cut \/ x <= link.sent => x \in DOMAIN copied.rows
    BY <1>0, <1>b, <2>1 DEF AddTypeInv, Bounded, CaughtUp
  <2> QED BY <1>0, <1>b, <2>1, <2>3, <2>4 DEF CaughtUp
<1> QED BY <1>1, <1>2, <1>3, <1>4, <1>5, <1>6, <1>7 DEF AddInv

(* The publication is dropped and created again *)
LEMMA NewPublicationStep == AddInv /\ NewPublication => AddInv'
<1> SUFFICES ASSUME AddTypeInv, Bounded, Stages, Fresh, Behind, HeldBack, CaughtUp, NewPublication PROVE AddInv'
  BY DEF AddInv
<1> USE DEF NoSlot, Copying, Added
<1>1. AddTypeInv'
  BY Zenon DEF NewPublication, Step, AddTypeInv, Pc
<1>2. Bounded'
  BY DEF NewPublication, Step, Bounded, WalLsn
<1>3. Stages'
  BY DEF NewPublication, Step, Stages
<1>4. Fresh'
  BY DEF NewPublication, Step, Fresh, WalLsn
<1>5. Behind'
  BY DEF NewPublication, Step, Behind
<1>6. HeldBack'
  BY DEF NewPublication, Step, HeldBack
<1>7. CaughtUp'
  BY DEF NewPublication, Step, CaughtUp, WalLsn
<1> QED BY <1>1, <1>2, <1>3, <1>4, <1>5, <1>6, <1>7 DEF AddInv

(* The stream is started from the slot *)
LEMMA StartReplicationStep == AddInv /\ StartReplication => AddInv'
<1> SUFFICES ASSUME AddTypeInv, Bounded, Stages, Fresh, Behind, HeldBack, CaughtUp, StartReplication PROVE AddInv'
  BY DEF AddInv
<1> USE DEF NoSlot, Copying, Added
<1>1. AddTypeInv'
  BY DEF StartReplication, Step, AddTypeInv, Bounded, Stages, WalLsn, Pc
<1>2. Bounded'
  BY DEF StartReplication, Step, Bounded, WalLsn
<1>3. Stages'
  BY DEF StartReplication, Step, Stages, WalLsn
<1>4. Fresh'
  BY DEF StartReplication, Step, Fresh, WalLsn
<1>5. Behind'
  BY DEF StartReplication, Step, Behind
<1>6. HeldBack'
  BY DEF StartReplication, Step, HeldBack
<1>7. CaughtUp'
  BY DEF StartReplication, Step, AddTypeInv, Stages, CaughtUp, WalLsn
<1> QED BY <1>1, <1>2, <1>3, <1>4, <1>5, <1>6, <1>7 DEF AddInv

(* The table is built and the loop told of it *)
LEMMA RegisterStep == AddInv /\ Register => AddInv'
<1> SUFFICES ASSUME AddTypeInv, Bounded, Stages, Fresh, Behind, HeldBack, CaughtUp, Register PROVE AddInv'
  BY DEF AddInv
<1> USE DEF NoSlot, Copying, Added
<1>1. AddTypeInv'
  BY EmptyIsBag, Zenon DEF Register, Step, FreshTable, AddTypeInv, Pc
<1>2. Bounded'
  BY EmptyIsBag DEF Register, Step, FreshTable, AddTypeInv, Bounded, WalLsn
<1>3. Stages'
  BY EmptyIsBag DEF Register, Step, FreshTable, Stages
<1>4. Fresh'
  BY EmptyIsBag DEF Register, Step, FreshTable, Fresh, WalLsn
<1>5. Behind'
  BY EmptyIsBag DEF Register, Step, FreshTable, AddTypeInv, Bounded, Behind
<1>6. HeldBack'
  BY EmptyIsBag DEF Register, Step, FreshTable, HeldBack
<1>7. CaughtUp'
  BY EmptyIsBag DEF Register, Step, FreshTable, AddTypeInv, Stages, CaughtUp, WalLsn
<1> QED BY <1>1, <1>2, <1>3, <1>4, <1>5, <1>6, <1>7 DEF AddInv

(* The rows of the source are counted *)
LEMMA CountStep == AddInv /\ Count => AddInv'
<1> SUFFICES ASSUME AddTypeInv, Bounded, Stages, Fresh, Behind, HeldBack, CaughtUp, Count PROVE AddInv'
  BY DEF AddInv
<1> USE DEF NoSlot, Copying, Added
<1>1. AddTypeInv'
  BY WalLsnIsNat, Zenon DEF Count, AddTypeInv, Pc
<1>2. Bounded'
  BY WalLsnIsNat DEF Count, Bounded, WalLsn
<1>3. Stages'
  BY WalLsnIsNat DEF Count, Stages
<1>4. Fresh'
  BY WalLsnIsNat DEF Count, Fresh, WalLsn
<1>5. Behind'
  BY WalLsnIsNat DEF Count, Behind
<1>6. HeldBack'
  BY WalLsnIsNat DEF Count, HeldBack
<1>7. CaughtUp'
  BY WalLsnIsNat DEF Count, CaughtUp, WalLsn
<1> QED BY <1>1, <1>2, <1>3, <1>4, <1>5, <1>6, <1>7 DEF AddInv

(* The table is put into the publication *)
LEMMA PublishStep == AddInv /\ Publish => AddInv'
<1> SUFFICES ASSUME AddTypeInv, Bounded, Stages, Fresh, Behind, HeldBack, CaughtUp, Publish PROVE AddInv'
  BY DEF AddInv
<1> USE DEF NoSlot, Copying, Added
<1>0. /\ add' = [add EXCEPT !.pc = IF ~add.recovery /\ add.count > 0 THEN "published" ELSE "done"]
      /\ pg' = [pg EXCEPT !.pub = TRUE] /\ add.pc = "counted"
      /\ link' = link /\ copied' = copied /\ blame' = blame
  BY DEF Publish, Step
<1>a. /\ pg'.log = pg.log /\ pg'.slot = pg.slot /\ pg'.pub
      /\ add'.pc = IF ~add.recovery /\ add.count > 0 THEN "published" ELSE "done"
      /\ add'.recovery = add.recovery /\ add'.count = add.count /\ add'.snapshot = add.snapshot
      /\ add'.lsn = add.lsn
  BY <1>0
<1>1. AddTypeInv'
  BY <1>0, Zenon DEF AddTypeInv, Pc
<1>2. Bounded'
  BY <1>0, <1>a DEF Bounded, WalLsn
<1>3. Stages'
  BY <1>0, <1>a DEF Stages
<1>4. Fresh'
  BY <1>0, <1>a DEF Fresh
<1>5. Behind'
  BY <1>0, <1>a DEF Behind
<1>6. HeldBack'
  BY <1>0, <1>a DEF HeldBack
<1>7. CaughtUp'
  <2>1. CASE add.recovery
    BY <1>0, <1>a, <2>1 DEF CaughtUp, WalLsn
  <2>2. CASE ~add.recovery /\ add.count > 0
    BY <1>0, <1>a, <2>2 DEF CaughtUp
  <2>3. CASE ~add.recovery /\ add.count = 0
    <3>1. blame = {} => WalLsn = 0
      BY <1>0, <2>3 DEF CaughtUp
    <3>2. copied.cut = 0 /\ copied.lsn = 0 /\ add.snapshot = 0 /\ pg.slot <= WalLsn /\ DOMAIN copied.durable = {}
      BY <1>0, <2>3 DEF Fresh, Bounded
    <3> QED BY <1>0, <1>a, <2>3, <3>1, <3>2 DEF CaughtUp, WalLsn
  <2> QED BY <2>1, <2>2, <2>3 DEF AddTypeInv
<1> QED BY <1>1, <1>2, <1>3, <1>4, <1>5, <1>6, <1>7 DEF AddInv

(* The snapshot of the copy is taken *)
LEMMA TakeSnapshotStep == AddInv /\ TakeSnapshot => AddInv'
<1> SUFFICES ASSUME AddTypeInv, Bounded, Stages, Fresh, Behind, HeldBack, CaughtUp, TakeSnapshot PROVE AddInv'
  BY DEF AddInv
<1> USE DEF NoSlot, Copying, Added
<1>1. AddTypeInv'
  BY WalLsnIsNat, Zenon DEF TakeSnapshot, AddTypeInv, Pc
<1>2. Bounded'
  BY WalLsnIsNat DEF TakeSnapshot, Bounded, WalLsn
<1>3. Stages'
  BY WalLsnIsNat DEF TakeSnapshot, Stages
<1>4. Fresh'
  BY WalLsnIsNat DEF TakeSnapshot, Fresh
<1>5. Behind'
  BY WalLsnIsNat DEF TakeSnapshot, Behind
<1>6. HeldBack'
  BY WalLsnIsNat DEF TakeSnapshot, AddTypeInv, Bounded, HeldBack, WalLsn
<1>7. CaughtUp'
  BY WalLsnIsNat DEF TakeSnapshot, Stages, CaughtUp
<1> QED BY <1>1, <1>2, <1>3, <1>4, <1>5, <1>6, <1>7 DEF AddInv

(* The LSN of the copy is read *)
LEMMA ReadLsnStep == AddInv /\ ReadLsn => AddInv'
<1> SUFFICES ASSUME AddTypeInv, Bounded, Stages, Fresh, Behind, HeldBack, CaughtUp, ReadLsn PROVE AddInv'
  BY DEF AddInv
<1> USE DEF NoSlot, Copying, Added
<1>1. AddTypeInv'
  BY WalLsnIsNat, Zenon DEF ReadLsn, AddTypeInv, Pc
<1>2. Bounded'
  BY WalLsnIsNat DEF ReadLsn, Bounded, WalLsn
<1>3. Stages'
  BY WalLsnIsNat DEF ReadLsn, Stages
<1>4. Fresh'
  BY WalLsnIsNat DEF ReadLsn, Bounded, Fresh
<1>5. Behind'
  BY WalLsnIsNat DEF ReadLsn, Behind
<1>6. HeldBack'
  BY WalLsnIsNat DEF ReadLsn, HeldBack, WalLsn
<1>7. CaughtUp'
  BY WalLsnIsNat DEF ReadLsn, CaughtUp, WalLsn
<1> QED BY <1>1, <1>2, <1>3, <1>4, <1>5, <1>6, <1>7 DEF AddInv

(* The files of the copy are loaded *)
LEMMA LoadStep == AddInv /\ Load => AddInv'
<1> SUFFICES ASSUME AddTypeInv, Bounded, Stages, Fresh, Behind, HeldBack, CaughtUp, Load PROVE AddInv'
  BY DEF AddInv
<1> USE DEF NoSlot, Copying, Added
<1>0. /\ ~add.recovery /\ add.pc = "copying" /\ add' = [add EXCEPT !.pc = "loaded"]
      /\ copied.rows = EmptyBag /\ copied' = [copied EXCEPT !.rows = EmptyBag (+) SetToBag(1 .. add.snapshot)]
      /\ pg' = pg /\ link' = link /\ blame' = blame
  BY DEF Load, Step, Stages, Fresh
<1>a. /\ SetToBag(1 .. add.snapshot) \in LogBag
      /\ DOMAIN SetToBag(1 .. add.snapshot) = 1 .. add.snapshot
  BY SetIsLogBag DEF AddTypeInv
<1>b. copied'.rows = SetToBag(1 .. add.snapshot)
  <2>1. /\ EmptyBag (+) SetToBag(1 .. add.snapshot) \in LogBag
        /\ DOMAIN (EmptyBag (+) SetToBag(1 .. add.snapshot)) = 1 .. add.snapshot
    BY <1>a, EmptyIsBag, AddDisjoint, Zenon
  <2>2. EmptyBag (+) SetToBag(1 .. add.snapshot) = SetToBag(1 .. add.snapshot)
    BY <2>1, LogBagIsSet
  <2> QED BY <1>0, <2>2
<1>c. /\ copied'.special = copied.special /\ copied'.buffer = copied.buffer /\ copied'.cut = copied.cut
      /\ copied'.durable = copied.durable /\ copied'.lsn = copied.lsn
      /\ add'.pc = "loaded" /\ add'.recovery = add.recovery /\ add'.count = add.count
      /\ add'.snapshot = add.snapshot /\ add'.lsn = add.lsn
  BY <1>0
<1>1. AddTypeInv'
  BY <1>0, <1>a, <1>b DEF AddTypeInv, Pc
<1>2. Bounded'
  BY <1>0, <1>a, <1>b, <1>c DEF AddTypeInv, Bounded, WalLsn
<1>3. Stages'
  BY <1>0, <1>c DEF Stages
<1>4. Fresh'
  BY <1>0, <1>b, <1>c DEF Fresh
<1>5. Behind'
  BY <1>0, <1>c DEF Behind, Stages
<1>6. HeldBack'
  BY <1>0, <1>c DEF HeldBack, WalLsn
<1>7. CaughtUp'
  BY <1>0, <1>c DEF CaughtUp
<1> QED BY <1>1, <1>2, <1>3, <1>4, <1>5, <1>6, <1>7 DEF AddInv

(* The copy fails *)
LEMMA CopyFailsStep == AddInv /\ CopyFails => AddInv'
<1> SUFFICES ASSUME AddTypeInv, Bounded, Stages, Fresh, Behind, HeldBack, CaughtUp, CopyFails PROVE AddInv'
  BY DEF AddInv
<1> USE DEF NoSlot, Copying, Added
<1>1. AddTypeInv'
  BY DEF CopyFails, AddTypeInv, Pc
<1>2. Bounded'
  BY DEF CopyFails, Bounded, WalLsn
<1>3. Stages'
  BY DEF CopyFails, Stages
<1>4. Fresh'
  BY DEF CopyFails, Fresh
<1>5. Behind'
  BY DEF CopyFails, Behind
<1>6. HeldBack'
  BY DEF CopyFails, HeldBack
<1>7. CaughtUp'
  BY DEF CopyFails, CaughtUp, WalLsn
<1> QED BY <1>1, <1>2, <1>3, <1>4, <1>5, <1>6, <1>7 DEF AddInv

(* What was held back and is not in the copy follows it *)
LEMMA FinishStep == AddInv /\ Finish => AddInv'
<1> SUFFICES ASSUME AddTypeInv, Bounded, Stages, Fresh, Behind, HeldBack, CaughtUp, Finish PROVE AddInv'
  BY DEF AddInv
<1> USE DEF NoSlot, Copying, Added
<1>0. /\ ~add.recovery /\ add.pc = "loaded" /\ add' = [add EXCEPT !.pc = "done"]
      /\ copied.rows = SetToBag(1 .. add.snapshot) /\ add.snapshot <= add.lsn
      /\ copied.special = "InitialCopy" /\ link.registered /\ copied.lsn = 0
      /\ pg' = pg /\ link' = link /\ blame' = blame
  BY DEF Finish, Step, Stages, Fresh
<1> DEFINE tb    == [copied EXCEPT !.special = "Normal", !.cut = add.lsn, !.buffer = EmptyBag]
           after == After(tb, copied.buffer)
<1>a. copied' = [tb EXCEPT !.rows = copied.rows (+) after]
  BY DEF Finish
<1>b. after \in LogBag /\ DOMAIN after = {x \in DOMAIN copied.buffer : x > add.lsn}
  <2>1. copied.buffer \in LogBag /\ tb.cut = add.lsn
    BY DEF AddTypeInv
  <2>2. after \in LogBag /\ DOMAIN after = {x \in DOMAIN copied.buffer : x > tb.cut}
    BY <2>1, AfterIsBag, Zenon
  <2> QED BY <2>1, <2>2
<1>c. /\ copied'.rows \in LogBag
      /\ DOMAIN copied'.rows = (1 .. add.snapshot) \cup {x \in DOMAIN copied.buffer : x > add.lsn}
  <2>1. DOMAIN copied.rows = 1 .. add.snapshot
    BY <1>0, SetIsLogBag DEF AddTypeInv
  <2>2. copied.rows \in LogBag /\ DOMAIN copied.rows \cap DOMAIN after = {}
    BY <1>0, <1>b, <2>1 DEF AddTypeInv
  <2>3. copied.rows (+) after \in LogBag /\ DOMAIN (copied.rows (+) after) = DOMAIN copied.rows \cup DOMAIN after
    BY <1>b, <2>2, AddDisjoint, Zenon
  <2>4. copied'.rows = copied.rows (+) after
    BY <1>a
  <2> QED BY <1>b, <2>1, <2>3, <2>4, Zenon
<1>d. /\ copied'.special = "Normal" /\ copied'.buffer = EmptyBag /\ copied'.cut = add.lsn
      /\ copied'.durable = copied.durable /\ copied'.lsn = copied.lsn
      /\ add'.pc = "done" /\ add'.recovery = add.recovery /\ add'.count = add.count
      /\ add'.snapshot = add.snapshot /\ add'.lsn = add.lsn
  BY <1>0, <1>a
<1>1. AddTypeInv'
  <2>1. copied' = [copied EXCEPT !.special = "Normal", !.cut = add.lsn, !.buffer = EmptyBag, !.rows = copied'.rows]
    BY <1>a
  <2> QED BY <1>0, <1>c, <2>1, EmptyIsBag, Zenon DEF AddTypeInv, Pc
<1>2. Bounded'
  BY <1>0, <1>c, <1>d, EmptyIsBag DEF AddTypeInv, Bounded, WalLsn
<1>3. Stages'
  BY <1>0, <1>d DEF Stages
<1>4. Fresh'
  BY <1>0, <1>d DEF Fresh
<1>5. Behind'
  <2>1. DOMAIN copied.buffer \subseteq 1 .. link.sent
    BY <1>0 DEF Behind
  <2> QED BY <1>0, <1>c, <1>d, <2>1, EmptyIsBag DEF AddTypeInv, Behind
<1>6. HeldBack'
  BY <1>d DEF HeldBack
<1>7. CaughtUp'
  <2>1. SUFFICES ASSUME blame = {}
                 PROVE  /\ \A i \in 1 .. WalLsn : add.snapshot < i => pg.log[i]
                        /\ DOMAIN copied.durable = 1 .. copied.lsn
                        /\ pg.slot <= add.snapshot
                        /\ add.snapshot <= add.lsn
                        /\ \A r \in 1 .. WalLsn : r <= add.lsn \/ r <= link.sent => r \in DOMAIN copied'.rows
    BY <1>0, <1>d DEF CaughtUp, WalLsn
  <2>2. add.snapshot = add.lsn
    BY <1>0, <2>1 DEF HeldBack
  <2>3. ASSUME NEW r \in 1 .. WalLsn, r <= add.lsn \/ r <= link.sent
        PROVE  r \in DOMAIN copied'.rows
    BY <1>0, <1>c, <2>2, <2>3, WalLsnIsNat DEF AddTypeInv, HeldBack
  <2>4. DOMAIN copied.durable = 1 .. copied.lsn
    BY <1>0 DEF Bounded
  <2> QED BY <1>0, <2>2, <2>3, <2>4 DEF HeldBack
<1> QED BY <1>1, <1>2, <1>3, <1>4, <1>5, <1>6, <1>7 DEF AddInv

(* The table, or what it holds back, gets the next row of the stream *)
LEMMA StreamStep == AddInv /\ Stream => AddInv'
<1> SUFFICES ASSUME AddTypeInv, Bounded, Stages, Fresh, Behind, HeldBack, CaughtUp, Stream PROVE AddInv'
  BY DEF AddInv
<1> USE DEF NoSlot, Copying, Added
<1> DEFINE r == link.sent + 1
<1>0. /\ link' = [link EXCEPT !.sent = r] /\ link.state = "up" /\ r <= WalLsn /\ r \in Nat
      /\ pg' = pg /\ add' = add /\ WalLsn \in Nat
      /\ link'.sent = r /\ link'.state = "up" /\ link'.registered = link.registered
  <2>1. link.sent \in Nat /\ WalLsn \in Nat
    BY WalLsnIsNat DEF AddTypeInv
  <2>2. link' = [link EXCEPT !.sent = r]
    BY DEF Stream
  <2>3. link'.sent = r /\ link'.state = link.state /\ link'.registered = link.registered
    BY <2>2
  <2>4. link.state = "up" /\ r <= WalLsn /\ pg' = pg /\ add' = add
    BY DEF Stream
  <2> QED BY <2>1, <2>2, <2>3, <2>4
<1>a. blame' = {} => blame = {} /\ (link.registered \/ ~pg.log[r])
  BY DEF Stream
<1>b. SetToBag({r}) \in LogBag /\ DOMAIN SetToBag({r}) = {r}
  BY <1>0, SetIsLogBag
<1>c. CASE ~(pg.log[r] /\ link.registered)
  <2>0. copied' = copied
    BY <1>c DEF Stream
  <2>1. AddTypeInv'
    BY <1>0, <2>0, SMTT(30) DEF AddTypeInv
  <2>2. Bounded'
    BY <1>0, <2>0 DEF Bounded, WalLsn
  <2>3. Stages'
    BY <1>0, <2>0 DEF Stages
  <2>4. Fresh'
    BY <1>0, <2>0 DEF Fresh, WalLsn
  <2>5. Behind'
    <3>1. 1 .. link.sent \subseteq 1 .. r /\ (copied.lsn <= link.sent => copied.lsn <= r)
      BY <1>0 DEF AddTypeInv
    <3>2. DOMAIN copied.rows \in SUBSET Nat /\ \A x \in Nat : x <= link.sent => x <= r
      BY LogBagIsSet DEF AddTypeInv
    <3> QED BY <1>0, <2>0, <3>1, <3>2 DEF Behind
  <2>6. HeldBack'
    BY <1>0, <1>a, <1>c, <2>0 DEF AddTypeInv, Stages, HeldBack, WalLsn
  <2>7. CaughtUp'
    <3>1. SUFFICES ASSUME blame' = {} PROVE CaughtUp'
      BY DEF CaughtUp
    <3>2. Added => r <= add.snapshot
      BY <1>0, <1>a, <1>c, <3>1 DEF AddTypeInv, CaughtUp
    <3> QED BY <1>0, <1>a, <2>0, <3>1, <3>2 DEF AddTypeInv, CaughtUp, WalLsn
  <2> QED BY <2>1, <2>2, <2>3, <2>4, <2>5, <2>6, <2>7 DEF AddInv
<1>d. CASE pg.log[r] /\ link.registered /\ copied.special = "InitialCopy"
  <2>0. copied' = [copied EXCEPT !.buffer = copied.buffer (+) SetToBag({r})]
    BY <1>d DEF Stream
  <2>a. /\ copied'.buffer \in LogBag /\ DOMAIN copied'.buffer = DOMAIN copied.buffer \cup {r}
        /\ copied'.buffer = copied.buffer (+) SetToBag({r})
    <3>1. copied.buffer \in LogBag /\ DOMAIN copied.buffer \subseteq 1 .. link.sent
      BY <1>d DEF AddTypeInv, Behind
    <3>2. DOMAIN copied.buffer \cap DOMAIN SetToBag({r}) = {}
      BY <1>b, <3>1 DEF AddTypeInv
    <3>3. /\ copied.buffer (+) SetToBag({r}) \in LogBag
          /\ DOMAIN (copied.buffer (+) SetToBag({r})) = DOMAIN copied.buffer \cup {r}
      BY <1>b, <3>1, <3>2, AddDisjoint, Zenon
    <3> QED BY <2>0, <3>3
  <2>b. /\ copied'.special = copied.special /\ copied'.rows = copied.rows /\ copied'.cut = copied.cut
        /\ copied'.durable = copied.durable /\ copied'.lsn = copied.lsn
    BY <2>0
  <2>c. ~Added /\ add.pc \in {"published", "panicked"} \cup Copying
    BY <1>0, <1>d DEF AddTypeInv, Stages, Fresh
  <2>1. AddTypeInv'
    BY <1>0, <2>0, <2>a, SMTT(30) DEF AddTypeInv
  <2>2. Bounded'
    <3>1. r \in 1 .. WalLsn
      BY <1>0 DEF AddTypeInv
    <3> QED BY <1>0, <2>a, <2>b, <3>1 DEF Bounded, WalLsn
  <2>3. Stages'
    BY <1>0, <2>b DEF Stages
  <2>4. Fresh'
    BY <1>0, <2>b, <2>c DEF Fresh
  <2>5. Behind'
    BY <1>0, <1>d, <2>a, <2>b DEF AddTypeInv, Behind
  <2>6. HeldBack'
    BY <1>0, <1>a, <1>d, <2>a, <2>b DEF AddTypeInv, HeldBack, WalLsn
  <2>7. CaughtUp'
    BY <1>0, <2>c DEF CaughtUp
  <2> QED BY <2>1, <2>2, <2>3, <2>4, <2>5, <2>6, <2>7 DEF AddInv
<1>e. CASE pg.log[r] /\ link.registered /\ copied.special # "InitialCopy"
  <2> DEFINE new == After(copied, SetToBag({r}))
  <2>0. copied' = [copied EXCEPT !.rows = copied.rows (+) new]
    BY <1>e DEF Stream
  <2>a. new \in LogBag /\ DOMAIN new = {x \in {r} : x > copied.cut}
    BY <1>b, AfterIsBag, Zenon
  <2>b. /\ copied'.rows \in LogBag
        /\ DOMAIN copied'.rows = DOMAIN copied.rows \cup {x \in {r} : x > copied.cut}
    <3>1. copied.rows \in LogBag /\ \A x \in DOMAIN copied.rows : x <= copied.cut \/ x <= link.sent
      BY <1>e DEF AddTypeInv, Behind
    <3>2. DOMAIN copied.rows \cap DOMAIN new = {}
      <4>1. link.sent \in Nat /\ copied.cut \in Nat
        BY DEF AddTypeInv
      <4>2. r > copied.cut => r \notin DOMAIN copied.rows
        BY <3>1, <4>1
      <4> QED BY <2>a, <4>2
    <3>3. copied.rows (+) new \in LogBag /\ DOMAIN (copied.rows (+) new) = DOMAIN copied.rows \cup DOMAIN new
      BY <2>a, <3>1, <3>2, AddDisjoint, Zenon
    <3>4. copied'.rows = copied.rows (+) new
      BY <2>0
    <3> QED BY <2>a, <3>3, <3>4
  <2>c. /\ copied'.special = copied.special /\ copied'.buffer = copied.buffer /\ copied'.cut = copied.cut
        /\ copied'.durable = copied.durable /\ copied'.lsn = copied.lsn
    BY <2>0
  <2>d. Added
    BY <1>0, <1>e DEF AddTypeInv, Stages, Fresh
  <2>1. AddTypeInv'
    <3>1. copied' = [copied EXCEPT !.rows = copied'.rows]
      BY <2>0
    <3> QED BY <1>0, <2>b, <3>1 DEF AddTypeInv
  <2>2. Bounded'
    <3>1. r \in 1 .. WalLsn
      BY <1>0 DEF AddTypeInv
    <3>2. DOMAIN copied'.rows \subseteq 1 .. WalLsn
      BY <2>b, <3>1 DEF Bounded
    <3> QED BY <1>0, <2>c, <3>1, <3>2 DEF Bounded, WalLsn
  <2>3. Stages'
    BY <1>0, <2>c DEF Stages
  <2>4. Fresh'
    BY <1>0, <2>c, <2>d DEF Fresh
  <2>5. Behind'
    <3>1. 1 .. link.sent \subseteq 1 .. r /\ (copied.lsn <= link.sent => copied.lsn <= r)
      BY <1>0 DEF AddTypeInv
    <3>2. DOMAIN copied.rows \in SUBSET Nat /\ \A x \in Nat : x <= link.sent => x <= r
      BY LogBagIsSet DEF AddTypeInv
    <3>3. \A x \in DOMAIN copied'.rows : x <= copied.cut \/ x <= r
      BY <1>e, <2>b, <3>2 DEF AddTypeInv, Behind
    <3> QED BY <1>0, <2>c, <3>1, <3>3 DEF Behind
  <2>6. HeldBack'
    BY <1>0, <2>d DEF HeldBack
  <2>7. CaughtUp'
    <3>1. SUFFICES ASSUME blame' = {} PROVE CaughtUp'
      BY DEF CaughtUp
    <3>2. \A x \in 1 .. WalLsn : x <= copied.cut \/ x <= r => x \in DOMAIN copied'.rows
      BY <1>0, <1>a, <1>e, <2>b, <2>d, <3>1 DEF AddTypeInv, CaughtUp
    <3> QED BY <1>0, <1>a, <1>e, <2>c, <2>d, <3>1, <3>2 DEF CaughtUp, WalLsn
  <2> QED BY <2>1, <2>2, <2>3, <2>4, <2>5, <2>6, <2>7 DEF AddInv
<1> QED BY <1>c, <1>d, <1>e

(* What the table has becomes durable *)
LEMMA PersistStep == AddInv /\ Persist => AddInv'
<1> SUFFICES ASSUME AddTypeInv, Bounded, Stages, Fresh, Behind, HeldBack, CaughtUp, Persist PROVE AddInv'
  BY DEF AddInv
<1> USE DEF NoSlot, Copying, Added
<1>0. /\ pg' = pg /\ add' = add /\ link' = link /\ blame' = blame
      /\ copied' = [copied EXCEPT !.durable = copied.rows, !.lsn = LastLsn]
      /\ link.registered /\ copied.special = "Normal" /\ copied.lsn < LastLsn
  BY DEF Persist
<1>a. /\ LastLsn \in {copied.cut, copied.lsn} \cup DOMAIN copied.rows
      /\ LastLsn \in Nat /\ LastLsn <= WalLsn /\ copied.cut <= LastLsn
      /\ \A x \in DOMAIN copied.rows : x <= LastLsn
  <2> DEFINE S == {copied.cut, copied.lsn} \cup DOMAIN copied.rows
  <2>1. S \in SUBSET Nat /\ S # {} /\ WalLsn \in Nat /\ \A x \in S : x <= WalLsn
    BY WalLsnIsNat, LogBagIsSet DEF AddTypeInv, Bounded
  <2>2. Max(S) \in S /\ \A x \in S : x <= Max(S)
    BY <2>1, MaxOfBounded, Zenon
  <2> QED BY <2>1, <2>2 DEF LastLsn, BagToSet
<1>b. /\ copied'.special = copied.special /\ copied'.buffer = copied.buffer /\ copied'.cut = copied.cut
      /\ copied'.durable = copied.rows /\ copied'.lsn = LastLsn /\ copied'.rows = copied.rows
  BY <1>0
<1>c. Added
  <2>1. SUFFICES ASSUME ~Added PROVE FALSE
    OBVIOUS
  <2>2. add.pc # "loaded" /\ copied.rows = EmptyBag /\ copied.cut = 0 /\ copied.lsn = 0
    BY <1>0, <2>1 DEF Stages, Fresh
  <2> QED BY <1>0, <1>a, <2>2, EmptyIsBag
<1>1. AddTypeInv'
  BY <1>0, <1>a, Zenon DEF AddTypeInv
<1>2. Bounded'
  <2>1. DOMAIN copied.rows \subseteq 1 .. LastLsn
    BY <1>a, WalLsnIsNat DEF Bounded
  <2> QED BY <1>0, <1>a, <1>b, <2>1 DEF Bounded, WalLsn
<1>3. Stages'
  BY <1>0, <1>b DEF Stages
<1>4. Fresh'
  BY <1>0, <1>b, <1>c DEF Fresh
<1>5. Behind'
  BY <1>0, <1>a, <1>b DEF Behind
<1>6. HeldBack'
  BY <1>0, <1>c DEF HeldBack
<1>7. CaughtUp'
  <2>1. SUFFICES ASSUME blame = {} PROVE CaughtUp'
    BY <1>0 DEF CaughtUp
  <2>2. DOMAIN copied.rows = 1 .. LastLsn
    <3>1. LastLsn <= copied.cut \/ LastLsn <= link.sent
      BY <1>0, <1>a DEF Behind
    <3>2. \A x \in 1 .. WalLsn : x <= copied.cut \/ x <= link.sent => x \in DOMAIN copied.rows
      BY <1>0, <1>c, <2>1 DEF CaughtUp
    <3>3. 1 .. LastLsn \subseteq DOMAIN copied.rows
      BY <1>a, <3>1, <3>2, WalLsnIsNat DEF AddTypeInv
    <3>4. DOMAIN copied.rows \subseteq 1 .. LastLsn
      BY <1>a, WalLsnIsNat DEF Bounded
    <3> QED BY <3>3, <3>4, Zenon
  <2> QED BY <1>0, <1>a, <1>b, <1>c, <2>1, <2>2 DEF AddTypeInv, CaughtUp, WalLsn
<1> QED BY <1>1, <1>2, <1>3, <1>4, <1>5, <1>6, <1>7 DEF AddInv

(* The slot follows what is durable *)
LEMMA ConfirmStep == AddInv /\ Confirm => AddInv'
<1> SUFFICES ASSUME AddTypeInv, Bounded, Stages, Fresh, Behind, HeldBack, CaughtUp, Confirm PROVE AddInv'
  BY DEF AddInv
<1> USE DEF NoSlot, Copying, Added
<1>1. AddTypeInv'
  BY DEF Confirm, AddTypeInv
<1>2. Bounded'
  BY DEF Confirm, Bounded, WalLsn
<1>3. Stages'
  BY DEF Confirm, AddTypeInv, Stages
<1>4. Fresh'
  BY DEF Confirm, Fresh, WalLsn
<1>5. Behind'
  BY DEF Confirm, Behind
<1>6. HeldBack'
  BY DEF Confirm, AddTypeInv, Fresh, HeldBack, WalLsn
<1>7. CaughtUp'
  BY DEF Confirm, AddTypeInv, CaughtUp, WalLsn
<1> QED BY <1>1, <1>2, <1>3, <1>4, <1>5, <1>6, <1>7 DEF AddInv

(* The process dies *)
LEMMA CrashAddedStep == AddInv /\ CrashAdded => AddInv'
<1> SUFFICES ASSUME AddTypeInv, Bounded, Stages, Fresh, Behind, HeldBack, CaughtUp, CrashAdded PROVE AddInv'
  BY DEF AddInv
<1> USE DEF NoSlot, Copying, Added
<1>0. /\ pg' = pg /\ copied' = copied /\ WalLsn \in Nat
      /\ link' = [state |-> "down", sent |-> 0, registered |-> FALSE]
      /\ add' = [add EXCEPT !.pc = "start", !.recovery = TRUE]
      /\ blame' = {} => blame = {} /\ Added /\ ~(add.snapshot > copied.lsn)
  BY WalLsnIsNat DEF CrashAdded
<1>a. /\ add'.pc = "start" /\ add'.recovery /\ add'.count = add.count
      /\ add'.snapshot = add.snapshot /\ add'.lsn = add.lsn
      /\ link'.sent = 0 /\ ~link'.registered /\ link'.state = "down"
  BY <1>0
<1>b. pg.slot # NoSlot
  BY DEF CrashAdded, Stages
<1>1. AddTypeInv'
  BY <1>0, Zenon DEF AddTypeInv, Pc
<1>2. Bounded'
  BY <1>0, <1>a DEF Bounded, WalLsn
<1>3. Stages'
  BY <1>0, <1>a, <1>b DEF Stages
<1>4. Fresh'
  BY <1>a DEF Fresh
<1>5. Behind'
  BY <1>a DEF Behind
<1>6. HeldBack'
  BY <1>a DEF HeldBack
<1>7. CaughtUp'
  <2>1. SUFFICES ASSUME blame' = {} PROVE CaughtUp'
    BY DEF CaughtUp
  <2>2. add.snapshot <= copied.lsn
    BY <1>0, <2>1 DEF AddTypeInv
  <2> QED BY <1>0, <1>a, <2>1, <2>2 DEF CaughtUp, WalLsn
<1> QED BY <1>1, <1>2, <1>3, <1>4, <1>5, <1>6, <1>7 DEF AddInv

(* What is true when a table is added holds at first.                        *)
LEMMA InitEstablishes == AddInit => AddInv
<1> SUFFICES ASSUME AddInit PROVE AddInv
  OBVIOUS
<1>0. addScenario.rows \in Nat
  BY AddAssumption DEF AddInit
<1>1. /\ pg.log \in Seq(BOOLEAN) /\ WalLsn = addScenario.rows /\ \A i \in 1 .. WalLsn : ~pg.log[i]
  <2>1. pg.log = [i \in 1 .. addScenario.rows |-> FALSE]
    BY DEF AddInit
  <2>2. pg.log \in [1 .. addScenario.rows -> BOOLEAN]
    BY <2>1
  <2>3. pg.log \in Seq(BOOLEAN)
    BY <1>0, <2>2, SeqDef
  <2>4. Len(pg.log) = addScenario.rows
    BY <1>0, <2>2, <2>3, LenProperties
  <2> QED BY <2>1, <2>3, <2>4, Zenon DEF WalLsn
<1>2. AddTypeInv
  BY <1>0, <1>1, EmptyIsBag DEF AddInit, AddTypeInv, FreshTable, Pc, NoSlot
<1>3. Bounded /\ Behind
  BY <1>0, <1>1, EmptyIsBag DEF AddInit, Bounded, Behind, FreshTable, NoSlot
<1>4. Stages /\ HeldBack /\ CaughtUp
  BY <1>0, <1>1 DEF AddInit, Stages, HeldBack, CaughtUp, Added, Copying, NoSlot
<1>5. Fresh
  BY <1>0, <1>1 DEF AddInit, Fresh, FreshTable, Copying
<1> QED BY <1>2, <1>3, <1>4, <1>5 DEF AddInv

(* Every step keeps it.                                                      *)
LEMMA NextPreserves == AddInv /\ [AddNext]_addVars => AddInv'
<1> SUFFICES ASSUME AddInv, [AddNext]_addVars PROVE AddInv'
  OBVIOUS
<1>1. CASE AddNext
  BY <1>1, NewPublicationStep, StartReplicationStep, RegisterStep, CountStep, PublishStep,
     TakeSnapshotStep, ReadLsnStep, LoadStep, FinishStep, StreamStep, PersistStep, ConfirmStep,
     WriteStep, CopyFailsStep, CrashAddedStep
  DEF AddNext, AddProgress
<1>2. CASE UNCHANGED addVars
  BY <1>2, ZenonT(60) DEF addVars, AddInv, AddTypeInv, Bounded, Stages, Fresh, Behind, HeldBack, CaughtUp, Added, WalLsn
<1> QED BY <1>1, <1>2

(* What is true when a table is added is always true.                        *)
LEMMA AddInvariant == AddSpec => []AddInv
BY InitEstablishes, NextPreserves, PTL DEF AddSpec

(* CopyMeetsStream, for a source of any length: no row is in the table twice,*)
(* and a table that has been added and has read the stream holds every row,  *)
(* outside the windows that are named (perform_initial_copy,                 *)
(* finish_initial_copy, PostgresConnection::new).                            *)
THEOREM TheCopyMeetsTheStream == AddSpec => []CopyMeetsStream
<1>1. AddInv => CopyMeetsStream
  <2> SUFFICES ASSUME AddInv PROVE CopyMeetsStream
    OBVIOUS
  <2>1. \A r \in BagToSet(copied.rows) : copied.rows[r] = 1
    <3>1. copied.rows = SetToBag(DOMAIN copied.rows)
      BY LogBagIsSet DEF AddInv, AddTypeInv
    <3> QED BY <3>1 DEF BagToSet, SetToBag
  <2>2. ASSUME Settled, blame = {} PROVE Whole
    <3>1. add.pc = "done" /\ link.sent = WalLsn /\ link.registered
      BY <2>2 DEF AddInv, Stages, Settled
    <3>2. \A r \in 1 .. WalLsn : r <= link.sent => r \in DOMAIN copied.rows
      BY <2>2, <3>1 DEF AddInv, CaughtUp, Added
    <3>3. 1 .. WalLsn \subseteq DOMAIN copied.rows
      BY <3>1, <3>2, WalLsnIsNat DEF AddInv
    <3> QED BY <3>3, Zenon DEF AddInv, Bounded, Whole, BagToSet
  <2> QED BY <2>1, <2>2 DEF CopyMeetsStream
<1> QED BY <1>1, AddInvariant, PTL
-----------------------------------------------------------------------------
(* The larger of two.                                                        *)
LEMMA MaxOfTwo ==
  ASSUME NEW m \in Nat, NEW n \in Nat
  PROVE  /\ Max({m, n}) \in {m, n}
         /\ m <= Max({m, n}) /\ n <= Max({m, n})
<1>1. \E b \in Nat : \A y \in {m, n} : y <= b
  <2>1. CASE m <= n
    BY <2>1
  <2>2. CASE ~(m <= n)
    BY <2>2
  <2> QED BY <2>1, <2>2
<1> QED BY <1>1, MaxOfBounded
-----------------------------------------------------------------------------

Rows         == copyScenario.rows
Shards       == PlanCtidShards(copyScenario.blocks, copyScenario.shards)
ShardRows(r) == {l \in Rows : InShard(l, Shards[r])}

(* A batch or file that has no row twice *)
RowBag == {SetToBag(S) : S \in SUBSET Rows}

ReaderRec == [state : {"running", "ok", "failed", "aborted"}, todo : SUBSET Rows,
              buffer : RowBag, pending : RowBag, rows : Nat]

WriterRec == [state : {"running", "ok", "failed"}, file : RowBag, files : RowBag]

CopyRec == [pc : {"readers", "writers", "done"}, waiting : SUBSET DOMAIN Shards, next : Nat \ {0}, rows : Nat,
            success : BOOLEAN, answer : {"pending", "error", "copied"}, loaded : RowBag]

TypeInv ==
  /\ copyScenario \in CopyScenario /\ IsFiniteSet(Rows)
  /\ channel \in [queue : Seq(RowBag), open : BOOLEAN]
  /\ reader \in [DOMAIN Shards -> ReaderRec]
  /\ writer \in [Writer -> WriterRec]
  /\ copy \in CopyRec

(* A reader has read what it counted, and keeps none of it once it is done *)
Reads(r) ==
  LET rd == reader[r]
  IN  /\ rd.todo \cup DOMAIN rd.buffer \cup DOMAIN rd.pending \subseteq ShardRows(r)
      /\ rd.todo \cap DOMAIN rd.buffer = {} /\ rd.todo \cap DOMAIN rd.pending = {}
      /\ DOMAIN rd.buffer \cap DOMAIN rd.pending = {}
      /\ rd.rows = Cardinality(ShardRows(r) \ rd.todo)
      /\ rd.state = "ok" => rd.todo = {} /\ rd.buffer = EmptyBag /\ rd.pending = EmptyBag

(* The rows a reader still has, those of a batch in the channel, and those  *)
(* a writer has                                                             *)
AtReader(r) == reader[r].todo \cup DOMAIN reader[r].buffer \cup DOMAIN reader[r].pending
Sent(k)   == DOMAIN channel.queue[k]
Held(w)   == DOMAIN writer[w].file \cup DOMAIN writer[w].files

(* No row is in two places *)
Apart ==
  /\ \A r \in DOMAIN Shards : /\ \A k \in DOMAIN channel.queue : Sent(k) \cap AtReader(r) = {}
                              /\ \A w \in Writer : Held(w) \cap AtReader(r) = {}
  /\ \A k \in DOMAIN channel.queue : /\ \A j \in DOMAIN channel.queue : j # k => Sent(j) \cap Sent(k) = {}
                                     /\ \A w \in Writer : Sent(k) \cap Held(w) = {}
  /\ \A w \in Writer : /\ DOMAIN writer[w].file \cap DOMAIN writer[w].files = {}
                       /\ \A v \in Writer : v # w => Held(v) \cap Held(w) = {}

(* As long as no writer failed every row is in one *)
NoneLost ==
  (\A w \in Writer : writer[w].state # "failed") =>
    \A l \in Rows :
      \/ \E r \in DOMAIN Shards : l \in AtReader(r)
      \/ \E k \in DOMAIN channel.queue : l \in Sent(k)
      \/ \E w \in Writer : l \in Held(w)

(* A writer that is done found the channel empty and closed *)
WritersEnd ==
  \A w \in Writer : writer[w].state = "ok" => writer[w].file = EmptyBag /\ channel.queue = <<>> /\ Closed

(* What the caller has counted and collected *)
Awaited   == DOMAIN Shards \ copy.waiting
Collected == {w \in Writer : w < copy.next}

Collects ==
  /\ copy.pc # "readers" => copy.waiting = {}
  /\ copy.pc = "readers" => copy.next = 1
  /\ copy.answer = "copied" => copy.success /\ copy.pc = "done" /\ copy.next > NumWorkers
  /\ copy.success =>
       /\ \A r \in Awaited : reader[r].state = "ok"
       /\ copy.rows = Cardinality(UNION {ShardRows(r) : r \in Awaited})
       /\ \A w \in Collected : writer[w].state = "ok"
       /\ copy.loaded = SetToBag(UNION {DOMAIN writer[w].files : w \in Collected})

IInv == TypeInv /\ (\A r \in DOMAIN Shards : Reads(r)) /\ Apart /\ NoneLost /\ WritersEnd /\ Collects
-----------------------------------------------------------------------------
(* The bag of a set of rows has them as its domain *)
LEMMA SetIsBag ==
  /\ EmptyBag = SetToBag({}) /\ DOMAIN EmptyBag = {} /\ EmptyBag \in RowBag
  /\ \A S : DOMAIN SetToBag(S) = S
  /\ \A S \in SUBSET Rows : SetToBag(S) \in RowBag
BY Zenon DEF RowBag, SetToBag, EmptyBag

(* A batch that has no row twice is the set of its rows *)
LEMMA BagIsSet ==
  ASSUME NEW b \in RowBag
  PROVE  DOMAIN b \in SUBSET Rows /\ b = SetToBag(DOMAIN b) /\ (b = EmptyBag <=> DOMAIN b = {})
<1>1. PICK S \in SUBSET Rows : b = SetToBag(S)
  BY DEF RowBag
<1>2. DOMAIN b = S
  BY <1>1, SetIsBag
<1> QED
  BY <1>1, <1>2, SetIsBag, Zenon

(* Rows that are written to a file that has none of them are there once *)
LEMMA SumOfSets ==
  ASSUME NEW S, NEW T, S \cap T = {}
  PROVE  SetToBag(S) (+) SetToBag(T) = SetToBag(S \cup T)
BY DEF SetToBag, (+)

(* So two batches that share no row make one without a row twice *)
LEMMA SumOfBatches ==
  ASSUME NEW a \in RowBag, NEW b \in RowBag, DOMAIN a \cap DOMAIN b = {}
  PROVE  a (+) b \in RowBag /\ DOMAIN (a (+) b) = DOMAIN a \cup DOMAIN b
<1>1. a (+) b = SetToBag(DOMAIN a \cup DOMAIN b)
  BY BagIsSet, SumOfSets
<1>2. DOMAIN a \cup DOMAIN b \in SUBSET Rows
  BY BagIsSet
<1> QED
  BY <1>1, <1>2, SetIsBag
-----------------------------------------------------------------------------
(* The smaller of two integers *)
LEMMA MinOfTwo ==
  ASSUME NEW a \in Int, NEW b \in Int
  PROVE  Min({a, b}) = IF a <= b THEN a ELSE b
BY DEF Min

(* The ranges end in order *)
LEMMA CutsAscend ==
  ASSUME NEW step \in Nat, NEW blocks \in Nat, NEW i \in Nat, NEW j \in Nat, i <= j
  PROVE  /\ Cut(i, step, blocks) \in Nat /\ Cut(j, step, blocks) \in Nat
         /\ Cut(i, step, blocks) <= Cut(j, step, blocks)
<1> DEFINE d == j - i
<1>1. d \in Nat /\ j = i + d
  OBVIOUS
<1> HIDE DEF d
<1>2. j * step = i * step + d * step
  BY <1>1
<1>3. d * step \in Nat /\ i * step \in Nat /\ j * step \in Nat
  BY <1>1
<1>4. i * step <= j * step
  BY <1>2, <1>3
<1> DEFINE x == i * step
           y == j * step
<1>5. x \in Nat /\ y \in Nat /\ x <= y
  BY <1>3, <1>4
<1> HIDE DEF x, y
<1>6. Min({x, blocks}) = (IF x <= blocks THEN x ELSE blocks) /\ Min({y, blocks}) = (IF y <= blocks THEN y ELSE blocks)
  BY <1>5, MinOfTwo
<1>7. Min({x, blocks}) \in Nat /\ Min({y, blocks}) \in Nat /\ Min({x, blocks}) <= Min({y, blocks})
  BY <1>5, <1>6
<1> QED
  BY <1>7 DEF Cut, x, y

(* The length of a range *)
LEMMA StepIsNat ==
  ASSUME NEW blocks \in Nat, NEW shards \in Nat, shards > 0
  PROVE  CeilDiv(blocks, shards) \in Nat
BY DEF CeilDiv

(* Every row is in one range, however good the estimate of the blocks was *)
LEMMA OneRange ==
  ASSUME NEW blocks \in Int, NEW shards \in Nat, NEW l \in Location
  PROVE  LET plan == PlanCtidShards(blocks, shards)
         IN  /\ \E i \in DOMAIN plan : InShard(l, plan[i])
             /\ \A i, j \in DOMAIN plan : InShard(l, plan[i]) /\ InShard(l, plan[j]) => i = j
<1> DEFINE plan == PlanCtidShards(blocks, shards)
           b == l[1]
<1>b. b \in Nat
  BY DEF Location
<1>1. CASE shards <= 1 \/ blocks <= 0
  <2>1. plan = [i \in {1} |-> [from |-> 0, to |-> NoEnd]]
    BY <1>1 DEF PlanCtidShards
  <2> QED
    BY <2>1, <1>b DEF InShard
<1>2. CASE ~(shards <= 1 \/ blocks <= 0)
  <2> DEFINE step == CeilDiv(blocks, shards)
             C(i) == Cut(i, step, blocks)
             D == {j \in 1 .. shards : j = shards \/ C(j) > C(j - 1)}
  <2>0. blocks \in Nat /\ shards > 1
    BY <1>2
  <2>s. step \in Nat
    BY <2>0, StepIsNat
  <2>1. plan = [i \in D |-> [from |-> C(i - 1), to |-> IF i = shards THEN NoEnd ELSE C(i)]]
    BY <1>2 DEF PlanCtidShards
  <2>c. \A i, j \in Nat : i <= j => C(i) \in Nat /\ C(j) \in Nat /\ C(i) <= C(j)
    BY <2>0, <2>s, CutsAscend, Zenon
  <2>z. C(0) = 0
    BY <2>0, <2>s, MinOfTwo DEF Cut
  <2>p. \A i \in D : /\ plan[i].from = C(i - 1)
                     /\ plan[i].to = IF i = shards THEN NoEnd ELSE C(i)
    BY <2>1
  <2>d. DOMAIN plan = D
    BY <2>1
  <2> HIDE DEF step, C, plan, b
  <2>3. \E i \in D : InShard(l, plan[i])
    <3> DEFINE S == {i \in 1 .. shards : i = shards \/ b < C(i)}
    <3>1. S \in SUBSET Nat /\ shards \in S
      BY <2>0
    <3>2. PICK i \in S : \A k \in S : i <= k
      BY <3>1, NatHasMin, Zenon
    <3>3. i \in 1 .. shards /\ (i = shards \/ b < C(i))
      OBVIOUS
    <3>4. C(i - 1) <= b
      <4>1. CASE i = 1
        BY <4>1, <2>z, <1>b
      <4>2. CASE i # 1
        <5>1. i - 1 \in 1 .. shards /\ i - 1 # shards
          BY <4>2, <3>3
        <5>2. i - 1 \notin S
          BY <3>2, <3>3
        <5>3. ~(b < C(i - 1))
          BY <5>1, <5>2
        <5>4. C(i - 1) \in Nat
          BY <5>1, <2>c
        <5> QED
          BY <5>3, <5>4, <1>b
      <4> QED
        BY <4>1, <4>2
    <3>5. i \in D
      <4>1. C(i) \in Nat /\ C(i - 1) \in Nat
        BY <2>c, <3>3
      <4> QED
        BY <3>3, <3>4, <4>1, <1>b
    <3>6. InShard(l, plan[i])
      BY <3>3, <3>4, <3>5, <2>p DEF InShard, b
    <3> QED
      BY <3>5, <3>6
  <2>4. ASSUME NEW i \in D, NEW j \in D, InShard(l, plan[i]), InShard(l, plan[j]), i < j
        PROVE  FALSE
    <3>1. i \in Nat /\ j \in Nat /\ j - 1 \in Nat /\ i <= j - 1 /\ i # shards
      BY <2>4
    <3>2. C(i) \in Nat /\ C(j - 1) \in Nat /\ C(i) <= C(j - 1)
      BY <3>1, <2>c
    <3>3. plan[i].to = C(i) /\ C(i) # NoEnd /\ plan[j].from = C(j - 1)
      BY <3>1, <3>2, <2>p DEF NoEnd
    <3>4. b < C(i) /\ b >= C(j - 1)
      BY <2>4, <3>3 DEF InShard, b
    <3> QED
      BY <3>2, <3>4, <1>b
  <2>5. ASSUME NEW i \in D, NEW j \in D, InShard(l, plan[i]), InShard(l, plan[j])
        PROVE  i = j
    <3>1. ~(i < j) /\ ~(j < i)
      BY <2>4, <2>5
    <3> QED
      BY <3>1
  <2> QED
    BY <2>d, <2>3, <2>5 DEF plan
<1> QED
  BY <1>1, <1>2

(* So the rows of the shards are the rows of the table, each in one shard *)
LEMMA OneShard ==
  ASSUME copyScenario \in CopyScenario
  PROVE  /\ \A l \in Rows : \E r \in DOMAIN Shards : l \in ShardRows(r)
         /\ \A r, q \in DOMAIN Shards : r # q => ShardRows(r) \cap ShardRows(q) = {}
         /\ \A r \in DOMAIN Shards : ShardRows(r) \in SUBSET Rows
         /\ DOMAIN Shards \in SUBSET Nat
<1>1. Rows \subseteq Location /\ copyScenario.blocks \in Int /\ copyScenario.shards \in Nat
  BY DEF Rows, CopyScenario
<1>2. \A l \in Rows : /\ \E i \in DOMAIN Shards : InShard(l, Shards[i])
                      /\ \A i, j \in DOMAIN Shards : InShard(l, Shards[i]) /\ InShard(l, Shards[j]) => i = j
  BY <1>1, OneRange DEF Shards
<1>3. DOMAIN Shards \in SUBSET Nat
  BY <1>1 DEF Shards, PlanCtidShards
<1> QED
  BY <1>2, <1>3 DEF ShardRows
-----------------------------------------------------------------------------
(* No task changes the table that is copied, nor how it was split *)
TableKept ==
  /\ copyScenario' \in CopyScenario /\ Rows' = Rows /\ Shards' = Shards /\ RowBag' = RowBag
  /\ ReaderRec' = ReaderRec /\ WriterRec' = WriterRec /\ CopyRec' = CopyRec
  /\ \A r \in DOMAIN Shards : ShardRows(r)' = ShardRows(r)

LEMMA TheTableIsKept ==
  ASSUME copyScenario \in CopyScenario,
         UNCHANGED copyScenario \/ Fails("reader") \/ Fails("writer") \/ Fails("finalize")
  PROVE  TableKept
<1>1. ASSUME NEW what \in {"reader", "writer", "finalize"}, Fails(what)
      PROVE  /\ copyScenario' \in CopyScenario /\ copyScenario'.rows = copyScenario.rows
             /\ copyScenario'.blocks = copyScenario.blocks /\ copyScenario'.shards = copyScenario.shards
  <2>1. copyScenario.failures \in [reader : Nat, writer : Nat, finalize : Nat]
    BY DEF CopyScenario
  <2>2. copyScenario.failures[what] - 1 \in Nat
    BY <1>1, <2>1 DEF Fails
  <2> DEFINE f == [copyScenario.failures EXCEPT ![what] = copyScenario.failures[what] - 1]
  <2>3. f \in [reader : Nat, writer : Nat, finalize : Nat]
    BY <2>1, <2>2
  <2>4. copyScenario' = [copyScenario EXCEPT !.failures = f]
    BY <1>1 DEF Fails
  <2> HIDE DEF f
  <2> QED
    BY <2>3, <2>4 DEF CopyScenario
<1>2. /\ copyScenario' \in CopyScenario /\ copyScenario'.rows = copyScenario.rows
      /\ copyScenario'.blocks = copyScenario.blocks /\ copyScenario'.shards = copyScenario.shards
  BY <1>1
<1>3. Rows' = Rows /\ Shards' = Shards
  BY <1>2 DEF Rows, Shards
<1> QED
  BY <1>2, <1>3 DEF TableKept, RowBag, ReaderRec, WriterRec, CopyRec, ShardRows

(* There is a writer *)
LEMMA WriterIsThere ==
  NumWorkers \in Nat /\ NumWorkers >= 1 /\ 1 \in Writer /\ Writer \in SUBSET Nat
<1>1. NumWorkers \in {NumWriterTasks, 1} /\ 1 <= NumWorkers
  BY CopyAssumption, MaxOfTwo DEF NumWorkers
<1> QED
  BY <1>1, CopyAssumption DEF Writer
-----------------------------------------------------------------------------
(* A copy begins with all the rows with their readers *)
LEMMA CopyInitIInv ==
  ASSUME CopyInit
  PROVE  IInv
<1>1. copyScenario \in CopyScenario /\ IsFiniteSet(Rows)
  BY CopyAssumption DEF CopyInit, Rows
<1>2. /\ DOMAIN reader = DOMAIN Shards
      /\ \A r \in DOMAIN Shards : reader[r] = NewReader(ShardRows(r))
  BY DEF CopyInit, Shards, ShardRows, Rows
<1>3. reader = [r \in DOMAIN Shards |-> NewReader(ShardRows(r))]
  BY DEF CopyInit, Shards, ShardRows, Rows
<1>4. \A r \in DOMAIN Shards : ShardRows(r) \in SUBSET Rows
  BY <1>1, OneShard
<1>5. \A r \in DOMAIN Shards : NewReader(ShardRows(r)) \in ReaderRec
  BY <1>4, SetIsBag DEF NewReader, ReaderRec
<1>6. NewWriter \in WriterRec
  BY SetIsBag DEF NewWriter, WriterRec
<1>7. TypeInv
  <2>1. reader \in [DOMAIN Shards -> ReaderRec]
    BY <1>3, <1>5
  <2>2. writer \in [Writer -> WriterRec]
    BY <1>6 DEF CopyInit
  <2>3. channel \in [queue : Seq(RowBag), open : BOOLEAN]
    BY DEF CopyInit
  <2>4. copy \in CopyRec
    BY <1>2, SetIsBag DEF CopyInit, CopyRec
  <2> QED
    BY <1>1, <2>1, <2>2, <2>3, <2>4 DEF TypeInv
<1>8. ASSUME NEW r \in DOMAIN Shards PROVE Reads(r) /\ AtReader(r) = ShardRows(r)
  <2>1. Cardinality(ShardRows(r) \ ShardRows(r)) = 0
    BY FS_EmptySet, ShardRows(r) \ ShardRows(r) = {}
  <2>2. /\ reader[r].todo = ShardRows(r) /\ DOMAIN reader[r].buffer = {} /\ DOMAIN reader[r].pending = {}
        /\ reader[r].state = "running" /\ reader[r].rows = 0
    BY <1>2, SetIsBag DEF NewReader
  <2> QED
    BY <2>1, <2>2 DEF Reads, AtReader
<1>9. channel.queue = <<>> /\ \A w \in Writer : Held(w) = {} /\ writer[w] = NewWriter
  BY SetIsBag DEF CopyInit, NewWriter, Held
<1>10. Apart
  BY <1>9, SetIsBag DEF Apart, NewWriter
<1>11. NoneLost
  BY <1>1, <1>8, OneShard DEF NoneLost
<1>12. WritersEnd
  BY <1>9 DEF WritersEnd, NewWriter
<1>13. Collects
  <2>1. Awaited = {} /\ Collected = {}
    BY <1>2, WriterIsThere DEF Awaited, Collected, CopyInit, Writer
  <2>2. UNION {ShardRows(r) : r \in Awaited} = {} /\ UNION {DOMAIN writer[w].files : w \in Collected} = {}
    BY <2>1
  <2>3. copy.rows = Cardinality({}) /\ copy.loaded = SetToBag({})
    BY FS_EmptySet, SetIsBag DEF CopyInit
  <2> QED
    BY <2>1, <2>2, <2>3, Zenon DEF Collects, CopyInit
<1> QED
  BY <1>7, <1>8, <1>10, <1>11, <1>12, <1>13 DEF IInv
-----------------------------------------------------------------------------
(* A running reader has not been waited for, and no writer is done: what    *)
(* such a reader does leaves the writers' ends and the caller alone         *)
LEMMA ReaderSteps ==
  ASSUME IInv, TableKept, NEW r \in DOMAIN Shards, NEW n \in ReaderRec, reader[r].state = "running",
         reader' = [reader EXCEPT ![r] = n], writer' = writer, copy' = copy
  PROVE  /\ reader' \in [DOMAIN Shards -> ReaderRec] /\ reader'[r] = n
         /\ \A q \in DOMAIN Shards : q # r => reader'[q] = reader[q] /\ Reads(q)' /\ AtReader(q)' = AtReader(q)
         /\ \A w \in Writer : Held(w)' = Held(w)
         /\ WritersEnd' /\ Collects'
<1>1. reader \in [DOMAIN Shards -> ReaderRec]
  BY DEF IInv, TypeInv
<1>2. /\ reader' \in [DOMAIN Shards -> ReaderRec] /\ reader'[r] = n
      /\ \A q \in DOMAIN Shards : q # r => reader'[q] = reader[q]
  BY <1>1
<1>3. ASSUME NEW q \in DOMAIN Shards, q # r PROVE Reads(q)' /\ AtReader(q)' = AtReader(q)
  <2>1. Reads(q) /\ reader'[q] = reader[q] /\ ShardRows(q)' = ShardRows(q)
    BY <1>2, <1>3 DEF IInv, TableKept
  <2> QED
    BY <2>1 DEF Reads, AtReader
<1>4. WritersEnd'
  <2>1. ~Closed
    BY <1>1 DEF Closed
  <2>2. \A w \in Writer : writer[w].state # "ok"
    BY <2>1 DEF IInv, WritersEnd
  <2> QED
    BY <2>2 DEF WritersEnd
<1>5. Collects'
  <2>1. Awaited' = Awaited /\ Awaited \in SUBSET DOMAIN Shards /\ Collected' = Collected
    BY DEF Awaited, TableKept, Collected
  <2>2. {ShardRows(q) : q \in Awaited}' = {ShardRows(q) : q \in Awaited}
    BY <2>1 DEF TableKept
  <2>3. copy.success => r \notin Awaited
    BY DEF IInv, Collects
  <2>4. copy.success => \A q \in Awaited : reader'[q].state = "ok"
    BY <2>1, <2>3, <1>2 DEF IInv, Collects
  <2> QED
    BY <2>1, <2>2, <2>4, Zenon DEF IInv, Collects
<1> QED
  BY <1>2, <1>3, <1>4, <1>5 DEF Held

(* What a reader does with its own rows leaves the rest alone *)
LEMMA ReaderMoves ==
  ASSUME IInv, TableKept, NEW r \in DOMAIN Shards, NEW n \in ReaderRec, reader[r].state = "running",
         reader' = [reader EXCEPT ![r] = n], writer' = writer, copy' = copy, channel' = channel,
         Reads(r)', AtReader(r)' = AtReader(r)
  PROVE  IInv'
<1>1. /\ reader' \in [DOMAIN Shards -> ReaderRec] /\ reader'[r] = n
      /\ \A q \in DOMAIN Shards : q # r => Reads(q)' /\ AtReader(q)' = AtReader(q)
      /\ \A w \in Writer : Held(w)' = Held(w)
      /\ WritersEnd' /\ Collects'
  BY ReaderSteps, ZenonT(60)
<1>2. \A q \in DOMAIN Shards : Reads(q)' /\ AtReader(q)' = AtReader(q)
  BY <1>1
<1>3. \A k \in DOMAIN channel.queue : Sent(k)' = Sent(k)
  BY DEF Sent
<1>4. TypeInv'
  BY <1>1 DEF IInv, TypeInv, TableKept
<1>5. Apart'
  BY <1>1, <1>2, <1>3 DEF IInv, Apart, TableKept
<1>6. NoneLost'
  BY <1>1, <1>2, <1>3 DEF IInv, NoneLost, TableKept
<1>7. (\A q \in DOMAIN Shards : Reads(q))'
  BY <1>2 DEF TableKept
<1> QED
  BY <1>1, <1>4, <1>5, <1>6, <1>7 DEF IInv

(* A row that is read goes to the batch, and a full batch first aside *)
LEMMA ReadRowIInv ==
  ASSUME IInv, NEW r \in DOMAIN reader, ReadRow(r)
  PROVE  IInv'
<1> DEFINE rd == reader[r]
           full == BagCardinality(rd.buffer) = MaxRowsPerBatch
<1>1. r \in DOMAIN Shards /\ rd \in ReaderRec /\ Reads(r)
  BY DEF IInv, TypeInv
<1>2. TableKept
  BY TheTableIsKept DEF IInv, TypeInv, ReadRow
<1>3. rd.state = "running" /\ rd.pending = EmptyBag
  BY SMTT(30) DEF ReadRow, ReaderRuns
<1>4. PICK l \in rd.todo :
        reader' = [reader EXCEPT ![r].todo = @ \ {l}, ![r].rows = @ + 1,
                                 ![r].pending = IF full THEN rd.buffer ELSE EmptyBag,
                                 ![r].buffer = (IF full THEN EmptyBag ELSE @) (+) SetToBag({l})]
  BY Zenon DEF ReadRow
<1> DEFINE base == IF full THEN EmptyBag ELSE rd.buffer
           n == [rd EXCEPT !.todo = rd.todo \ {l}, !.rows = rd.rows + 1,
                           !.pending = IF full THEN rd.buffer ELSE EmptyBag,
                           !.buffer = base (+) SetToBag({l})]
<1>5. reader' = [reader EXCEPT ![r] = n]
  BY <1>4, Zenon
<1>6. /\ rd.todo \in SUBSET Rows /\ rd.buffer \in RowBag /\ rd.rows \in Nat /\ l \in Rows
      /\ DOMAIN EmptyBag = {} /\ EmptyBag \in RowBag
  BY <1>1, SetIsBag DEF ReaderRec
<1>7. base \in RowBag /\ DOMAIN base \subseteq DOMAIN rd.buffer
  BY <1>6
<1>8. SetToBag({l}) \in RowBag /\ DOMAIN SetToBag({l}) = {l} /\ l \notin DOMAIN rd.buffer
  BY <1>1, <1>6, SetIsBag DEF Reads
<1>9. base (+) SetToBag({l}) \in RowBag /\ DOMAIN (base (+) SetToBag({l})) = DOMAIN base \cup {l}
  <2>1. DOMAIN base \cap DOMAIN SetToBag({l}) = {}
    BY <1>7, <1>8
  <2> HIDE DEF base
  <2> QED
    BY <1>7, <1>8, <2>1, SumOfBatches, Zenon
<1> HIDE DEF full
<1>10. /\ n.todo = rd.todo \ {l} /\ n.rows = rd.rows + 1 /\ n.state = "running"
       /\ n.buffer \in RowBag /\ DOMAIN n.buffer = (IF full THEN {} ELSE DOMAIN rd.buffer) \cup {l}
       /\ n.pending \in RowBag /\ DOMAIN n.pending = IF full THEN DOMAIN rd.buffer ELSE {}
  BY <1>1, <1>3, <1>6, <1>9 DEF ReaderRec
<1>11. n \in ReaderRec
  <2> DEFINE b == base (+) SetToBag({l})
             p == IF full THEN rd.buffer ELSE EmptyBag
             t == rd.todo \ {l}
  <2>1. b \in RowBag /\ p \in RowBag /\ t \in SUBSET Rows /\ rd.rows + 1 \in Nat
    BY <1>6, <1>9
  <2>2. n = [rd EXCEPT !.todo = t, !.rows = rd.rows + 1, !.pending = p, !.buffer = b]
    OBVIOUS
  <2> HIDE DEF b, p, t, n
  <2> QED
    BY <1>1, <2>1, <2>2, Zenon DEF ReaderRec
<1> HIDE DEF n, base
<1>12. reader'[r] = n
  BY <1>5, <1>1
<1>13. n.rows = Cardinality(ShardRows(r) \ n.todo)
  <2>1. ShardRows(r) \ (rd.todo \ {l}) = (ShardRows(r) \ rd.todo) \cup {l} /\ l \notin ShardRows(r) \ rd.todo
    BY <1>1 DEF Reads
  <2>2. IsFiniteSet(ShardRows(r) \ rd.todo)
    BY FS_Subset DEF IInv, TypeInv, ShardRows
  <2>3. Cardinality((ShardRows(r) \ rd.todo) \cup {l}) = Cardinality(ShardRows(r) \ rd.todo) + 1
    BY <2>1, <2>2, FS_AddElement
  <2> QED
    BY <2>1, <2>3, <1>1, <1>10 DEF Reads
<1>14. AtReader(r)' = AtReader(r)
  BY <1>3, <1>6, <1>10, <1>12 DEF AtReader
<1>15. Reads(r)'
  <2>1. ShardRows(r)' = ShardRows(r)
    BY <1>1, <1>2 DEF TableKept
  <2>2. n.todo \cup DOMAIN n.buffer \cup DOMAIN n.pending \subseteq ShardRows(r)
    BY <1>1, <1>10 DEF Reads
  <2>3. /\ n.todo \cap DOMAIN n.buffer = {} /\ n.todo \cap DOMAIN n.pending = {}
        /\ DOMAIN n.buffer \cap DOMAIN n.pending = {}
    BY <1>1, <1>8, <1>10 DEF Reads
  <2> QED
    BY <1>10, <1>12, <1>13, <2>1, <2>2, <2>3 DEF Reads
<1> QED
  BY <1>1, <1>2, <1>3, <1>5, <1>11, <1>14, <1>15, ReaderMoves, Zenon DEF ReadRow

(* The last batch is set aside *)
LEMMA FinishBatchIInv ==
  ASSUME IInv, NEW r \in DOMAIN reader, FinishBatch(r)
  PROVE  IInv'
<1> DEFINE rd == reader[r]
           n == [rd EXCEPT !.pending = rd.buffer, !.buffer = EmptyBag]
<1>1. r \in DOMAIN Shards /\ rd \in ReaderRec /\ Reads(r)
  BY DEF IInv, TypeInv
<1>2. TableKept
  BY TheTableIsKept DEF IInv, TypeInv, FinishBatch
<1>3. rd.state = "running" /\ DOMAIN rd.pending = {}
  BY SetIsBag DEF FinishBatch, ReaderRuns
<1>4. reader' = [reader EXCEPT ![r] = n]
  BY Zenon DEF FinishBatch
<1>5. n \in ReaderRec /\ n.state = rd.state /\ n.todo = rd.todo /\ n.rows = rd.rows
  BY <1>1, SetIsBag, Zenon DEF ReaderRec
<1>6. DOMAIN n.pending = DOMAIN rd.buffer /\ DOMAIN n.buffer = {}
  BY <1>1, SetIsBag DEF ReaderRec
<1> HIDE DEF n
<1>7. reader'[r] = n
  BY <1>1, <1>4
<1>8. AtReader(r)' = AtReader(r)
  BY <1>3, <1>5, <1>6, <1>7 DEF AtReader
<1>9. Reads(r)'
  BY <1>1, <1>2, <1>3, <1>5, <1>6, <1>7 DEF Reads, TableKept
<1> QED
  BY <1>1, <1>2, <1>3, <1>4, <1>5, <1>8, <1>9, ReaderMoves, Zenon DEF FinishBatch

(* A reader ends: with all its rows sent when it commits, with what it has  *)
(* left when it fails                                                       *)
LEMMA ReaderEndsIInv ==
  ASSUME IInv, NEW r \in DOMAIN reader, ReaderCommits(r) \/ ReaderFails(r)
  PROVE  IInv'
<1> DEFINE rd == reader[r]
<1>1. r \in DOMAIN Shards /\ rd \in ReaderRec /\ Reads(r)
  BY DEF IInv, TypeInv
<1>2. TableKept
  BY TheTableIsKept DEF IInv, TypeInv, ReaderCommits, ReaderFails
<1>3. PICK e \in {"ok", "failed"} :
        /\ reader' = [reader EXCEPT ![r].state = e]
        /\ e = "ok" => rd.todo = {} /\ rd.buffer = EmptyBag /\ rd.pending = EmptyBag
  BY DEF ReaderCommits, ReaderFails, ReaderRuns
<1> DEFINE n == [rd EXCEPT !.state = e]
<1>4. reader' = [reader EXCEPT ![r] = n]
  BY <1>3
<1>5. /\ n \in ReaderRec /\ n.state = e /\ n.todo = rd.todo /\ n.rows = rd.rows
      /\ n.buffer = rd.buffer /\ n.pending = rd.pending
  BY <1>1 DEF ReaderRec
<1> HIDE DEF n
<1>6. reader'[r] = n
  BY <1>1, <1>4
<1>7. AtReader(r)' = AtReader(r)
  BY <1>5, <1>6 DEF AtReader
<1>8. Reads(r)'
  BY <1>1, <1>2, <1>3, <1>5, <1>6 DEF Reads, TableKept
<1>9. rd.state = "running" /\ writer' = writer /\ copy' = copy /\ channel' = channel
  BY DEF ReaderCommits, ReaderFails, ReaderRuns
<1> QED
  BY <1>1, <1>2, <1>4, <1>5, <1>7, <1>8, <1>9, ReaderMoves, Zenon

(* A batch that is sent leaves its reader for the end of the channel *)
LEMMA SendBatchIInv ==
  ASSUME IInv, NEW r \in DOMAIN reader, SendBatch(r)
  PROVE  IInv'
<1> DEFINE rd == reader[r]
           n == [rd EXCEPT !.pending = EmptyBag]
           b == rd.pending
           q == channel.queue
<1>1. r \in DOMAIN Shards /\ rd \in ReaderRec /\ Reads(r) /\ q \in Seq(RowBag) /\ b \in RowBag
  BY DEF IInv, TypeInv, ReaderRec
<1>2. TableKept
  BY TheTableIsKept DEF IInv, TypeInv, SendBatch
<1>3. rd.state = "running" /\ writer' = writer /\ copy' = copy
  BY DEF SendBatch
<1>4. reader' = [reader EXCEPT ![r] = n]
  BY DEF SendBatch
<1>5. n \in ReaderRec /\ n.state = rd.state /\ n.todo = rd.todo /\ n.rows = rd.rows /\ n.buffer = rd.buffer
  BY <1>1, SetIsBag DEF ReaderRec
<1>6. DOMAIN n.pending = {}
  BY <1>1, SetIsBag DEF ReaderRec
<1> HIDE DEF n
<1>7. /\ reader' \in [DOMAIN Shards -> ReaderRec] /\ reader'[r] = n
      /\ \A p \in DOMAIN Shards : p # r => Reads(p)' /\ AtReader(p)' = AtReader(p)
      /\ \A w \in Writer : Held(w)' = Held(w)
      /\ WritersEnd' /\ Collects'
  BY <1>1, <1>2, <1>3, <1>4, <1>5, ReaderSteps, ZenonT(60)
<1>8. AtReader(r)' \cup DOMAIN b = AtReader(r) /\ AtReader(r)' \cap DOMAIN b = {}
  BY <1>1, <1>5, <1>6, <1>7 DEF AtReader, Reads
<1>9. Reads(r)'
  BY <1>1, <1>2, <1>3, <1>5, <1>6, <1>7, Zenon DEF Reads, TableKept
<1>10. channel' = [channel EXCEPT !.queue = Append(q, b)]
  BY DEF SendBatch
<1>11. channel'.queue = Append(q, b) /\ channel' \in [queue : Seq(RowBag), open : BOOLEAN]
  <2>1. channel \in [queue : Seq(RowBag), open : BOOLEAN] /\ Append(q, b) \in Seq(RowBag)
    BY <1>1, AppendProperties DEF IInv, TypeInv
  <2> HIDE DEF q, b
  <2> QED
    BY <1>10, <2>1, Zenon
<1> PICK last \in Nat : last = Len(q) + 1
  BY <1>1
<1>12. /\ DOMAIN channel'.queue = DOMAIN q \cup {last} /\ last \notin DOMAIN q
       /\ channel'.queue[last] = b /\ \A k \in DOMAIN q : channel'.queue[k] = q[k]
  BY <1>1, <1>11, AppendProperties
<1>13. Sent(last)' = DOMAIN b /\ \A k \in DOMAIN q : Sent(k)' = Sent(k)
  BY <1>12 DEF Sent
<1>14. TypeInv'
  BY <1>2, <1>3, <1>7, <1>11, SMTT(30) DEF IInv, TypeInv, TableKept
<1>15. \A p \in DOMAIN Shards : p # r => DOMAIN b \cap AtReader(p) = {}
  BY <1>1, OneShard, ZenonT(60) DEF IInv, TypeInv, Reads, AtReader
<1> HIDE DEF b, q, rd
<1>16. Apart'
  <2>1. Apart /\ \A k \in DOMAIN q : Sent(k) \cap AtReader(r) = {}
    BY <1>1 DEF IInv, Apart, q
  <2>2. \A p \in DOMAIN Shards : \A k \in DOMAIN channel'.queue : Sent(k)' \cap AtReader(p)' = {}
    BY <1>1, <1>7, <1>8, <1>12, <1>13, <1>15, <2>1, SMTT(30) DEF Apart, q
  <2>3. \A p \in DOMAIN Shards : \A w \in Writer : Held(w)' \cap AtReader(p)' = {}
    BY <1>1, <1>7, <1>8, <2>1 DEF Apart
  <2>4. \A k \in DOMAIN channel'.queue : \A j \in DOMAIN channel'.queue : j # k => Sent(j)' \cap Sent(k)' = {}
    BY <1>8, <1>12, <1>13, <2>1, SMTT(30) DEF Apart, q
  <2>5. \A k \in DOMAIN channel'.queue : \A w \in Writer : Sent(k)' \cap Held(w)' = {}
    BY <1>1, <1>7, <1>8, <1>12, <1>13, <2>1 DEF Apart, q
  <2> QED
    BY <1>2, <1>3, <1>7, <2>1, <2>2, <2>3, <2>4, <2>5 DEF Apart, TableKept
<1>17. NoneLost'
  <2>1. ASSUME \A w \in Writer : writer[w].state # "failed", NEW l \in Rows
        PROVE  \/ \E p \in DOMAIN Shards : l \in AtReader(p)'
               \/ \E k \in DOMAIN channel'.queue : l \in Sent(k)'
               \/ \E w \in Writer : l \in Held(w)'
    <3>1. \/ \E p \in DOMAIN Shards : l \in AtReader(p)
          \/ \E k \in DOMAIN q : l \in Sent(k)
          \/ \E w \in Writer : l \in Held(w)
      BY <2>1, SMTT(30) DEF IInv, NoneLost, q
    <3> QED
      BY <1>1, <1>7, <1>8, <1>12, <1>13, <3>1, SMTT(30)
  <2> QED
    BY <1>2, <1>3, <2>1, SMTT(30) DEF NoneLost, TableKept
<1>18. (\A p \in DOMAIN Shards : Reads(p))'
  BY <1>2, <1>7, <1>9 DEF TableKept
<1> QED
  BY <1>7, <1>14, <1>16, <1>17, <1>18 DEF IInv
-----------------------------------------------------------------------------
(* A running writer has not been waited for, so the caller does not notice  *)
(* what it does                                                             *)
LEMMA WriterSteps ==
  ASSUME IInv, TableKept, NEW w \in Writer, NEW n \in WriterRec, writer[w].state = "running",
         writer' = [writer EXCEPT ![w] = n], reader' = reader, copy' = copy
  PROVE  /\ writer' \in [Writer -> WriterRec] /\ writer'[w] = n
         /\ \A v \in Writer : v # w => writer'[v] = writer[v] /\ Held(v)' = Held(v)
         /\ \A r \in DOMAIN Shards : AtReader(r)' = AtReader(r)
         /\ (\A r \in DOMAIN Shards : Reads(r))'
         /\ Collects'
<1>1. writer \in [Writer -> WriterRec]
  BY DEF IInv, TypeInv
<1>2. /\ writer' \in [Writer -> WriterRec] /\ writer'[w] = n
      /\ \A v \in Writer : v # w => writer'[v] = writer[v]
  BY <1>1
<1>3. \A v \in Writer : v # w => Held(v)' = Held(v)
  BY <1>2 DEF Held
<1>4. \A r \in DOMAIN Shards : AtReader(r)' = AtReader(r)
  BY DEF AtReader
<1>5. (\A r \in DOMAIN Shards : Reads(r))'
  BY DEF IInv, Reads, TableKept
<1>6. Collects'
  <2>1. Awaited' = Awaited /\ Awaited \in SUBSET DOMAIN Shards /\ Collected' = Collected /\ Collected \in SUBSET Writer
    BY DEF Awaited, TableKept, Collected
  <2>2. {ShardRows(q) : q \in Awaited}' = {ShardRows(q) : q \in Awaited}
    BY <2>1 DEF TableKept
  <2>3. copy.success => \A v \in Collected : writer[v].state = "ok" /\ v # w
    BY DEF IInv, Collects
  <2>4. copy.success => \A v \in Collected : writer'[v] = writer[v]
    BY <2>1, <2>3, <1>2
  <2>5. copy.success => {DOMAIN writer[v].files : v \in Collected}' = {DOMAIN writer[v].files : v \in Collected}
    BY <2>1, <2>4
  <2> QED
    BY <2>1, <2>2, <2>3, <2>4, <2>5, Zenon DEF IInv, Collects
<1> QED
  BY <1>2, <1>3, <1>4, <1>5, <1>6

(* The batch at the head of the channel is taken out *)
LEMMA TakeBatch ==
  ASSUME TypeInv, channel.queue # <<>>, channel' = [channel EXCEPT !.queue = Tail(@)]
  PROVE  /\ channel' \in [queue : Seq(RowBag), open : BOOLEAN]
         /\ Head(channel.queue) \in RowBag /\ 1 \in DOMAIN channel.queue /\ Sent(1) = DOMAIN Head(channel.queue)
         /\ \A k \in DOMAIN channel'.queue : k + 1 \in DOMAIN channel.queue /\ k + 1 # 1 /\ Sent(k)' = Sent(k + 1)
         /\ \A k \in DOMAIN channel.queue : k # 1 => k - 1 \in DOMAIN channel'.queue /\ Sent(k - 1)' = Sent(k)
<1> DEFINE q == channel.queue
<1>1. q \in Seq(RowBag) /\ channel \in [queue : Seq(RowBag), open : BOOLEAN]
  BY DEF TypeInv
<1>2. /\ Tail(q) \in Seq(RowBag) /\ Head(q) \in RowBag /\ 1 \in DOMAIN q /\ Head(q) = q[1]
      /\ Len(q) \in Nat /\ DOMAIN q = 1 .. Len(q) /\ DOMAIN Tail(q) = 1 .. Len(q) - 1
      /\ \A k \in 1 .. Len(q) - 1 : Tail(q)[k] = q[k + 1]
  BY <1>1, HeadTailProperties
<1>3. channel' \in [queue : Seq(RowBag), open : BOOLEAN] /\ channel'.queue = Tail(q)
  BY <1>1, <1>2, ZenonT(60)
<1>4. \A k \in DOMAIN channel'.queue : k + 1 \in DOMAIN q /\ k + 1 # 1 /\ channel'.queue[k] = q[k + 1]
  BY <1>2, <1>3
<1>5. \A k \in DOMAIN q : k # 1 => k - 1 \in DOMAIN channel'.queue /\ channel'.queue[k - 1] = q[k]
  BY <1>2, <1>3
<1> QED
  BY <1>2, <1>3, <1>4, <1>5 DEF Sent

(* A batch that is written goes from the channel to a file *)
LEMMA WriteBatchIInv ==
  ASSUME IInv, NEW w \in Writer, WriteBatch(w)
  PROVE  IInv'
<1> DEFINE wr == writer[w]
           h == Head(channel.queue)
           file == wr.file (+) h
           full == BagCardinality(file) >= TargetFileRows
           n == [wr EXCEPT !.file = IF full THEN EmptyBag ELSE file,
                           !.files = IF full THEN wr.files (+) file ELSE wr.files]
<1>1. wr \in WriterRec /\ wr.file \in RowBag /\ wr.files \in RowBag /\ TypeInv
  BY DEF IInv, TypeInv, WriterRec
<1>2. TableKept
  BY TheTableIsKept DEF IInv, TypeInv, WriteBatch
<1>3. /\ wr.state = "running" /\ channel.queue # <<>> /\ channel' = [channel EXCEPT !.queue = Tail(@)]
      /\ reader' = reader /\ copy' = copy
  BY DEF WriteBatch
<1>4. /\ channel' \in [queue : Seq(RowBag), open : BOOLEAN]
      /\ h \in RowBag /\ 1 \in DOMAIN channel.queue /\ Sent(1) = DOMAIN h
      /\ \A k \in DOMAIN channel'.queue : k + 1 \in DOMAIN channel.queue /\ k + 1 # 1 /\ Sent(k)' = Sent(k + 1)
      /\ \A k \in DOMAIN channel.queue : k # 1 => k - 1 \in DOMAIN channel'.queue /\ Sent(k - 1)' = Sent(k)
  BY <1>1, <1>3, TakeBatch
<1>5. writer' = [writer EXCEPT ![w] = n]
  BY Zenon DEF WriteBatch
<1> HIDE DEF h
<1>6. /\ DOMAIN h \cap DOMAIN wr.file = {} /\ DOMAIN h \cap DOMAIN wr.files = {}
      /\ DOMAIN wr.file \cap DOMAIN wr.files = {}
  BY <1>4 DEF IInv, Apart, Held
<1>7. file \in RowBag /\ DOMAIN file = DOMAIN wr.file \cup DOMAIN h
  BY <1>1, <1>4, <1>6, SumOfBatches, Zenon
<1> HIDE DEF file, full
<1>8. wr.files (+) file \in RowBag /\ DOMAIN (wr.files (+) file) = DOMAIN wr.files \cup DOMAIN file
  <2>1. DOMAIN wr.files \cap DOMAIN file = {}
    BY <1>6, <1>7
  <2> QED
    BY <1>1, <1>7, <2>1, SumOfBatches, Zenon
<1>9. n \in WriterRec /\ n.state = "running" /\ n.file = (IF full THEN EmptyBag ELSE file)
      /\ n.files = IF full THEN wr.files (+) file ELSE wr.files
  BY <1>1, <1>3, <1>7, <1>8, SetIsBag, ZenonT(60) DEF WriterRec
<1> HIDE DEF n
<1>10. DOMAIN n.file \cap DOMAIN n.files = {} /\ DOMAIN n.file \cup DOMAIN n.files = Held(w) \cup Sent(1)
  <2>1. CASE full
    <3>1. DOMAIN n.file = {} /\ DOMAIN n.files = DOMAIN wr.files \cup DOMAIN wr.file \cup DOMAIN h
      BY <2>1, <1>7, <1>8, <1>9, SetIsBag
    <3> QED
      BY <3>1, <1>4 DEF Held
  <2>2. CASE ~full
    <3>1. n.file = file /\ n.files = wr.files
      BY <2>2, <1>9
    <3> QED
      BY <3>1, <1>4, <1>6, <1>7 DEF Held
  <2> QED
    BY <2>1, <2>2
<1>11. /\ writer' \in [Writer -> WriterRec] /\ writer'[w] = n
       /\ \A v \in Writer : v # w => writer'[v] = writer[v] /\ Held(v)' = Held(v)
       /\ \A r \in DOMAIN Shards : AtReader(r)' = AtReader(r)
       /\ (\A r \in DOMAIN Shards : Reads(r))'
       /\ Collects'
  BY <1>2, <1>3, <1>5, <1>9, WriterSteps, Zenon
<1>12. Held(w)' = Held(w) \cup Sent(1)
  BY <1>10, <1>11 DEF Held
<1>13. TypeInv'
  BY <1>1, <1>2, <1>3, <1>4, <1>11 DEF TypeInv, TableKept
<1>14. WritersEnd'
  BY <1>3, <1>9, <1>11, SMTT(30) DEF IInv, WritersEnd
<1> HIDE DEF wr
<1>15. Apart'
  <2>1. Apart
    BY SMTT(30) DEF IInv
  <2>2. \A r \in DOMAIN Shards : \A k \in DOMAIN channel'.queue : Sent(k)' \cap AtReader(r)' = {}
    BY <1>4, <1>11, <2>1 DEF Apart
  <2>3. \A r \in DOMAIN Shards : \A v \in Writer : Held(v)' \cap AtReader(r)' = {}
    BY <1>4, <1>11, <1>12, <2>1, SMTT(30) DEF Apart
  <2>4. \A k \in DOMAIN channel'.queue : \A j \in DOMAIN channel'.queue : j # k => Sent(j)' \cap Sent(k)' = {}
    <3>1. \A k, j \in DOMAIN channel'.queue : j # k => j + 1 # k + 1
      BY <1>4, channel'.queue \in Seq(RowBag)
    <3> QED
      BY <1>4, <3>1, <2>1, SMTT(30) DEF Apart
  <2>5. \A k \in DOMAIN channel'.queue : \A v \in Writer : Sent(k)' \cap Held(v)' = {}
    BY <1>4, <1>11, <1>12, <2>1 DEF Apart
  <2>6. \A v \in Writer : DOMAIN writer'[v].file \cap DOMAIN writer'[v].files = {}
    BY <1>10, <1>11, <2>1, SMTT(30) DEF Apart
  <2>7. \A v, u \in Writer : u # v => Held(u)' \cap Held(v)' = {}
    BY <1>4, <1>11, <1>12, <2>1 DEF Apart
  <2> QED
    BY <1>2, <2>2, <2>3, <2>4, <2>5, <2>6, <2>7 DEF Apart, TableKept
<1>16. NoneLost'
  <2>1. ASSUME \A v \in Writer : writer'[v].state # "failed", NEW l \in Rows
        PROVE  \/ \E r \in DOMAIN Shards : l \in AtReader(r)'
               \/ \E k \in DOMAIN channel'.queue : l \in Sent(k)'
               \/ \E v \in Writer : l \in Held(v)'
    <3>1. \A v \in Writer : writer[v].state # "failed"
      BY <2>1, <1>3, <1>11 DEF wr
    <3>2. \/ \E r \in DOMAIN Shards : l \in AtReader(r)
          \/ \E k \in DOMAIN channel.queue : l \in Sent(k)
          \/ \E v \in Writer : l \in Held(v)
      BY <3>1 DEF IInv, NoneLost
    <3> QED
      BY <1>4, <1>11, <1>12, <3>2
  <2> QED
    BY <1>2, <2>1 DEF NoneLost, TableKept
<1> QED
  BY <1>11, <1>13, <1>14, <1>15, <1>16 DEF IInv

(* A batch that cannot be written is lost, with a writer that failed *)
LEMMA WriteFailsIInv ==
  ASSUME IInv, NEW w \in Writer, WriteFails(w)
  PROVE  IInv'
<1> DEFINE wr == writer[w]
           n == [wr EXCEPT !.state = "failed"]
<1>1. wr \in WriterRec /\ TypeInv
  BY DEF IInv, TypeInv
<1>2. TableKept
  BY TheTableIsKept DEF IInv, TypeInv, WriteFails
<1>3. /\ wr.state = "running" /\ channel.queue # <<>> /\ channel' = [channel EXCEPT !.queue = Tail(@)]
      /\ reader' = reader /\ copy' = copy
  BY DEF WriteFails
<1>4. /\ channel' \in [queue : Seq(RowBag), open : BOOLEAN]
      /\ \A k \in DOMAIN channel'.queue : k + 1 \in DOMAIN channel.queue /\ k + 1 # 1 /\ Sent(k)' = Sent(k + 1)
  BY <1>1, <1>3, TakeBatch
<1>5. writer' = [writer EXCEPT ![w] = n]
  BY DEF WriteFails
<1>6. n \in WriterRec /\ n.state = "failed" /\ n.file = wr.file /\ n.files = wr.files
  BY <1>1 DEF WriterRec
<1> HIDE DEF n
<1>7. /\ writer' \in [Writer -> WriterRec] /\ writer'[w] = n
      /\ \A v \in Writer : v # w => writer'[v] = writer[v] /\ Held(v)' = Held(v)
      /\ \A r \in DOMAIN Shards : AtReader(r)' = AtReader(r)
      /\ (\A r \in DOMAIN Shards : Reads(r))'
      /\ Collects'
  BY <1>2, <1>3, <1>5, <1>6, WriterSteps, Zenon
<1>8. \A v \in Writer : Held(v)' = Held(v) /\ writer'[v].file = writer[v].file /\ writer'[v].files = writer[v].files
  BY <1>6, <1>7 DEF Held
<1>9. TypeInv'
  BY <1>1, <1>2, <1>3, <1>4, <1>7 DEF TypeInv, TableKept
<1>10. WritersEnd'
  BY <1>3, <1>6, <1>7 DEF IInv, WritersEnd
<1>11. NoneLost'
  BY <1>6, <1>7, SMTT(30) DEF NoneLost
<1>12. Apart'
  <2>1. Apart
    BY DEF IInv
  <2>2. \A r \in DOMAIN Shards : \A k \in DOMAIN channel'.queue : Sent(k)' \cap AtReader(r)' = {}
    BY <1>4, <1>7, <2>1, SMTT(30) DEF Apart
  <2>3. \A k \in DOMAIN channel'.queue : \A j \in DOMAIN channel'.queue : j # k => Sent(j)' \cap Sent(k)' = {}
    <3>1. \A k, j \in DOMAIN channel'.queue : j # k => j + 1 # k + 1
      BY <1>4, channel'.queue \in Seq(RowBag)
    <3> QED
      BY <1>4, <3>1, <2>1 DEF Apart
  <2>4. \A k \in DOMAIN channel'.queue : \A v \in Writer : Sent(k)' \cap Held(v)' = {}
    BY <1>4, <1>8, <2>1 DEF Apart
  <2> QED
    BY <1>2, <1>7, <1>8, <2>1, <2>2, <2>3, <2>4, ZenonT(60) DEF Apart, TableKept
<1> QED
  BY <1>7, <1>9, <1>10, <1>11, <1>12 DEF IInv

(* A writer that finds the channel empty and closed ends its last file *)
LEMMA WriterEndsIInv ==
  ASSUME IInv, NEW w \in Writer, WriterEnds(w)
  PROVE  IInv'
<1> DEFINE wr == writer[w]
           all == wr.files (+) wr.file
           n == [wr EXCEPT !.state = "ok", !.file = EmptyBag, !.files = all]
<1>1. wr \in WriterRec /\ wr.file \in RowBag /\ wr.files \in RowBag /\ TypeInv
  BY DEF IInv, TypeInv, WriterRec
<1>2. TableKept
  BY TheTableIsKept DEF IInv, TypeInv, WriterEnds
<1>3. /\ wr.state = "running" /\ channel.queue = <<>> /\ Closed
      /\ reader' = reader /\ copy' = copy /\ channel' = channel
  BY DEF WriterEnds
<1>4. writer' = [writer EXCEPT ![w] = n]
  BY Zenon DEF WriterEnds
<1>5. all \in RowBag /\ DOMAIN all = DOMAIN wr.files \cup DOMAIN wr.file
  <2>1. DOMAIN wr.files \cap DOMAIN wr.file = {}
    BY DEF IInv, Apart
  <2> QED
    BY <1>1, <2>1, SumOfBatches, Zenon
<1> HIDE DEF all
<1>6. n \in WriterRec /\ n.state = "ok" /\ n.file = EmptyBag /\ n.files = all
  BY <1>1, <1>5, SetIsBag, Zenon DEF WriterRec
<1> HIDE DEF n
<1>7. /\ writer' \in [Writer -> WriterRec] /\ writer'[w] = n
      /\ \A v \in Writer : v # w => writer'[v] = writer[v] /\ Held(v)' = Held(v)
      /\ \A r \in DOMAIN Shards : AtReader(r)' = AtReader(r)
      /\ (\A r \in DOMAIN Shards : Reads(r))'
      /\ Collects'
  BY <1>2, <1>3, <1>4, <1>6, WriterSteps, ZenonT(60)
<1>8. DOMAIN n.file = {} /\ \A v \in Writer : Held(v)' = Held(v)
  BY <1>5, <1>6, <1>7, SetIsBag DEF Held
<1>9. TypeInv'
  BY <1>1, <1>2, <1>3, <1>7, SMTT(30) DEF TypeInv, TableKept
<1>10. WritersEnd'
  <2>1. Closed' = Closed
    BY <1>3, SMTT(30) DEF Closed
  <2> QED
    BY <1>3, <1>6, <1>7, <2>1 DEF IInv, WritersEnd
<1>11. NoneLost'
  <2>1. (\A v \in Writer : writer'[v].state # "failed") => \A v \in Writer : writer[v].state # "failed"
    BY <1>3, <1>7, ZenonT(60)
  <2> QED
    BY <1>2, <1>3, <1>7, <1>8, <2>1, ZenonT(60) DEF IInv, NoneLost, TableKept, Sent
<1>12. Apart'
  <2>1. Apart /\ Shards' = Shards
    BY <1>2, Zenon DEF IInv, TableKept
  <2>2. \A k : Sent(k)' = Sent(k)
    BY <1>3, Zenon DEF Sent
  <2>3. \A v \in Writer : DOMAIN writer'[v].file \cap DOMAIN writer'[v].files = {}
    <3>1. \A v \in Writer : DOMAIN writer[v].file \cap DOMAIN writer[v].files = {}
      BY <2>1, Zenon DEF Apart
    <3> QED BY <1>7, <1>8, <3>1
  <2> QED BY <1>3, <1>7, <1>8, <2>1, <2>2, <2>3, ZenonT(60) DEF Apart
<1> QED
  BY <1>7, <1>9, <1>10, <1>11, <1>12 DEF IInv
-----------------------------------------------------------------------------
(* The caller moves no row *)
LEMMA CallerSteps ==
  ASSUME IInv, TableKept, reader' = reader, writer' = writer, copy' \in CopyRec, Collects',
         \/ channel' = channel
         \/ channel' = [channel EXCEPT !.open = FALSE]
  PROVE  IInv'
<1>1. /\ channel' \in [queue : Seq(RowBag), open : BOOLEAN] /\ channel'.queue = channel.queue
      /\ ~channel.open => ~channel'.open
  BY Zenon DEF IInv, TypeInv
<1>2. TypeInv'
  BY <1>1 DEF IInv, TypeInv, TableKept
<1>3. /\ \A r \in DOMAIN Shards : AtReader(r)' = AtReader(r)
      /\ \A k \in DOMAIN channel.queue : Sent(k)' = Sent(k)
      /\ \A w \in Writer : Held(w)' = Held(w)
  BY <1>1 DEF AtReader, Sent, Held
<1>4. (\A r \in DOMAIN Shards : Reads(r))'
  BY DEF IInv, Reads, TableKept
<1>5. Apart'
  BY <1>1, <1>3 DEF IInv, Apart, TableKept
<1>6. NoneLost'
  BY <1>1, <1>3 DEF IInv, NoneLost, TableKept
<1>7. WritersEnd'
  <2>1. Closed => Closed'
    BY <1>1 DEF Closed
  <2> QED
    BY <1>1, <2>1 DEF IInv, WritersEnd
<1> QED
  BY <1>2, <1>4, <1>5, <1>6, <1>7 DEF IInv

(* A reader that is done adds the rows of its shard to the count *)
LEMMA ReaderCounts ==
  ASSUME IInv, TableKept, copy.success, NEW r \in copy.waiting, reader[r].state = "ok",
         copy'.waiting = copy.waiting \ {r}
  PROVE  /\ Awaited' = Awaited \cup {r}
         /\ Cardinality(UNION {ShardRows(q) : q \in Awaited})' = copy.rows + reader[r].rows
<1> DEFINE U == UNION {ShardRows(q) : q \in Awaited}
<1>1. r \in DOMAIN Shards /\ copy.waiting \in SUBSET DOMAIN Shards /\ copy.rows \in Nat
  BY DEF IInv, TypeInv, CopyRec
<1>2. Awaited' = Awaited \cup {r} /\ r \notin Awaited /\ Awaited \in SUBSET DOMAIN Shards
  BY <1>1 DEF Awaited, TableKept
<1>3. (UNION {ShardRows(q) : q \in Awaited})' = U \cup ShardRows(r)
  <2>1. \A q \in Awaited \cup {r} : ShardRows(q)' = ShardRows(q)
    BY <1>1, <1>2 DEF TableKept
  <2>2. {ShardRows(q) : q \in Awaited}' = {ShardRows(q) : q \in Awaited \cup {r}}
    BY <1>2, <2>1
  <2> QED
    BY <2>2
<1>4. U \cap ShardRows(r) = {} /\ U \in SUBSET Rows /\ ShardRows(r) \in SUBSET Rows
  BY <1>1, <1>2, OneShard DEF IInv, TypeInv
<1>5. IsFiniteSet(U) /\ IsFiniteSet(ShardRows(r))
  BY <1>4, FS_Subset DEF IInv, TypeInv
<1>6. reader[r].rows = Cardinality(ShardRows(r))
  <2>1. reader[r].rows = Cardinality(ShardRows(r) \ reader[r].todo) /\ reader[r].todo = {}
    BY <1>1 DEF IInv, Reads
  <2>2. ShardRows(r) \ reader[r].todo = ShardRows(r)
    BY <2>1
  <2> QED
    BY <2>1, <2>2
<1>7. copy.rows = Cardinality(U)
  BY DEF IInv, Collects
<1> HIDE DEF U
<1>8. Cardinality(U \cup ShardRows(r)) = Cardinality(U) + Cardinality(ShardRows(r))
  <2>1. Cardinality(U \cup ShardRows(r)) = Cardinality(U) + Cardinality(ShardRows(r)) - Cardinality(U \cap ShardRows(r))
    BY <1>5, FS_Union
  <2>2. Cardinality(U \cap ShardRows(r)) = 0
    BY <1>4, FS_EmptySet
  <2>3. Cardinality(U) \in Nat /\ Cardinality(ShardRows(r)) \in Nat
    BY <1>5, FS_CardinalityType
  <2> QED
    BY <2>1, <2>2, <2>3
<1> QED
  BY <1>2, <1>3, <1>6, <1>7, <1>8, Zenon

(* A reader is waited for; the first that failed aborts the others *)
LEMMA AwaitReaderIInv ==
  ASSUME IInv, NEW r \in copy.waiting, AwaitReader(r)
  PROVE  IInv'
<1>1. /\ copy \in CopyRec /\ r \in DOMAIN Shards /\ reader \in [DOMAIN Shards -> ReaderRec]
      /\ copy.waiting \in SUBSET DOMAIN Shards /\ copy.rows \in Nat /\ Collects
  BY DEF IInv, TypeInv, CopyRec
<1>2. TableKept
  BY TheTableIsKept DEF IInv, TypeInv, AwaitReader
<1>3. copy.pc = "readers" /\ copy.next = 1 /\ writer' = writer /\ channel' = channel /\ copy.answer # "copied"
  BY <1>1 DEF AwaitReader, Collects
<1>4. Collected' = Collected
  BY <1>1 DEF AwaitReader, Collected, CopyRec
<1>5. CASE reader[r].state = "ok"
  <2>1. reader' = reader /\ copy' = [copy EXCEPT !.waiting = @ \ {r}, !.rows = @ + reader[r].rows]
    BY <1>5 DEF AwaitReader
  <2>2. reader[r].rows \in Nat
    BY <1>1 DEF ReaderRec
  <2>3. /\ copy' \in CopyRec /\ copy'.waiting = copy.waiting \ {r} /\ copy'.rows = copy.rows + reader[r].rows
        /\ copy'.pc = "readers" /\ copy'.next = 1 /\ copy'.answer # "copied" /\ copy'.success = copy.success
        /\ copy'.loaded = copy.loaded
    <3> DEFINE q == copy.waiting \ {r}
               c == copy.rows + reader[r].rows
    <3>1. q \in SUBSET DOMAIN Shards /\ c \in Nat /\ copy' = [copy EXCEPT !.waiting = q, !.rows = c]
      BY <1>1, <2>1, <2>2
    <3> HIDE DEF q, c
    <3>2. /\ copy' \in CopyRec /\ copy'.waiting = q /\ copy'.rows = c
          /\ copy'.pc = copy.pc /\ copy'.next = copy.next /\ copy'.answer = copy.answer
          /\ copy'.success = copy.success /\ copy'.loaded = copy.loaded
      BY <1>1, <3>1, ZenonT(60) DEF CopyRec
    <3> QED
      BY <1>3, <3>2 DEF q, c
  <2>4. copy.success => /\ Awaited' = Awaited \cup {r}
                        /\ copy'.rows = Cardinality(UNION {ShardRows(q) : q \in Awaited})'
    BY <1>2, <1>5, <2>3, ReaderCounts
  <2>5. Collects'
    BY <1>1, <1>3, <1>4, <1>5, <2>1, <2>3, <2>4 DEF Collects
  <2> QED
    BY <1>2, <1>3, <2>1, <2>3, <2>5, CallerSteps
<1>6. CASE reader[r].state # "ok"
  <2>1. /\ reader' = [q \in DOMAIN reader |->
                        IF reader[q].state = "running" THEN [reader[q] EXCEPT !.state = "aborted"] ELSE reader[q]]
        /\ copy' = [copy EXCEPT !.waiting = {}, !.success = FALSE]
    BY <1>6 DEF AwaitReader
  <2>2. /\ copy' \in CopyRec /\ copy'.pc = "readers" /\ copy'.next = 1 /\ copy'.answer # "copied"
        /\ copy'.success = FALSE
    BY <1>1, <1>3, <2>1, Zenon DEF CopyRec
  <2>3. Collects'
    BY <2>2 DEF Collects
  <2>4. ASSUME NEW q \in DOMAIN Shards
        PROVE  /\ reader'[q] \in ReaderRec /\ reader'[q].state # "running"
               /\ reader'[q].todo = reader[q].todo /\ reader'[q].rows = reader[q].rows
               /\ reader'[q].buffer = reader[q].buffer /\ reader'[q].pending = reader[q].pending
               /\ reader'[q].state = "ok" => reader[q].state = "ok"
    <3>1. reader[q] \in ReaderRec
      BY <1>1
    <3>2. CASE reader[q].state = "running"
      <4>1. reader'[q] = [reader[q] EXCEPT !.state = "aborted"]
        BY <1>1, <2>1, <3>2
      <4> QED
        BY <3>1, <4>1 DEF ReaderRec
    <3>3. CASE reader[q].state # "running"
      <4>1. reader'[q] = reader[q]
        BY <1>1, <2>1, <3>3
      <4> QED
        BY <3>1, <3>3, <4>1
    <3> QED
      BY <3>2, <3>3
  <2>5. reader' \in [DOMAIN Shards -> ReaderRec]
    <3>1. DOMAIN reader' = DOMAIN Shards /\ reader' = [q \in DOMAIN Shards |-> reader'[q]]
      BY <1>1, <2>1
    <3> QED
      BY <2>4, <3>1
  <2>6. TypeInv'
    BY <1>2, <1>3, <2>2, <2>5 DEF IInv, TypeInv, TableKept
  <2>7. \A q \in DOMAIN Shards : AtReader(q)' = AtReader(q)
    BY <2>4, SMTT(30) DEF AtReader
  <2>8. (\A q \in DOMAIN Shards : Reads(q))'
    <3>1. ASSUME NEW q \in DOMAIN Shards PROVE Reads(q)'
      <4>1. Reads(q) /\ ShardRows(q)' = ShardRows(q)
        BY <1>2 DEF IInv, TableKept
      <4> QED
        BY <4>1, <2>4, Zenon DEF Reads
    <3> QED
      BY <1>2, <3>1, SMTT(30) DEF TableKept
  <2>9. /\ \A k \in DOMAIN channel.queue : Sent(k)' = Sent(k)
        /\ \A w \in Writer : Held(w)' = Held(w)
    BY <1>3 DEF Sent, Held
  <2>10. Apart'
    BY <1>2, <1>3, <2>7, <2>9, ZenonT(60) DEF IInv, Apart, TableKept
  <2>11. NoneLost'
    BY <1>2, <1>3, <2>7, <2>9 DEF IInv, NoneLost, TableKept
  <2>12. WritersEnd'
    <3>1. Closed => Closed'
      BY <1>3, <2>4, <2>5 DEF Closed
    <3> QED
      BY <1>3, <3>1 DEF IInv, WritersEnd
  <2> QED
    BY <2>3, <2>6, <2>8, <2>10, <2>11, <2>12 DEF IInv
<1> QED
  BY <1>5, <1>6

(* The snapshot is finalized once no reader is waited for *)
LEMMA FinalizeSnapshotIInv ==
  ASSUME IInv, FinalizeSnapshot
  PROVE  IInv'
<1>1. copy \in CopyRec /\ Collects
  BY DEF IInv, TypeInv
<1>2. TableKept
  BY TheTableIsKept DEF IInv, TypeInv, FinalizeSnapshot
<1>3. /\ copy.pc = "readers" /\ copy.waiting = {} /\ channel' = [channel EXCEPT !.open = FALSE]
      /\ reader' = reader /\ writer' = writer
      /\ \/ copy' = [copy EXCEPT !.pc = "writers"]
         \/ copy' = [copy EXCEPT !.pc = "done", !.answer = "error"]
  BY DEF FinalizeSnapshot, Answer
<1>4. /\ copy' \in CopyRec /\ copy'.pc # "readers" /\ copy'.waiting = {} /\ copy'.next = copy.next
      /\ copy'.rows = copy.rows /\ copy'.success = copy.success /\ copy'.loaded = copy.loaded
      /\ copy'.answer # "copied"
  BY <1>1, <1>3, ZenonT(60) DEF CopyRec, Collects
<1>5. Awaited' = Awaited /\ Collected' = Collected /\ Awaited \in SUBSET DOMAIN Shards
  BY <1>2, <1>3, <1>4 DEF Awaited, Collected, TableKept
<1>6. {ShardRows(q) : q \in Awaited}' = {ShardRows(q) : q \in Awaited}
  BY <1>2, <1>5 DEF TableKept
<1>7. {DOMAIN writer[w].files : w \in Collected}' = {DOMAIN writer[w].files : w \in Collected}
  BY <1>3, <1>5
<1>8. Collects'
  BY <1>1, <1>3, <1>4, <1>5, <1>6, <1>7, ZenonT(60) DEF Collects
<1> QED
  BY <1>2, <1>3, <1>4, <1>8, CallerSteps

(* The files of a writer that is done are collected *)
LEMMA WriterCollects ==
  ASSUME IInv, copy.success, copy.next \in Writer, writer[copy.next].state = "ok",
         writer' = writer, copy'.next = copy.next + 1
  PROVE  LET loaded == copy.loaded (+) writer[copy.next].files
         IN  /\ Collected' = Collected \cup {copy.next}
             /\ loaded \in RowBag
             /\ loaded = SetToBag(UNION {DOMAIN writer[w].files : w \in Collected})'
<1> PICK v \in Writer : v = copy.next
  OBVIOUS
<1> DEFINE U == UNION {DOMAIN writer[w].files : w \in Collected}
           f == writer[v].files
<1>1. Writer \in SUBSET Nat /\ v \in Nat
  BY WriterIsThere
<1>2. Collected' = Collected \cup {v} /\ Collected \in SUBSET Writer /\ v \notin Collected
  BY <1>1 DEF Collected
<1>3. copy.loaded = SetToBag(U) /\ copy.loaded \in RowBag
  BY DEF IInv, Collects, TypeInv, CopyRec
<1>4. f \in RowBag
  BY DEF IInv, TypeInv, WriterRec
<1>5. f = SetToBag(DOMAIN f)
  BY <1>4, BagIsSet
<1>6. U \cap DOMAIN f = {}
  <2>1. \A w \in Collected : DOMAIN writer[w].files \cap DOMAIN f = {}
    BY <1>2 DEF IInv, Apart, Held
  <2> QED
    BY <2>1
<1>7. (UNION {DOMAIN writer[w].files : w \in Collected})' = U \cup DOMAIN f
  <2>1. {DOMAIN writer[w].files : w \in Collected}' = {DOMAIN writer[w].files : w \in Collected \cup {v}}
    BY <1>2
  <2> QED
    BY <2>1, ZenonT(60)
<1>8. DOMAIN copy.loaded = U
  BY <1>3, SetIsBag
<1> HIDE DEF U, f
<1>9. copy.loaded (+) f = SetToBag(U \cup DOMAIN f)
  BY <1>3, <1>5, <1>6, SumOfSets
<1>10. copy.loaded (+) f \in RowBag
  BY <1>3, <1>4, <1>6, <1>8, SumOfBatches, Zenon
<1> QED
  BY <1>2, <1>7, <1>9, <1>10, Zenon DEF f

(* A writer is waited for *)
LEMMA AwaitWriterIInv ==
  ASSUME IInv, AwaitWriter
  PROVE  IInv'
<1> PICK w : w = copy.next
  OBVIOUS
<1>1. copy \in CopyRec /\ Collects /\ copy.next \in Nat \ {0} /\ copy.loaded \in RowBag
  BY DEF IInv, TypeInv, CopyRec
<1>2. TableKept
  BY TheTableIsKept DEF IInv, TypeInv, AwaitWriter
<1>3. /\ copy.pc = "writers" /\ w <= NumWorkers /\ writer[w].state # "running"
      /\ reader' = reader /\ writer' = writer /\ channel' = channel
      /\ IF copy.success /\ writer[w].state = "failed" THEN copy' = [copy EXCEPT !.pc = "done", !.answer = "error"]
         ELSE copy' = [copy EXCEPT !.next = copy.next + 1,
                                   !.loaded = IF copy.success THEN copy.loaded (+) writer[w].files ELSE copy.loaded]
  BY DEF AwaitWriter, Answer
<1>4. w \in Writer
  BY <1>1, <1>3, WriterIsThere DEF Writer
<1>5. copy'.waiting = copy.waiting => Awaited' = Awaited /\ {ShardRows(q) : q \in Awaited}' = {ShardRows(q) : q \in Awaited}
  BY <1>2 DEF Awaited, TableKept
<1>6. CASE copy.success /\ writer[w].state = "failed"
  <2>1. copy' = [copy EXCEPT !.pc = "done", !.answer = "error"]
    BY <1>3, <1>6
  <2>2. /\ copy' \in CopyRec /\ copy'.pc = "done" /\ copy'.waiting = copy.waiting /\ copy'.next = copy.next
        /\ copy'.rows = copy.rows /\ copy'.success = copy.success /\ copy'.loaded = copy.loaded
        /\ copy'.answer = "error"
    BY <1>1, <2>1, Zenon DEF CopyRec
  <2>3. Collected' = Collected /\ {DOMAIN writer[v].files : v \in Collected}' = {DOMAIN writer[v].files : v \in Collected}
    BY <1>3, <2>2 DEF Collected
  <2>4. Collects'
    BY <1>1, <1>3, <1>5, <2>2, <2>3, Zenon DEF Collects
  <2> QED
    BY <1>2, <1>3, <2>2, <2>4, CallerSteps
<1>7. CASE ~(copy.success /\ writer[w].state = "failed")
  <2> DEFINE loaded == IF copy.success THEN copy.loaded (+) writer[w].files ELSE copy.loaded
  <2>1. copy' = [copy EXCEPT !.next = copy.next + 1, !.loaded = loaded]
    BY <1>3, <1>7
  <2>2. copy'.next = copy.next + 1
    BY <2>1, <1>1 DEF CopyRec
  <2>3. copy.success => writer[w].state = "ok"
    BY <1>3, <1>4, <1>7 DEF IInv, TypeInv, WriterRec
  <2>4. copy.success => /\ Collected' = Collected \cup {w} /\ loaded \in RowBag
                        /\ loaded = SetToBag(UNION {DOMAIN writer[v].files : v \in Collected})'
    BY <1>3, <1>4, <2>2, <2>3, WriterCollects
  <2>5. loaded \in RowBag
    BY <2>4, <1>1
  <2> HIDE DEF loaded
  <2>6. /\ copy' \in CopyRec /\ copy'.pc = copy.pc /\ copy'.waiting = copy.waiting
        /\ copy'.rows = copy.rows /\ copy'.success = copy.success /\ copy'.loaded = loaded
        /\ copy'.answer = copy.answer
    <3>1. PICK m \in Nat \ {0} : m = copy.next + 1
      BY <1>1
    <3> QED
      BY <1>1, <2>1, <2>5, <3>1, Zenon DEF CopyRec
  <2>7. Collects'
    BY <1>1, <1>3, <1>5, <2>3, <2>4, <2>6, Zenon DEF Collects
  <2> QED
    BY <1>2, <1>3, <2>6, <2>7, CallerSteps
<1> QED
  BY <1>6, <1>7

(* The files are loaded once every writer has been waited for *)
LEMMA SendLoadFilesIInv ==
  ASSUME IInv, SendLoadFiles
  PROVE  IInv'
<1>1. copy \in CopyRec /\ Collects
  BY DEF IInv, TypeInv
<1>2. TableKept
  BY TheTableIsKept DEF IInv, TypeInv, SendLoadFiles
<1>3. /\ copy.pc = "writers" /\ copy.next > NumWorkers
      /\ copy' = [copy EXCEPT !.pc = "done", !.answer = IF copy.success THEN "copied" ELSE "error"]
      /\ reader' = reader /\ writer' = writer /\ channel' = channel
  BY DEF SendLoadFiles, Answer
<1>4. /\ copy' \in CopyRec /\ copy'.pc = "done" /\ copy'.waiting = copy.waiting /\ copy'.next = copy.next
      /\ copy'.rows = copy.rows /\ copy'.success = copy.success /\ copy'.loaded = copy.loaded
      /\ copy'.answer = "copied" => copy.success
  BY <1>1, <1>3, Zenon DEF CopyRec
<1>5. Awaited' = Awaited /\ Collected' = Collected /\ Awaited \in SUBSET DOMAIN Shards
  BY <1>2, <1>4 DEF Awaited, Collected, TableKept
<1>6. {ShardRows(q) : q \in Awaited}' = {ShardRows(q) : q \in Awaited}
  BY <1>2, <1>5 DEF TableKept
<1>7. Collects'
  BY <1>1, <1>3, <1>4, <1>5, <1>6, ZenonT(60) DEF Collects
<1> QED
  BY <1>2, <1>3, <1>4, <1>7, CallerSteps
-----------------------------------------------------------------------------
(* Once all readers and writers answered well every row is in a file of one *)
(* writer                                                                   *)
LEMMA CopiedIsExact ==
  ASSUME IInv
  PROVE  CopyIsExact
<1> SUFFICES ASSUME copy.answer = "copied"
             PROVE  copy.loaded = SetToBag(Rows) /\ copy.rows = Cardinality(Rows)
  BY DEF CopyIsExact, Rows
<1>1. /\ copy.success /\ copy.waiting = {} /\ copy.next > NumWorkers /\ copy.next \in Nat
      /\ \A r \in Awaited : reader[r].state = "ok"
      /\ copy.rows = Cardinality(UNION {ShardRows(r) : r \in Awaited})
      /\ \A w \in Collected : writer[w].state = "ok"
      /\ copy.loaded = SetToBag(UNION {DOMAIN writer[w].files : w \in Collected})
  BY DEF IInv, Collects, TypeInv, CopyRec
<1>2. Awaited = DOMAIN Shards /\ Collected = Writer
  BY <1>1, WriterIsThere DEF Awaited, Collected, Writer
<1>3. UNION {ShardRows(r) : r \in DOMAIN Shards} = Rows
  BY OneShard DEF IInv, TypeInv
<1>4. channel.queue = <<>> /\ \A w \in Writer : writer[w].file = EmptyBag
  BY <1>1, <1>2, WriterIsThere DEF IInv, WritersEnd
<1>5. \A r \in DOMAIN Shards : AtReader(r) = {}
  BY <1>1, <1>2, SetIsBag, Zenon DEF IInv, Reads, AtReader
<1>6. \A w \in Writer : Held(w) = DOMAIN writer[w].files
  BY <1>4, SetIsBag DEF Held
<1>7. \A l \in Rows : \E w \in Writer : l \in DOMAIN writer[w].files
  <2>1. DOMAIN channel.queue = {} /\ \A w \in Writer : writer[w].state # "failed"
    BY <1>1, <1>2, <1>4
  <2> QED
    BY <1>5, <1>6, <2>1 DEF IInv, NoneLost
<1>8. \A w \in Writer : DOMAIN writer[w].files \in SUBSET Rows
  BY BagIsSet DEF IInv, TypeInv, WriterRec
<1>9. UNION {DOMAIN writer[w].files : w \in Writer} = Rows
  BY <1>7, <1>8, SMTT(30)
<1> QED
  BY <1>1, <1>2, <1>3, <1>9, Zenon

(* Every step of the copy keeps the invariant *)
LEMMA CopyStepIInv ==
  ASSUME IInv, [CopyNext]_copyVars
  PROVE  IInv'
<1>1. CASE CopyNext
  BY <1>1, ReadRowIInv, FinishBatchIInv, SendBatchIInv, ReaderEndsIInv, WriteBatchIInv, WriterEndsIInv, WriteFailsIInv,
     AwaitReaderIInv, FinalizeSnapshotIInv, AwaitWriterIInv, SendLoadFilesIInv DEF CopyNext, CopyProgress
<1>2. CASE UNCHANGED copyVars
  <2>1. TableKept
    BY <1>2, TheTableIsKept DEF IInv, TypeInv, copyVars
  <2>2. /\ reader' = reader /\ writer' = writer /\ channel' = channel /\ copy' = copy /\ copy' \in CopyRec
        /\ copyScenario' = copyScenario
    BY <1>2, SMTT(30) DEF IInv, TypeInv, copyVars
  <2>3. Collects'
    BY <2>2 DEF IInv, Collects, Awaited, Collected, ShardRows, Shards, Rows
  <2> QED
    BY <2>1, <2>2, <2>3, CallerSteps
<1> QED
  BY <1>1, <1>2

(* A copy that succeeds has loaded every row of the table once and counted  *)
(* them (copy_table_stream), for every table, estimate of its blocks,       *)
(* number of shards and writers, size of batches, channel and files, and    *)
(* every order of the tasks' steps and failures                             *)
THEOREM TheCopyIsExact == CopySpec => []CopyIsExact
<1>1. CopyInit => IInv
  BY CopyInitIInv
<1>2. IInv /\ [CopyNext]_copyVars => IInv'
  BY CopyStepIInv
<1>3. IInv => CopyIsExact
  BY CopiedIsExact
<1> QED
  BY <1>1, <1>2, <1>3, PTL DEF CopySpec
=============================================================================
