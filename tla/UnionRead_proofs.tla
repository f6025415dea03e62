--------------------------- MODULE UnionRead_proofs ---------------------------
(***************************************************************************)
(* Proofs about UnionRead, for every log, every set of commits, any number *)
(* of readers and every interleaving of their loads with the marks of the  *)
(* sink: reads cover what they ask for, versions never go back, and the    *)
(* assertions on the LSNs hold, outside the cases the properties except;   *)
(* and, in the second part, for every order of reads, failures, drops and  *)
(* deletions: a read state in use keeps its temporary file.                *)
(***************************************************************************)
EXTENDS UnionRead, TLAPS, SequenceTheorems

Version == states[manager.state].version

(* Nothing was replayed from the write-ahead log *)
Recovered == scenario.replayed = scenario.persisted

(* A snapshot stands at a commit, or where the table was recovered *)
IsVersion(v) == v \in Commits \cup {scenario.persisted}

StateRec == [version : Nat, disk : Nat, temp : Nat, status : {"live", "dropping", "gone"}]

Lsns == 0 .. U64Max

Pc == {"idle", "cached_snapshot", "cached_commit", "cached", "load_snapshot", "load_commit",
       "load_repl", "wait_repl", "wait_snapshot", "read", "reading"}

ReaderRec == [pc : Pc, want : Nat, floor : Nat, cached : Lsns,
              snapshot : Lsns, commit : Lsns, repl : Lsns, state : Nat]

TypeInv ==
  /\ scenario \in Scenarios
  /\ chan \in [snapshot : Lsns, commit : Lsns, repl : Lsns]
  /\ sink \in Lsns
  /\ received \in 0 .. scenario.log
  /\ snap \in [version : 0 .. scenario.log, disk : Nat]
  /\ manager \in [lsn : Lsns, state : Nat]
  /\ states \in Seq(StateRec)
  /\ manager.state \in 1 .. Len(states)
  /\ reader \in [Reader -> ReaderRec]

(* The versions in use are in order, from the one a query holds to the last *)
(* commit the loop got                                                      *)
Holds(q) ==
  q.pc = "reading" => q.state \in 1 .. Len(states) /\ states[q.state].version <= Version

VersionOrder ==
  /\ scenario.persisted <= snap.version /\ snap.version <= received
  /\ chan.snapshot # U64Max => chan.snapshot <= snap.version
  /\ Version <= snap.version
  /\ \A r \in Reader : Holds(reader[r])

(* Between two transactions the commit LSN of the table is its last commit  *)
(* up to the replication LSN; a read starts from an announced snapshot      *)
Announced(q) ==
  q.floor # 0 => IsVersion(q.floor) /\ chan.snapshot # U64Max /\ q.floor <= chan.snapshot

MarksInOrder ==
  Recovered =>
    /\ IsVersion(received) /\ IsVersion(snap.version)
    /\ chan.snapshot # U64Max => IsVersion(chan.snapshot)
    /\ received <= chan.commit /\ scenario.persisted <= chan.repl
    /\ sink = 0 => chan.commit <= chan.repl /\ RowsIn(chan.commit, chan.repl) = {}
    /\ sink # 0 => sink = chan.commit /\ chan.repl < sink
    /\ \A r \in Reader : Announced(reader[r])

(* The snapshot LSN a reader loaded is one the request may be served from *)
SnapshotLoaded(q) ==
  IF q.snapshot = U64Max THEN q.floor = 0
  ELSE q.floor <= q.snapshot /\ q.snapshot <= snap.version

(* What a reader loaded is still right as long as it met no half marked     *)
(* commit                                                                   *)
Loads(q) ==
  /\ q.pc \in {"cached_commit", "load_commit", "load_repl", "read"} => SnapshotLoaded(q)
  /\ q.pc = "load_repl" => sink = 0 /\ q.commit = chan.commit
  /\ q.pc = "read" =>
       /\ RowsIn(IF q.snapshot = U64Max THEN 0 ELSE q.snapshot, q.want) = {}
       /\ q.snapshot = q.commit => RowsIn(q.snapshot, q.repl) = {}

LoadsInOrder == Recovered /\ ~torn => ~panic /\ \A r \in Reader : Loads(reader[r])

Satisfies(version, q) ==
  /\ RowsIn(version, q.want) = {}
  /\ q.want = Latest => version >= q.floor

(* The cached read state has every commit up to the LSN stored with it *)
Covered(lsn) == lsn # U64Max => scenario.persisted <= Version /\ RowsIn(Version, lsn) = {}

Covers(q) ==
  /\ q.pc \in {"cached_snapshot", "cached_commit"} => Covered(q.cached)
  /\ q.pc = "cached" => Satisfies(Version, q)
  /\ q.pc = "reading" => Satisfies(states[q.state].version, q)

CacheCovers ==
  Recovered /\ ~torn /\ ~failed => Covered(manager.lsn) /\ \A r \in Reader : Covers(reader[r])

IInv == TypeInv /\ VersionOrder /\ MarksInOrder /\ LoadsInOrder /\ CacheCovers
-----------------------------------------------------------------------------
(* The drop of unused read states changes only their status *)
LEMMA DroppedKeepsVersions ==
  ASSUME NEW ss \in Seq(StateRec), NEW current, NEW rd
  PROVE  /\ Dropped(ss, current, rd) \in Seq(StateRec)
         /\ Len(Dropped(ss, current, rd)) = Len(ss)
         /\ \A n \in 1 .. Len(ss) : Dropped(ss, current, rd)[n].version = ss[n].version
<1> DEFINE D(n) == IF ss[n].status = "live" /\ n # current /\ Holders(n, rd) = {}
                   THEN [ss[n] EXCEPT !.status = IF ss[n].temp = 0 THEN "gone" ELSE "dropping"]
                   ELSE ss[n]
<1>1. DOMAIN ss = 1 .. Len(ss) /\ Len(ss) \in Nat
  OBVIOUS
<1>2. \A n \in 1 .. Len(ss) : D(n) \in StateRec /\ D(n).version = ss[n].version
  <2> SUFFICES ASSUME NEW n \in 1 .. Len(ss) PROVE D(n) \in StateRec /\ D(n).version = ss[n].version
    OBVIOUS
  <2>1. ss[n] \in StateRec
    BY ElementOfSeq
  <2> QED
    BY <2>1 DEF StateRec
<1>3. Dropped(ss, current, rd) = [n \in 1 .. Len(ss) |-> D(n)]
  BY <1>1 DEF Dropped
<1> HIDE DEF D
<1> QED
  BY <1>1, <1>2, <1>3

ScenarioFacts ==
  /\ scenario \in [log : Nat, commits : SUBSET Nat, persisted : Nat, replayed : Nat,
                   reads : Nat, failures : Nat]
  /\ \A c \in Commits : 0 < c /\ c <= scenario.log
  /\ scenario.persisted <= scenario.replayed /\ scenario.replayed <= scenario.log
  /\ scenario.log < U64Max

(* What ScenarioAssumption says of the scenario being run *)
LEMMA ScenarioHolds ==
  ASSUME scenario \in Scenarios
  PROVE  ScenarioFacts
BY ScenarioAssumption DEF ScenarioFacts, Commits

(* The types of the numbers the arguments below are about *)
Numbers ==
  /\ chan.snapshot \in Nat /\ chan.commit \in Nat /\ chan.repl \in Nat /\ sink \in Nat
  /\ received \in Nat /\ snap.version \in Nat /\ snap.version < U64Max
  /\ Version \in Nat /\ manager.lsn \in Nat /\ manager.lsn <= U64Max
  /\ \A n \in 1 .. Len(states) : states[n].version \in Nat
  /\ \A r \in Reader : /\ reader[r].want \in Nat /\ reader[r].floor \in Nat
                       /\ reader[r].cached \in Nat /\ reader[r].snapshot \in Nat
                       /\ reader[r].commit \in Nat /\ reader[r].repl \in Nat
                       /\ reader[r].snapshot <= U64Max /\ reader[r].state \in Nat

(* Lsns is an interval of naturals; the proofs use it without expanding it *)
LEMMA LsnNumbers == \A x : x \in Lsns <=> x \in Nat /\ x <= U64Max
BY DEF Lsns, U64Max

(* The types of the fields that the proofs compare *)
LEMMA NumbersHold ==
  ASSUME TypeInv
  PROVE  Numbers
<1>0. ScenarioFacts
  BY ScenarioHolds DEF TypeInv
<1>1. chan.snapshot \in Nat /\ chan.commit \in Nat /\ chan.repl \in Nat /\ sink \in Nat
  BY LsnNumbers DEF TypeInv
<1>2. received \in Nat /\ snap.version \in Nat /\ snap.version < U64Max
  BY <1>0 DEF TypeInv, ScenarioFacts, U64Max
<1>3. \A n \in 1 .. Len(states) : states[n].version \in Nat
  <2> SUFFICES ASSUME NEW n \in 1 .. Len(states) PROVE states[n].version \in Nat
    OBVIOUS
  <2>1. states[n] \in StateRec
    BY ElementOfSeq DEF TypeInv
  <2> QED
    BY <2>1 DEF StateRec
<1>4. Version \in Nat
  BY <1>3 DEF TypeInv, Version
<1>5. manager.lsn \in Nat /\ manager.lsn <= U64Max
  BY LsnNumbers DEF TypeInv
<1>6. \A r \in Reader : /\ reader[r].want \in Nat /\ reader[r].floor \in Nat
                        /\ reader[r].cached \in Nat /\ reader[r].snapshot \in Nat
                        /\ reader[r].commit \in Nat /\ reader[r].repl \in Nat
                        /\ reader[r].snapshot <= U64Max /\ reader[r].state \in Nat
  BY LsnNumbers DEF TypeInv, ReaderRec
<1> QED
  BY <1>1, <1>2, <1>3, <1>4, <1>5, <1>6 DEF Numbers

(* A table just recovered, with no reader under way *)
LEMMA InitIInv == Init => IInv
<1> SUFFICES ASSUME Init PROVE IInv
  OBVIOUS
<1>0. ScenarioFacts
  BY ScenarioHolds DEF Init
<1>1. TypeInv
  <2> DEFINE p == scenario.persisted
  <2>1. p \in Nat /\ p <= U64Max /\ p <= scenario.log /\ scenario.replayed \in 0 .. scenario.log
    BY <1>0 DEF ScenarioFacts, U64Max
  <2>2. chan = [snapshot |-> IF p = 0 THEN U64Max ELSE p, commit |-> p, repl |-> p]
          /\ snap = [version |-> p, disk |-> p]
    BY DEF Init
  <2> HIDE DEF p
  <2>3. chan \in [snapshot : Lsns, commit : Lsns, repl : Lsns]
    BY <2>1, <2>2 DEF Lsns, U64Max
  <2>4. snap \in [version : 0 .. scenario.log, disk : Nat]
    BY <1>0, <2>1, <2>2 DEF ScenarioFacts
  <2>5. Empty \in StateRec
    BY DEF StateRec, Empty
  <2>6. states \in Seq(StateRec) /\ Len(states) = 1
    BY <2>5 DEF Init
  <2>7. reader \in [Reader -> ReaderRec]
    BY DEF Init, ReaderRec, Pc, Idle, Latest, Lsns, U64Max
  <2> QED
    BY <2>1, <2>3, <2>4, <2>6, <2>7 DEF TypeInv, Init, Lsns, U64Max
<1> USE <1>0 DEF ScenarioFacts, Init, U64Max, Idle, Empty, Latest
<1>2. VersionOrder
  BY DEF VersionOrder, Holds, Version
<1>3. MarksInOrder
  BY DEF MarksInOrder, Announced, Recovered, IsVersion, RowsIn, Commits
<1>4. LoadsInOrder /\ CacheCovers
  BY DEF LoadsInOrder, Loads, CacheCovers, Covered, Covers
<1> QED
  BY <1>1, <1>2, <1>3, <1>4 DEF IInv
-----------------------------------------------------------------------------
(* The steps of the sink and of the event loop *)
LEMMA TableStepIInv ==
  ASSUME IInv, TableStep
  PROVE  IInv'
<1>0. ScenarioFacts /\ Numbers
  BY ScenarioHolds, NumbersHold DEF IInv, TypeInv
<1>a. UNCHANGED <<manager, states, reader, failed, scenario, panic>>
  BY DEF TableStep, SinkCommit, SinkReplicated, SinkKeepAlive, UpdateSnapshot, NotifySnapshotReader
<1>1. ASSUME TypeInv', \/ SinkCommit \/ SinkReplicated \/ SinkKeepAlive
      PROVE  VersionOrder' /\ CacheCovers'
  <2>1. UNCHANGED snap /\ chan'.snapshot = chan.snapshot /\ (torn => torn')
    <3>1. CASE SinkCommit
      BY <3>1 DEF SinkCommit, IInv, TypeInv
    <3>2. CASE SinkReplicated
      BY <3>2 DEF SinkReplicated, IInv, TypeInv
    <3>3. CASE SinkKeepAlive
      BY <3>3 DEF SinkKeepAlive, IInv, TypeInv
    <3> QED
      BY <1>1, <3>1, <3>2, <3>3
  <2>2. received' \in Nat /\ received <= received'
    <3>1. CASE received' = received
      BY <1>0, <3>1 DEF Numbers
    <3>2. ASSUME NEW lsn \in Commits, received' = Mark(received, lsn)
          PROVE  received' \in Nat /\ received <= received'
      <4>1. lsn \in Nat
        BY <1>0 DEF ScenarioFacts, Commits
      <4> QED
        BY <1>0, <3>2, <4>1 DEF Mark, Numbers
    <3> QED
      BY <1>1, <3>1, <3>2 DEF SinkCommit, SinkReplicated, SinkKeepAlive
  <2>3. VersionOrder'
    BY <1>0, <1>a, <2>1, <2>2 DEF IInv, VersionOrder, Holds, Version, Numbers, ScenarioFacts
  <2>4. CacheCovers'
    BY <1>a, <2>1 DEF IInv, CacheCovers, Covered, Covers, Version, Recovered, Satisfies, RowsIn, Commits
  <2> QED
    BY <2>3, <2>4
<1>2. CASE SinkCommit
  <2>1. PICK lsn \in Commits :
          /\ lsn = NextLsn
          /\ chan' = [chan EXCEPT !.commit = Mark(@, lsn)]
          /\ sink' = lsn /\ received' = Mark(received, lsn)
    BY <1>2 DEF SinkCommit
  <2>2. lsn \in Lsns /\ lsn \in 1 .. scenario.log
    BY <1>0 DEF ScenarioFacts, Lsns, Commits, U64Max
  <2>3. TypeInv'
    <3>1. chan' \in [snapshot : Lsns, commit : Lsns, repl : Lsns]
      BY <2>1, <2>2 DEF Mark, TypeInv, IInv
    <3>2. received' \in 0 .. scenario.log /\ sink' \in Lsns
      BY <2>1, <2>2 DEF Mark, TypeInv, IInv
    <3> QED
      BY <3>1, <3>2, <1>2 DEF SinkCommit, TypeInv, IInv
  <2>4. /\ chan'.snapshot = chan.snapshot /\ chan'.repl = chan.repl
        /\ chan'.commit = Mark(chan.commit, lsn)
    BY <2>1 DEF IInv, TypeInv
  <2>5. UNCHANGED snap /\ sink = 0
    BY <1>2 DEF SinkCommit
  <2>6. MarksInOrder'
    <3> SUFFICES ASSUME Recovered PROVE MarksInOrder'
      BY <1>a DEF MarksInOrder, Recovered
    <3>1. lsn = chan.repl + 1
      BY <1>0, <2>1 DEF NextLsn, Mark, Recovered, IInv, MarksInOrder, ScenarioFacts, Numbers
    <3>2. chan'.commit = lsn /\ sink' = lsn /\ received' = Mark(received, lsn)
      BY <1>0, <2>1, <2>4, <2>5, <3>1 DEF Mark, IInv, MarksInOrder, Numbers
    <3>3. IsVersion(received)' /\ received' <= lsn /\ lsn # 0
      BY <1>0, <1>a, <2>1, <2>2, <2>5, <3>1, <3>2 DEF Mark, IsVersion, Commits, IInv, MarksInOrder, Numbers
    <3> QED
      BY <1>0, <1>a, <2>1, <2>4, <2>5, <3>1, <3>2, <3>3 DEF MarksInOrder, Announced, IsVersion, Commits, IInv, Numbers
  <2>7. LoadsInOrder'
    <3>1. ~torn' => ~torn /\ \A r \in Reader : reader[r].pc # "load_repl"
      BY <1>2 DEF SinkCommit, Loading
    <3> QED
      BY <1>a, <2>5, <3>1 DEF IInv, LoadsInOrder, Loads, Recovered, SnapshotLoaded, RowsIn, Commits
  <2> QED
    BY <1>1, <1>2, <2>3, <2>6, <2>7 DEF IInv
<1>3. CASE SinkReplicated
  <2>1. TypeInv'
    <3>1. chan' \in [snapshot : Lsns, commit : Lsns, repl : Lsns]
      BY <1>3 DEF SinkReplicated, Mark, TypeInv, IInv
    <3> QED
      BY <3>1, <1>3 DEF SinkReplicated, TypeInv, IInv, Lsns, U64Max
  <2>2. /\ chan'.snapshot = chan.snapshot /\ chan'.commit = chan.commit
        /\ chan'.repl = Mark(chan.repl, sink) /\ sink # 0 /\ sink' = 0
        /\ UNCHANGED <<snap, received>>
    BY <1>3 DEF SinkReplicated, IInv, TypeInv
  <2>3. MarksInOrder'
    <3> SUFFICES ASSUME Recovered PROVE MarksInOrder'
      BY <1>a DEF MarksInOrder, Recovered
    <3>1. chan'.repl = chan.commit /\ chan.repl < chan.commit
      BY <1>0, <2>2 DEF Mark, IInv, MarksInOrder, Numbers
    <3>2. RowsIn(chan.commit, chan.commit)' = {}
      BY <1>0, <1>a, <2>2 DEF RowsIn, Commits, Numbers, ScenarioFacts
    <3> QED
      BY <1>0, <1>a, <2>2, <3>1, <3>2 DEF MarksInOrder, Announced, IsVersion, Commits, IInv, Numbers, ScenarioFacts
  <2>4. LoadsInOrder'
    <3>1. ~torn' => ~torn /\ \A r \in Reader : reader[r].pc # "load_repl"
      BY <1>3 DEF SinkReplicated, Loading
    <3> QED
      BY <1>a, <2>2, <3>1 DEF IInv, LoadsInOrder, Loads, Recovered, SnapshotLoaded, RowsIn, Commits
  <2> QED
    BY <1>1, <1>3, <2>1, <2>3, <2>4 DEF IInv
<1>4. CASE SinkKeepAlive
  <2>1. PICK lsn \in Log \ Commits : lsn = NextLsn /\ chan' = [chan EXCEPT !.repl = Mark(@, lsn)]
    BY <1>4 DEF SinkKeepAlive
  <2>2. lsn \in Lsns /\ lsn \in Nat
    BY <1>0 DEF ScenarioFacts, Lsns, Log, U64Max
  <2>3. TypeInv'
    <3>1. chan' \in [snapshot : Lsns, commit : Lsns, repl : Lsns]
      BY <2>1, <2>2 DEF Mark, TypeInv, IInv
    <3> QED
      BY <3>1, <1>4 DEF SinkKeepAlive, TypeInv, IInv
  <2>4. /\ chan'.snapshot = chan.snapshot /\ chan'.commit = chan.commit
        /\ chan'.repl = Mark(chan.repl, lsn) /\ sink = 0
        /\ UNCHANGED <<snap, received, sink, torn>>
    BY <1>4, <2>1 DEF SinkKeepAlive, IInv, TypeInv
  <2>5. MarksInOrder'
    <3> SUFFICES ASSUME Recovered PROVE MarksInOrder'
      BY <1>a DEF MarksInOrder, Recovered
    <3>1. lsn = chan.repl + 1 /\ chan'.repl = lsn
      BY <1>0, <2>1, <2>4 DEF NextLsn, Mark, Recovered, IInv, MarksInOrder, ScenarioFacts, Numbers
    <3>2. RowsIn(chan.commit, chan.repl)' = {}
      BY <1>0, <1>a, <2>1, <2>4, <3>1 DEF RowsIn, Commits, IInv, MarksInOrder, Numbers, ScenarioFacts
    <3> QED
      BY <1>0, <1>a, <2>4, <3>1, <3>2 DEF MarksInOrder, Announced, IsVersion, Commits, IInv, Numbers, ScenarioFacts
  <2>6. LoadsInOrder'
    BY <1>a, <2>4 DEF IInv, LoadsInOrder, Loads, Recovered, SnapshotLoaded, RowsIn, Commits
  <2> QED
    BY <1>1, <1>4, <2>3, <2>5, <2>6 DEF IInv
<1>5. CASE UpdateSnapshot
  <2>1. /\ snap'.version = received /\ snap' \in [version : 0 .. scenario.log, disk : Nat]
        /\ UNCHANGED <<chan, sink, received, torn>>
    BY <1>0, <1>5 DEF UpdateSnapshot, IInv, TypeInv, Numbers, ScenarioFacts
  <2>2. TypeInv'
    BY <1>a, <2>1 DEF TypeInv, IInv
  <2>3. VersionOrder'
    <3>1. VersionOrder
      BY DEF IInv
    <3>2. /\ scenario.persisted \in Nat /\ snap.version \in Nat /\ received \in Nat
          /\ Version \in Nat /\ chan.snapshot \in Nat
      BY <1>0 DEF Numbers, ScenarioFacts
    <3>3. Version' = Version /\ \A s \in Reader : Holds(reader[s])' <=> Holds(reader[s])
      BY <1>a DEF Version, Holds
    <3> QED
      BY <1>a, <2>1, <3>1, <3>2, <3>3 DEF VersionOrder
  <2>4. MarksInOrder'
    BY <1>a, <2>1 DEF IInv, MarksInOrder, Announced, Recovered, IsVersion, RowsIn, Commits
  <2>5. LoadsInOrder'
    <3>1. \A r \in Reader : SnapshotLoaded(reader[r]) => SnapshotLoaded(reader[r])'
      BY <1>0, <1>a, <2>1 DEF SnapshotLoaded, IInv, VersionOrder, Numbers
    <3> QED
      BY <1>a, <2>1, <3>1 DEF IInv, LoadsInOrder, Loads, Recovered, RowsIn, Commits
  <2>6. CacheCovers'
    BY <1>a, <2>1 DEF IInv, CacheCovers, Covered, Covers, Version, Recovered, Satisfies, RowsIn, Commits
  <2> QED
    BY <2>2, <2>3, <2>4, <2>5, <2>6 DEF IInv
<1>6. CASE NotifySnapshotReader
  <2>1. UNCHANGED <<sink, received, snap, torn>>
    BY <1>6 DEF NotifySnapshotReader
  <2>2. /\ chan'.snapshot = snap.version /\ chan'.commit = chan.commit /\ chan'.repl = chan.repl
        /\ chan' \in [snapshot : Lsns, commit : Lsns, repl : Lsns]
    <3>1. snap.version \in Lsns
      BY <1>0, LsnNumbers DEF Numbers, U64Max
    <3> QED
      BY <1>6, <3>1 DEF NotifySnapshotReader, IInv, TypeInv
  <2>3. TypeInv'
    BY <1>a, <2>1, <2>2 DEF TypeInv, IInv
  <2>4. VersionOrder'
    BY <1>0, <1>a, <2>1, <2>2 DEF IInv, VersionOrder, Holds, Version, Numbers
  <2>5. MarksInOrder'
    <3> SUFFICES ASSUME Recovered PROVE MarksInOrder'
      BY <1>a DEF MarksInOrder, Recovered
    <3>1. RowsIn(chan.commit, chan.repl)' = RowsIn(chan.commit, chan.repl)
      BY <1>a, <2>2 DEF RowsIn, Commits
    <3> QED
      BY <1>0, <1>a, <2>1, <2>2, <3>1
      DEF MarksInOrder, Announced, IsVersion, Commits, IInv, VersionOrder, Numbers, ScenarioFacts
  <2>6. LoadsInOrder' /\ CacheCovers'
    BY <1>a, <2>1, <2>2
    DEF IInv, LoadsInOrder, Loads, CacheCovers, Covered, Covers, Version, Satisfies, Recovered, SnapshotLoaded, RowsIn, Commits
  <2> QED
    BY <2>3, <2>4, <2>5, <2>6 DEF IInv
<1> QED
  BY <1>2, <1>3, <1>4, <1>5, <1>6 DEF TableStep
-----------------------------------------------------------------------------
(* A step that changes one reader and leaves the table, the manager and the *)
(* read states alone preserves the invariant if it does so for that reader  *)
LEMMA OneReader ==
  ASSUME IInv, NEW r \in Reader, reader' \in [Reader -> ReaderRec],
         \A s \in Reader \ {r} : reader'[s] = reader[s],
         UNCHANGED <<chan, sink, received, snap, manager, states, failed, scenario>>,
         torn => torn',
         Holds(reader[r])', Recovered => Announced(reader[r])',
         Recovered /\ ~torn /\ ~torn' => ~panic' /\ Loads(reader[r])',
         Recovered /\ ~torn /\ ~torn' /\ ~failed => Covers(reader[r])'
  PROVE  IInv'
<1>1. TypeInv'
  BY DEF IInv, TypeInv
<1>2. VersionOrder'
  BY DEF IInv, VersionOrder, Holds, Version
<1>3. MarksInOrder'
  BY DEF IInv, MarksInOrder, Announced, Recovered, IsVersion, RowsIn, Commits
<1>4. LoadsInOrder'
  <2> SUFFICES ASSUME Recovered', ~torn' PROVE ~panic' /\ \A s \in Reader : Loads(reader[s])'
    BY DEF LoadsInOrder
  <2>1. Recovered /\ ~torn
    BY DEF Recovered
  <2>2. \A s \in Reader : Loads(reader[s])
    BY <2>1 DEF IInv, LoadsInOrder
  <2>3. ~panic' /\ Loads(reader[r])'
    BY <2>1
  <2>4. ASSUME NEW s \in Reader \ {r} PROVE Loads(reader[s])'
    BY <2>2 DEF Loads, SnapshotLoaded, RowsIn, Commits
  <2> QED
    BY <2>3, <2>4
<1>5. CacheCovers'
  <2> SUFFICES ASSUME Recovered', ~torn', ~failed'
               PROVE  Covered(manager.lsn)' /\ \A s \in Reader : Covers(reader[s])'
    BY DEF CacheCovers
  <2>1. Recovered /\ ~torn /\ ~failed
    BY DEF Recovered
  <2>2. Covered(manager.lsn) /\ \A s \in Reader : Covers(reader[s])
    BY <2>1 DEF IInv, CacheCovers
  <2>3. Covers(reader[r])'
    BY <2>1
  <2>4. Covered(manager.lsn)'
    BY <2>2 DEF Covered, Version, RowsIn, Commits
  <2>5. ASSUME NEW s \in Reader \ {r} PROVE Covers(reader[s])'
    BY <2>2 DEF Covers, Covered, Satisfies, Version, RowsIn, Commits
  <2> QED
    BY <2>3, <2>4, <2>5
<1> QED
  BY <1>1, <1>2, <1>3, <1>4, <1>5 DEF IInv

(* Commits that a version has, a later version has too *)
LEMMA RowsInShrinks ==
  ASSUME ScenarioFacts, NEW a \in Nat, NEW b \in Nat, NEW c \in Nat, NEW d \in Nat,
         RowsIn(a, b) = {}, a <= c, d <= b
  PROVE  RowsIn(c, d) = {}
BY DEF RowsIn, Commits, ScenarioFacts

(* The cached read state is not older than an announced snapshot up to the  *)
(* LSN it covers                                                            *)
LEMMA FloorCovered ==
  ASSUME ScenarioFacts, Numbers, NEW lsn \in Nat, lsn # U64Max, Covered(lsn),
         NEW floor \in Nat, floor # 0 => IsVersion(floor), floor <= lsn
  PROVE  Version >= floor
<1>1. CASE floor \in Commits
  BY <1>1 DEF Covered, RowsIn, Numbers
<1>2. CASE floor = 0 \/ floor = scenario.persisted
  BY <1>2 DEF Covered, Numbers, ScenarioFacts
<1> QED
  BY <1>1, <1>2 DEF IsVersion

(* The steps of a reader that build no read state leave the table alone *)
LEMMA LoadingFrame ==
  ASSUME IInv, NEW r \in Reader,
         \/ StartRead(r) \/ LoadCachedSnapshot(r) \/ LoadCachedCommit(r) \/ ReadCached(r)
         \/ LoadSnapshot(r) \/ LoadCommit(r) \/ LoadRepl(r) \/ Wake(r) \/ ReadShared(r)
  PROVE  /\ ScenarioFacts /\ Numbers
         /\ UNCHANGED <<chan, sink, received, snap, manager, states, failed, scenario>>
         /\ \A from, to : RowsIn(from, to)' = RowsIn(from, to)
         /\ Version' = Version /\ (Recovered' <=> Recovered)
         /\ \A v : IsVersion(v)' <=> IsVersion(v)
         /\ \A x \in Nat : RowsIn(x, 0) = {}
<1>0. ScenarioFacts /\ Numbers
  BY ScenarioHolds, NumbersHold DEF IInv, TypeInv
<1>a. UNCHANGED <<chan, sink, received, snap, manager, states, failed, scenario>>
  BY DEF StartRead, LoadCachedSnapshot, LoadCachedCommit, ReadCached, LoadSnapshot, LoadCommit,
         LoadRepl, Wake, ReadShared
<1>b. \A from, to : RowsIn(from, to)' = RowsIn(from, to)
  BY <1>a DEF RowsIn, Commits
<1>c. /\ Version' = Version /\ (Recovered' <=> Recovered)
      /\ \A v : IsVersion(v)' <=> IsVersion(v)
  BY <1>a DEF Version, Recovered, IsVersion, Commits
<1>d. \A x \in Nat : RowsIn(x, 0) = {}
  BY <1>0 DEF RowsIn, ScenarioFacts, Commits
<1> QED
  BY <1>0, <1>a, <1>b, <1>c, <1>d

(* A reader starts *)
LEMMA StartReadIInv ==
  ASSUME IInv, NEW r \in Reader, StartRead(r)
  PROVE  IInv'
<1> DEFINE q == reader[r]
           p == reader'[r]
<1>0. ScenarioFacts /\ Numbers
  BY LoadingFrame
<1>a. UNCHANGED <<chan, sink, received, snap, manager, states, failed, scenario>>
  BY LoadingFrame
<1>b. \A from, to : RowsIn(from, to)' = RowsIn(from, to)
  BY LoadingFrame
<1>c. /\ Version' = Version /\ (Recovered' <=> Recovered)
      /\ \A v : IsVersion(v)' <=> IsVersion(v)
  BY LoadingFrame
<1>1. PICK want \in {Latest} \cup Log :
        reader' = [reader EXCEPT ![r] =
          [Idle EXCEPT !.pc = "cached_snapshot", !.want = want, !.cached = manager.lsn,
                       !.floor = IF want # Latest \/ chan.snapshot = U64Max THEN 0 ELSE chan.snapshot]]
  BY DEF StartRead
<1>2. want \in Nat /\ manager.lsn \in Lsns /\ chan.snapshot \in Nat
  BY <1>0, LsnNumbers DEF ScenarioFacts, Log, Latest, Numbers
<1>3. p = [pc |-> "cached_snapshot", want |-> want, cached |-> manager.lsn, snapshot |-> 0,
           floor |-> IF want # Latest \/ chan.snapshot = U64Max THEN 0 ELSE chan.snapshot,
           commit |-> 0, repl |-> 0, state |-> 0]
  BY <1>1 DEF IInv, TypeInv, Idle
<1>4. p \in ReaderRec
  <2>1. 0 \in Lsns
    BY LsnNumbers DEF U64Max
  <2> QED
    BY <1>2, <1>3, <2>1 DEF ReaderRec, Pc
<1>5. reader' \in [Reader -> ReaderRec] /\ \A s \in Reader \ {r} : reader'[s] = reader[s]
  BY <1>1, <1>3, <1>4 DEF IInv, TypeInv
<1>6. torn' = torn /\ panic' = panic
  BY DEF StartRead
<1>7. Holds(q)' /\ (Loads(q)' <=> TRUE)
  BY <1>3 DEF Holds, Loads
<1>8. Recovered => Announced(q)'
  BY <1>a, <1>c, <1>2, <1>3, SMTT(40) DEF Announced, IInv, MarksInOrder
<1>9. Recovered /\ ~torn /\ ~failed => Covers(q)'
  <2>1. Recovered /\ ~torn /\ ~failed => Covered(manager.lsn)
    BY DEF IInv, CacheCovers
  <2> QED
    BY <1>a, <1>b, <1>c, <1>3, <2>1 DEF Covers, Covered
<1> QED
  BY <1>a, <1>5, <1>6, <1>7, <1>8, <1>9, OneReader DEF IInv, LoadsInOrder

(* A reader loads the snapshot LSN for the cache *)
LEMMA LoadCachedSnapshotIInv ==
  ASSUME IInv, NEW r \in Reader, LoadCachedSnapshot(r)
  PROVE  IInv'
<1> DEFINE q == reader[r]
           p == reader'[r]
<1>0. ScenarioFacts /\ Numbers
  BY LoadingFrame
<1>a. UNCHANGED <<chan, sink, received, snap, manager, states, failed, scenario>>
  BY LoadingFrame
<1>b. \A from, to : RowsIn(from, to)' = RowsIn(from, to)
  BY LoadingFrame
<1>c. /\ Version' = Version /\ (Recovered' <=> Recovered)
      /\ \A v : IsVersion(v)' <=> IsVersion(v)
  BY LoadingFrame
<1>1. /\ reader' \in [Reader -> ReaderRec] /\ \A s \in Reader \ {r} : reader'[s] = reader[s]
      /\ q.pc = "cached_snapshot" /\ p.pc = "cached_commit" /\ p.snapshot = chan.snapshot
      /\ p.want = q.want /\ p.floor = q.floor /\ p.cached = q.cached
  <2>1. /\ reader \in [Reader -> ReaderRec] /\ q.pc = "cached_snapshot" /\ chan.snapshot \in Lsns
        /\ reader' = [reader EXCEPT ![r].pc = "cached_commit", ![r].snapshot = chan.snapshot]
    BY DEF LoadCachedSnapshot, IInv, TypeInv
  <2> QED
    BY <2>1 DEF ReaderRec, Pc
<1>2. UNCHANGED <<torn, panic>>
  BY DEF LoadCachedSnapshot
<1>3. Recovered => Announced(q)'
  BY <1>a, <1>c, <1>1 DEF Announced, IInv, MarksInOrder
<1>4. Holds(q)'
  BY <1>1 DEF Holds
<1>5. Recovered /\ ~torn /\ ~torn' => Loads(q)'
  <2> SUFFICES ASSUME Recovered PROVE Loads(q)'
    OBVIOUS
  <2>1. Announced(q) /\ (chan.snapshot # U64Max => chan.snapshot <= snap.version)
    BY DEF IInv, MarksInOrder, VersionOrder
  <2>2. q.floor \in Nat /\ chan.snapshot \in Nat
    BY <1>0 DEF Numbers
  <2>3. SnapshotLoaded(q)'
    BY <1>a, <1>1, <2>1, <2>2 DEF SnapshotLoaded, Announced
  <2> QED
    BY <1>1, <2>3 DEF Loads
<1>6. Recovered /\ ~torn /\ ~failed => Covers(q)'
  BY <1>a, <1>b, <1>c, <1>1 DEF Covers, Covered, IInv, CacheCovers
<1> QED
  BY <1>a, <1>1, <1>2, <1>3, <1>4, <1>5, <1>6, OneReader DEF IInv, LoadsInOrder

(* A reader loads the commit LSN for the cache *)
LEMMA LoadCachedCommitIInv ==
  ASSUME IInv, NEW r \in Reader, LoadCachedCommit(r)
  PROVE  IInv'
<1> DEFINE q == reader[r]
           p == reader'[r]
<1>0. ScenarioFacts /\ Numbers
  BY LoadingFrame
<1>a. UNCHANGED <<chan, sink, received, snap, manager, states, failed, scenario>>
  BY LoadingFrame
<1>b. \A from, to : RowsIn(from, to)' = RowsIn(from, to)
  BY LoadingFrame
<1>c. /\ Version' = Version /\ (Recovered' <=> Recovered)
      /\ \A v : IsVersion(v)' <=> IsVersion(v)
  BY LoadingFrame
<1>1. /\ reader' \in [Reader -> ReaderRec] /\ \A s \in Reader \ {r} : reader'[s] = reader[s]
      /\ q.pc = "cached_commit" /\ p.pc \in {"cached", "load_snapshot"} /\ p.snapshot = q.snapshot
      /\ p.pc = "cached" => ShouldUseCache(q.want, q.cached, q.snapshot, chan.commit)
      /\ p.want = q.want /\ p.floor = q.floor /\ p.cached = q.cached
  <2> DEFINE pc == IF ShouldUseCache(q.want, q.cached, q.snapshot, chan.commit)
                   THEN "cached" ELSE "load_snapshot"
  <2>1. /\ reader \in [Reader -> ReaderRec] /\ q.pc = "cached_commit"
        /\ reader' = [reader EXCEPT ![r].pc = pc]
    BY DEF LoadCachedCommit, IInv, TypeInv, Goto
  <2>2. /\ pc \in {"cached", "load_snapshot"}
        /\ pc = "cached" => ShouldUseCache(q.want, q.cached, q.snapshot, chan.commit)
    OBVIOUS
  <2> HIDE DEF pc
  <2> QED
    BY <2>1, <2>2 DEF ReaderRec, Pc
<1>2. UNCHANGED <<torn, panic>>
  BY DEF LoadCachedCommit
<1>3. Recovered => Announced(q)'
  BY <1>a, <1>c, <1>1 DEF Announced, IInv, MarksInOrder
<1>4. Holds(q)'
  BY <1>1 DEF Holds
<1>5. Recovered /\ ~torn /\ ~torn' => Loads(q)'
  BY <1>1 DEF Loads
<1>6. Recovered /\ ~torn /\ ~failed => Covers(q)'
  <2> SUFFICES ASSUME Recovered, ~torn, ~failed, p.pc = "cached" PROVE Satisfies(Version, q)
    BY <1>b, <1>c, <1>1 DEF Covers, Satisfies
  <2>1. /\ q.cached # U64Max /\ q.cached = q.snapshot /\ (q.want # Latest => q.cached >= q.want)
        /\ Covered(q.cached) /\ SnapshotLoaded(q) /\ Announced(q)
    BY <1>1 DEF ShouldUseCache, IInv, CacheCovers, Covers, LoadsInOrder, Loads, MarksInOrder
  <2>2. q.cached \in Nat /\ q.want \in Nat /\ q.floor \in Nat /\ Version \in Nat
    BY <1>0 DEF Numbers
  <2>3. q.want <= q.cached
    BY <2>1, <2>2 DEF Latest
  <2>4. RowsIn(Version, q.want) = {}
    BY <1>0, <2>1, <2>2, <2>3, RowsInShrinks DEF Covered
  <2>5. Version >= q.floor
    BY <1>0, <2>1, <2>2, FloorCovered DEF SnapshotLoaded, Announced
  <2> QED
    BY <2>4, <2>5 DEF Satisfies
<1> QED
  BY <1>a, <1>1, <1>2, <1>3, <1>4, <1>5, <1>6, OneReader DEF IInv, LoadsInOrder

(* A reader gets the cached read state *)
LEMMA ReadCachedIInv ==
  ASSUME IInv, NEW r \in Reader, ReadCached(r)
  PROVE  IInv'
<1> DEFINE q == reader[r]
           p == reader'[r]
<1>0. ScenarioFacts /\ Numbers
  BY LoadingFrame
<1>a. UNCHANGED <<chan, sink, received, snap, manager, states, failed, scenario>>
  BY LoadingFrame
<1>b. \A from, to : RowsIn(from, to)' = RowsIn(from, to)
  BY LoadingFrame
<1>c. /\ Version' = Version /\ (Recovered' <=> Recovered)
      /\ \A v : IsVersion(v)' <=> IsVersion(v)
  BY LoadingFrame
<1>1. /\ reader' \in [Reader -> ReaderRec] /\ \A s \in Reader \ {r} : reader'[s] = reader[s]
      /\ q.pc = "cached" /\ p.pc = "reading" /\ p.state = manager.state
      /\ p.want = q.want /\ p.floor = q.floor /\ p.cached = q.cached
  <2>1. /\ reader \in [Reader -> ReaderRec] /\ q.pc = "cached" /\ manager.state \in Nat
        /\ reader' = [reader EXCEPT ![r].pc = "reading", ![r].state = manager.state]
    BY DEF ReadCached, IInv, TypeInv, Answer
  <2> QED
    BY <2>1 DEF ReaderRec, Pc
<1>2. UNCHANGED <<torn, panic>>
  BY DEF ReadCached
<1>3. Recovered => Announced(q)'
  BY <1>a, <1>c, <1>1 DEF Announced, IInv, MarksInOrder
<1>4. Holds(q)'
  <2>1. manager.state \in 1 .. Len(states) /\ Version \in Nat
    BY <1>0 DEF IInv, TypeInv, Numbers
  <2> QED
    <3>1. /\ p.state = manager.state /\ Len(states') = Len(states) /\ Version' = Version
          /\ states'[p.state].version = Version
      BY <1>a, <1>c, <1>1 DEF Version
    <3>2. Version <= Version
      BY <2>1
    <3> QED
      BY <2>1, <3>1, <3>2 DEF Holds
<1>5. Recovered /\ ~torn /\ ~torn' => Loads(q)'
  BY <1>1 DEF Loads
<1>6. Recovered /\ ~torn /\ ~failed => Covers(q)'
  BY <1>a, <1>b, <1>c, <1>1 DEF Covers, Satisfies, Version, IInv, CacheCovers
<1> QED
  BY <1>a, <1>1, <1>2, <1>3, <1>4, <1>5, <1>6, OneReader DEF IInv, LoadsInOrder

(* A reader loads the snapshot LSN *)
LEMMA LoadSnapshotIInv ==
  ASSUME IInv, NEW r \in Reader, LoadSnapshot(r)
  PROVE  IInv'
<1> DEFINE q == reader[r]
           p == reader'[r]
<1>0. ScenarioFacts /\ Numbers
  BY LoadingFrame
<1>a. UNCHANGED <<chan, sink, received, snap, manager, states, failed, scenario>>
  BY LoadingFrame
<1>c. /\ Version' = Version /\ (Recovered' <=> Recovered)
      /\ \A v : IsVersion(v)' <=> IsVersion(v)
  BY LoadingFrame
<1>1. /\ reader' \in [Reader -> ReaderRec] /\ \A s \in Reader \ {r} : reader'[s] = reader[s]
      /\ q.pc = "load_snapshot" /\ p.pc = "load_commit" /\ p.snapshot = chan.snapshot
      /\ p.want = q.want /\ p.floor = q.floor /\ p.cached = q.cached
  <2>1. /\ reader \in [Reader -> ReaderRec] /\ q.pc = "load_snapshot" /\ chan.snapshot \in Lsns
        /\ reader' = [reader EXCEPT ![r].pc = "load_commit", ![r].snapshot = chan.snapshot]
    BY DEF LoadSnapshot, IInv, TypeInv
  <2> QED
    BY <2>1 DEF ReaderRec, Pc
<1>2. UNCHANGED <<torn, panic>>
  BY DEF LoadSnapshot
<1>3. Recovered => Announced(q)'
  BY <1>a, <1>c, <1>1 DEF Announced, IInv, MarksInOrder
<1>4. Holds(q)'
  BY <1>1 DEF Holds
<1>5. Recovered /\ ~torn /\ ~torn' => Loads(q)'
  <2> SUFFICES ASSUME Recovered PROVE Loads(q)'
    OBVIOUS
  <2>1. Announced(q) /\ (chan.snapshot # U64Max => chan.snapshot <= snap.version)
    BY DEF IInv, MarksInOrder, VersionOrder
  <2>2. q.floor \in Nat /\ chan.snapshot \in Nat
    BY <1>0 DEF Numbers
  <2>3. SnapshotLoaded(q)'
    BY <1>a, <1>1, <2>1, <2>2, SMTT(40) DEF SnapshotLoaded, Announced
  <2> QED
    BY <1>1, <2>3 DEF Loads
<1>6. Recovered /\ ~torn /\ ~failed => Covers(q)'
  BY <1>1 DEF Covers
<1> QED
  BY <1>a, <1>1, <1>2, <1>3, <1>4, <1>5, <1>6, OneReader DEF IInv, LoadsInOrder

(* A reader loads the commit LSN *)
LEMMA LoadCommitIInv ==
  ASSUME IInv, NEW r \in Reader, LoadCommit(r)
  PROVE  IInv'
<1> DEFINE q == reader[r]
           p == reader'[r]
<1>a. UNCHANGED <<chan, sink, received, snap, manager, states, failed, scenario>>
  BY LoadingFrame
<1>c. /\ Version' = Version /\ (Recovered' <=> Recovered)
      /\ \A v : IsVersion(v)' <=> IsVersion(v)
  BY LoadingFrame
<1>1. /\ reader' \in [Reader -> ReaderRec] /\ \A s \in Reader \ {r} : reader'[s] = reader[s]
      /\ q.pc = "load_commit" /\ p.pc = "load_repl" /\ p.snapshot = q.snapshot /\ p.commit = chan.commit
      /\ p.want = q.want /\ p.floor = q.floor /\ p.cached = q.cached
  <2>1. /\ reader \in [Reader -> ReaderRec] /\ q.pc = "load_commit" /\ chan.commit \in Lsns
        /\ reader' = [reader EXCEPT ![r].pc = "load_repl", ![r].commit = chan.commit]
    BY DEF LoadCommit, IInv, TypeInv
  <2> QED
    BY <2>1 DEF ReaderRec, Pc
<1>2. panic' = panic /\ (torn => torn') /\ (~torn' => sink = 0)
  BY DEF LoadCommit
<1>3. Recovered => Announced(q)'
  BY <1>a, <1>c, <1>1 DEF Announced, IInv, MarksInOrder
<1>4. Holds(q)'
  BY <1>1 DEF Holds
<1>5. Recovered /\ ~torn /\ ~torn' => Loads(q)'
  BY <1>a, <1>c, <1>1, <1>2 DEF Loads, SnapshotLoaded, IInv, LoadsInOrder
<1>6. Recovered /\ ~torn /\ ~failed => Covers(q)'
  BY <1>1 DEF Covers
<1> QED
  BY <1>a, <1>1, <1>2, <1>3, <1>4, <1>5, <1>6, OneReader DEF IInv, LoadsInOrder

(* A reader loads the replication LSN and judges what it loaded *)
LEMMA LoadReplIInv ==
  ASSUME IInv, NEW r \in Reader, LoadRepl(r)
  PROVE  IInv'
<1> DEFINE q == reader[r]
           p == reader'[r]
<1>0. ScenarioFacts /\ Numbers
  BY LoadingFrame
<1>a. UNCHANGED <<chan, sink, received, snap, manager, states, failed, scenario>>
  BY LoadingFrame
<1>b. \A from, to : RowsIn(from, to)' = RowsIn(from, to)
  BY LoadingFrame
<1>c. /\ Version' = Version /\ (Recovered' <=> Recovered)
      /\ \A v : IsVersion(v)' <=> IsVersion(v)
  BY LoadingFrame
<1>d. \A x \in Nat : RowsIn(x, 0) = {}
  BY LoadingFrame
<1>1. /\ reader' \in [Reader -> ReaderRec] /\ \A s \in Reader \ {r} : reader'[s] = reader[s]
      /\ q.pc = "load_repl" /\ p.snapshot = q.snapshot /\ p.commit = q.commit /\ p.repl = chan.repl
      /\ p.pc \in {"read", "wait_repl", "wait_snapshot"}
      /\ p.pc = "read" => CanSatisfy(q.want, q.snapshot, q.commit, chan.repl)
      /\ p.want = q.want /\ p.floor = q.floor /\ p.cached = q.cached
  <2> DEFINE pc == IF CanSatisfy(q.want, q.snapshot, q.commit, chan.repl)
                   THEN "read" ELSE WaitsFor(q.want, chan.repl)
  <2>1. /\ q.pc = "load_repl" /\ chan.repl \in Lsns
        /\ reader' = [reader EXCEPT ![r].repl = chan.repl, ![r].pc = pc]
    BY DEF LoadRepl, IInv, TypeInv
  <2>2. /\ pc \in {"read", "wait_repl", "wait_snapshot"}
        /\ pc = "read" => CanSatisfy(q.want, q.snapshot, q.commit, chan.repl)
    BY DEF WaitsFor
  <2> HIDE DEF pc
  <2> QED
    BY <2>1, <2>2 DEF IInv, TypeInv, ReaderRec, Pc
<1>2. torn => torn'
  BY DEF LoadRepl
<1>3. Recovered => Announced(q)'
  BY <1>a, <1>c, <1>1 DEF Announced, IInv, MarksInOrder
<1>4. Holds(q)'
  BY <1>1 DEF Holds
<1>5. Recovered /\ ~torn /\ ~torn' => ~panic' /\ Loads(q)'
  <2> SUFFICES ASSUME Recovered, ~torn PROVE ~panic' /\ Loads(q)'
    OBVIOUS
  <2>1. /\ SnapshotLoaded(q) /\ q.commit = chan.commit
        /\ chan.commit <= chan.repl /\ RowsIn(chan.commit, chan.repl) = {}
        /\ snap.version <= chan.commit
    <3>1. VersionOrder /\ MarksInOrder /\ LoadsInOrder
      BY DEF IInv
    <3>2. Loads(q)
      BY <3>1 DEF LoadsInOrder
    <3>3. sink = 0 /\ SnapshotLoaded(q) /\ q.commit = chan.commit
      BY <1>1, <3>2 DEF Loads
    <3>4. /\ chan.commit <= chan.repl /\ RowsIn(chan.commit, chan.repl) = {}
          /\ received <= chan.commit
      BY <3>1, <3>3 DEF MarksInOrder
    <3>5. snap.version <= received
      BY <3>1 DEF VersionOrder
    <3>6. snap.version \in Nat /\ received \in Nat /\ chan.commit \in Nat
      BY <1>0 DEF Numbers
    <3>7. snap.version <= chan.commit
      BY <3>4, <3>5, <3>6
    <3> QED
      BY <3>3, <3>4, <3>7
  <2>2. /\ q.want \in Nat /\ q.snapshot \in Nat /\ q.commit \in Nat /\ chan.repl \in Nat
        /\ snap.version \in Nat /\ chan.commit \in Nat
    BY <1>0 DEF Numbers
  <2>3. ~panic'
    <3>1. LsnsInOrder(q.snapshot, q.commit, chan.repl)
      BY <2>1, <2>2 DEF LsnsInOrder, SnapshotLoaded
    <3>2. panic' = ~LsnsInOrder(q.snapshot, q.commit, chan.repl)
      BY DEF LoadRepl
    <3> QED
      BY <3>1, <3>2
  <2>4. ASSUME p.pc = "read"
        PROVE  RowsIn(IF q.snapshot = U64Max THEN 0 ELSE q.snapshot, q.want) = {}
    <3>1. CASE q.want = Latest
      BY <1>d, <2>2, <3>1 DEF Latest
    <3>2. CASE q.snapshot # U64Max /\ q.want <= q.snapshot
      BY <1>0, <2>2, <3>2 DEF RowsIn, ScenarioFacts, Commits
    <3>3. CASE q.want <= chan.repl /\ SnapshotIsClean(q.snapshot, q.commit)
      BY <1>0, <2>1, <2>2, <3>3, RowsInShrinks DEF SnapshotIsClean, NoCommitLsn
    <3> QED
      BY <1>1, <2>4, <3>1, <3>2, <3>3 DEF CanSatisfy
  <2>5. SnapshotLoaded(q)'
    BY <1>a, <1>1, <2>1 DEF SnapshotLoaded
  <2> QED
    BY <1>b, <1>1, <2>1, <2>3, <2>4, <2>5 DEF Loads
<1>6. Recovered /\ ~torn /\ ~failed => Covers(q)'
  BY <1>1 DEF Covers
<1> QED
  BY <1>a, <1>1, <1>2, <1>3, <1>4, <1>5, <1>6, OneReader DEF IInv, LoadsInOrder

(* A waiting reader is woken *)
LEMMA WakeIInv ==
  ASSUME IInv, NEW r \in Reader, Wake(r)
  PROVE  IInv'
<1> DEFINE q == reader[r]
           p == reader'[r]
<1>0. ScenarioFacts /\ Numbers
  BY LoadingFrame
<1>a. UNCHANGED <<chan, sink, received, snap, manager, states, failed, scenario>>
  BY LoadingFrame
<1>c. /\ Version' = Version /\ (Recovered' <=> Recovered)
      /\ \A v : IsVersion(v)' <=> IsVersion(v)
  BY LoadingFrame
<1>1. /\ reader' \in [Reader -> ReaderRec] /\ \A s \in Reader \ {r} : reader'[s] = reader[s]
      /\ p.pc = "load_snapshot"
      /\ p.want = q.want /\ p.floor = q.floor /\ p.cached = q.cached
  BY <1>0, LsnNumbers DEF Wake, IInv, TypeInv, ReaderRec, Pc, Goto
<1>2. UNCHANGED <<torn, panic>>
  BY DEF Wake
<1>3. Recovered => Announced(q)'
  BY <1>a, <1>c, <1>1 DEF Announced, IInv, MarksInOrder
<1>4. Holds(q)'
  BY <1>1 DEF Holds
<1>5. Recovered /\ ~torn /\ ~torn' => Loads(q)'
  BY <1>1 DEF Loads
<1>6. Recovered /\ ~torn /\ ~failed => Covers(q)'
  BY <1>1 DEF Covers
<1> QED
  BY <1>a, <1>1, <1>2, <1>3, <1>4, <1>5, <1>6, OneReader DEF IInv, LoadsInOrder

(* A reader gets the read state another reader built *)
LEMMA ReadSharedIInv ==
  ASSUME IInv, NEW r \in Reader, ReadShared(r)
  PROVE  IInv'
<1> DEFINE q == reader[r]
           p == reader'[r]
<1>0. ScenarioFacts /\ Numbers
  BY LoadingFrame
<1>a. UNCHANGED <<chan, sink, received, snap, manager, states, failed, scenario>>
  BY LoadingFrame
<1>b. \A from, to : RowsIn(from, to)' = RowsIn(from, to)
  BY LoadingFrame
<1>c. /\ Version' = Version /\ (Recovered' <=> Recovered)
      /\ \A v : IsVersion(v)' <=> IsVersion(v)
  BY LoadingFrame
<1>1. /\ reader' \in [Reader -> ReaderRec] /\ \A s \in Reader \ {r} : reader'[s] = reader[s]
      /\ q.pc = "read" /\ p.pc = "reading" /\ p.state = manager.state /\ ~NeedsRebuild(q)
      /\ p.want = q.want /\ p.floor = q.floor /\ p.cached = q.cached
  <2>1. /\ reader \in [Reader -> ReaderRec] /\ q.pc = "read" /\ ~NeedsRebuild(q) /\ manager.state \in Nat
        /\ reader' = [reader EXCEPT ![r].pc = "reading", ![r].state = manager.state]
    BY DEF ReadShared, IInv, TypeInv, Answer
  <2> QED
    BY <2>1 DEF ReaderRec, Pc
<1>2. UNCHANGED <<torn, panic>>
  BY DEF ReadShared
<1>3. Recovered => Announced(q)'
  BY <1>a, <1>c, <1>1 DEF Announced, IInv, MarksInOrder
<1>4. Holds(q)'
  <2>1. manager.state \in 1 .. Len(states) /\ Version \in Nat
    BY <1>0 DEF IInv, TypeInv, Numbers
  <2> QED
    BY <1>a, <1>1, <2>1 DEF Holds, Version
<1>5. Recovered /\ ~torn /\ ~torn' => Loads(q)'
  BY <1>1 DEF Loads
<1>6. Recovered /\ ~torn /\ ~failed => Covers(q)'
  <2> SUFFICES ASSUME Recovered, ~torn, ~failed PROVE Satisfies(Version, q)
    BY <1>a, <1>b, <1>c, <1>1 DEF Covers, Satisfies, Version
  <2>1. /\ Covered(manager.lsn) /\ SnapshotLoaded(q) /\ Announced(q)
        /\ RowsIn(IF q.snapshot = U64Max THEN 0 ELSE q.snapshot, q.want) = {}
    BY <1>1 DEF IInv, CacheCovers, LoadsInOrder, Loads, MarksInOrder
  <2>2. /\ q.snapshot \in Nat /\ q.want \in Nat /\ q.floor \in Nat /\ Version \in Nat
        /\ manager.lsn \in Nat /\ manager.lsn <= U64Max
    BY <1>0 DEF Numbers
  <2>3. manager.lsn # U64Max /\ q.snapshot <= manager.lsn /\ q.snapshot # U64Max
    BY <1>1, <2>2 DEF NeedsRebuild, U64Max
  <2>4. RowsIn(Version, q.want) = {}
    BY <1>0, <2>1, <2>2, <2>3 DEF RowsIn, Commits, ScenarioFacts, Covered
  <2>5. Version >= q.floor
    BY <1>0, <2>1, <2>2, <2>3, FloorCovered DEF SnapshotLoaded, Announced
  <2> QED
    BY <2>4, <2>5 DEF Satisfies
<1> QED
  BY <1>a, <1>1, <1>2, <1>3, <1>4, <1>5, <1>6, OneReader DEF IInv, LoadsInOrder

(* The end of a read drops what nobody refers to *)
LEMMA FinishReadIInv ==
  ASSUME IInv, NEW r \in Reader, FinishRead(r)
  PROVE  IInv'
<1>a. UNCHANGED <<chan, sink, received, snap, manager, torn, failed, scenario, panic>>
  BY DEF FinishRead
<1>1. /\ states' \in Seq(StateRec) /\ Len(states') = Len(states)
      /\ \A n \in 1 .. Len(states) : states'[n].version = states[n].version
  BY DroppedKeepsVersions DEF FinishRead, IInv, TypeInv
<1>2. /\ reader' \in [Reader -> ReaderRec] /\ \A s \in Reader \ {r} : reader'[s] = reader[s]
      /\ reader'[r] = Idle
  BY DEF FinishRead, IInv, TypeInv, ReaderRec, Pc, Idle, Latest, Lsns, U64Max
<1>3. TypeInv'
  BY <1>a, <1>1, <1>2 DEF IInv, TypeInv
<1>4. Version' = Version /\ \A from, to : RowsIn(from, to)' = RowsIn(from, to)
  BY <1>a, <1>1 DEF Version, IInv, TypeInv, RowsIn, Commits
<1>5. VersionOrder'
  <2>1. ASSUME NEW s \in Reader PROVE Holds(reader[s])'
    <3>1. CASE s = r
      BY <1>2, <3>1 DEF Holds, Idle
    <3>2. CASE s # r
      <4>1. Holds(reader[s]) /\ reader'[s] = reader[s]
        BY <1>2, <3>2 DEF IInv, VersionOrder
      <4> QED
        BY <1>1, <1>4, <4>1 DEF Holds
    <3> QED
      BY <3>1, <3>2
  <2> QED
    BY <1>a, <1>4, <2>1 DEF IInv, VersionOrder
<1>6. MarksInOrder'
  <2>1. \A n : IsVersion(n)' = IsVersion(n)
    BY <1>a DEF IsVersion, Commits
  <2>2. ASSUME NEW s \in Reader, Recovered PROVE Announced(reader[s])'
    <3>1. CASE s = r
      BY <1>2, <3>1 DEF Announced, Idle
    <3>2. CASE s # r
      <4>1. Announced(reader[s]) /\ reader'[s] = reader[s]
        BY <1>2, <2>2, <3>2 DEF IInv, MarksInOrder
      <4> QED
        BY <1>a, <2>1, <4>1 DEF Announced
    <3> QED
      BY <3>1, <3>2
  <2>3. Recovered' = Recovered
    BY <1>a DEF Recovered
  <2> QED
    BY <1>a, <1>4, <2>1, <2>2, <2>3 DEF IInv, MarksInOrder
<1>7. LoadsInOrder'
  BY <1>a, <1>2, <1>4, SMTT(40) DEF IInv, LoadsInOrder, Loads, SnapshotLoaded, Recovered, Idle
<1>8. CacheCovers'
  <2> SUFFICES ASSUME Recovered, ~torn, ~failed
               PROVE  Covered(manager.lsn)' /\ \A s \in Reader : Covers(reader[s])'
    BY <1>a DEF CacheCovers, Recovered
  <2>1. Covered(manager.lsn)'
    BY <1>a, <1>4 DEF IInv, CacheCovers, Covered
  <2>2. Covers(reader[r])'
    BY <1>2, SMTT(40) DEF Covers, Idle
  <2>3. ASSUME NEW s \in Reader \ {r} PROVE Covers(reader[s])'
    <3>1. Covers(reader[s]) /\ Holds(reader[s]) /\ reader'[s] = reader[s]
      BY <1>2 DEF IInv, CacheCovers, VersionOrder
    <3>2. \A lsn : Covered(lsn) => Covered(lsn)'
      BY <1>a, <1>4 DEF Covered
    <3>3. \A v : Satisfies(v, reader[s]) => Satisfies(v, reader[s])'
      BY <1>4, <3>1 DEF Satisfies
    <3> QED
      BY <1>1, <1>4, <3>1, <3>2, <3>3 DEF Covers, Holds
  <2> QED
    BY <2>1, <2>2, <2>3
<1> QED
  BY <1>3, <1>5, <1>6, <1>7, <1>8 DEF IInv

(* A read state is built at the version of the snapshot *)
LEMMA BuiltIsState ==
  ASSUME TypeInv, NEW q
  PROVE  Built(q) \in StateRec /\ Built(q).version = snap.version
<1>1. snap.version \in Nat /\ snap.disk \in Nat /\ TempFile \in Nat
  BY ScenarioHolds DEF TypeInv, TempFile, ScenarioFacts
<1> QED
  BY <1>1 DEF Built, StateRec

(* A new read state at the end leaves those before it as they were *)
LEMMA NewReadState ==
  ASSUME IInv, NEW r \in Reader, ReadFromSnapshot(r)
  PROVE  LET n == Len(states) + 1
         IN  /\ states' \in Seq(StateRec) /\ Len(states') = n
             /\ \A k \in 1 .. Len(states) : states'[k].version = states[k].version
             /\ states'[n].version = snap.version /\ Len(states) \in Nat
             /\ \A k \in 1 .. Len(states) : k \in 1 .. Len(states')
<1> DEFINE q == reader[r]
           n == Len(states) + 1
<1>1. /\ Append(states, Built(q)) \in Seq(StateRec) /\ Len(Append(states, Built(q))) = n
      /\ \A k \in 1 .. Len(states) : Append(states, Built(q))[k] = states[k]
      /\ Append(states, Built(q))[n].version = snap.version
  BY BuiltIsState, AppendProperties DEF IInv, TypeInv
<1>2. /\ states' \in Seq(StateRec) /\ Len(states') = n
      /\ \A k \in 1 .. n : states'[k].version = Append(states, Built(q))[k].version
  <2>1. states' = Dropped(Append(states, Built(q)), n, reader')
    BY DEF ReadFromSnapshot
  <2> DEFINE ss == Append(states, Built(q))
  <2> HIDE DEF ss, n
  <2>2. ss \in Seq(StateRec) /\ Len(ss) = n /\ states' = Dropped(ss, n, reader')
    BY <1>1, <2>1 DEF ss
  <2>3. \A k \in 1 .. n : states'[k].version = ss[k].version
    BY <2>2, DroppedKeepsVersions
  <2>4. states' \in Seq(StateRec) /\ Len(states') = n
    BY <2>2, DroppedKeepsVersions
  <2> QED
    BY <2>3, <2>4 DEF ss
<1>3. /\ \A k \in 1 .. Len(states) : states'[k].version = states[k].version
      /\ states'[n].version = snap.version /\ Len(states) \in Nat
      /\ \A k \in 1 .. Len(states) : k \in 1 .. Len(states')
  BY <1>1, <1>2 DEF IInv, TypeInv
<1> QED
  BY <1>2, <1>3

(* A read from the snapshot serves the version a request may get *)
LEMMA ReadFromSnapshotIInv ==
  ASSUME IInv, NEW r \in Reader, ReadFromSnapshot(r)
  PROVE  IInv'
<1> DEFINE q == reader[r]
           n == Len(states) + 1
<1>0. ScenarioFacts /\ Numbers
  BY ScenarioHolds, NumbersHold DEF IInv, TypeInv
<1>a. UNCHANGED <<chan, sink, received, snap, torn, failed, scenario, panic>>
  BY DEF ReadFromSnapshot
<1>2. states' \in Seq(StateRec) /\ Len(states') = n
  BY NewReadState
<1>3. /\ \A k \in 1 .. Len(states) : states'[k].version = states[k].version
      /\ states'[n].version = snap.version /\ Len(states) \in Nat
      /\ \A k \in 1 .. Len(states) : k \in 1 .. Len(states')
  BY NewReadState
<1>4. EffectiveLsn(q) \in Lsns
  BY DEF EffectiveLsn, IInv, TypeInv, ReaderRec
<1>5. /\ manager'.lsn = EffectiveLsn(q) /\ manager'.state = n
      /\ manager' \in [lsn : Lsns, state : Nat]
  BY <1>3, <1>4 DEF ReadFromSnapshot
<1>6. /\ reader' \in [Reader -> ReaderRec] /\ \A s \in Reader \ {r} : reader'[s] = reader[s]
      /\ q.pc = "read" /\ reader'[r].pc = "reading" /\ reader'[r].state = n
      /\ reader'[r].want = q.want /\ reader'[r].floor = q.floor
  <2>1. n \in Nat /\ q.pc = "read" /\ reader' = [reader EXCEPT ![r].pc = "reading", ![r].state = n]
    BY <1>3 DEF ReadFromSnapshot, Answer
  <2> HIDE DEF n
  <2> QED
    <3>1. reader \in [Reader -> ReaderRec]
      BY DEF IInv, TypeInv
    <3> QED
      BY <2>1, <3>1 DEF ReaderRec, Pc
<1>7. TypeInv'
  BY <1>a, <1>2, <1>3, <1>5, <1>6 DEF IInv, TypeInv
<1>8. /\ Version' = snap.version /\ Version <= Version' /\ Version' \in Nat
      /\ \A from, to : RowsIn(from, to)' = RowsIn(from, to)
  BY <1>0, <1>a, <1>3, <1>5 DEF Version, IInv, VersionOrder, RowsIn, Commits, Numbers
<1>9. VersionOrder'
  <2>1. \A s \in Reader : Holds(reader[s])'
    <3>1. Holds(reader[r])'
      <4>1. n \in 1 .. Len(states') /\ states'[n].version = snap.version
        BY <1>2, <1>3
      <4>2. states'[n].version <= Version'
        BY <1>8, <4>1
      <4> HIDE DEF n
      <4> QED
        BY <1>6, <4>1, <4>2 DEF Holds
    <3>2. ASSUME NEW s \in Reader \ {r} PROVE Holds(reader[s])'
      <4>1. Holds(reader[s]) /\ reader'[s] = reader[s]
        BY <1>6 DEF IInv, VersionOrder
      <4>2. /\ \A k \in 1 .. Len(states) : states[k].version \in Nat
            /\ Version \in Nat
        BY <1>0 DEF Numbers
      <4>3. CASE reader[s].pc = "reading"
        <5> DEFINE k == reader[s].state
        <5>1. k \in 1 .. Len(states) /\ states[k].version <= Version
          BY <4>1, <4>3 DEF Holds
        <5>2. k \in 1 .. Len(states') /\ states'[k].version = states[k].version
          BY <1>3, <5>1
        <5>3. states[k].version <= Version'
          BY <1>8, <4>2, <5>1
        <5> QED
          BY <4>1, <5>2, <5>3 DEF Holds
      <4> QED
        BY <4>1, <4>3 DEF Holds
    <3> QED
      BY <3>1, <3>2
  <2> QED
    <3>1. VersionOrder /\ Version' = snap.version /\ snap.version \in Nat
      BY <1>0, <1>8 DEF IInv, Numbers
    <3>2. Version' <= snap.version
      BY <3>1
    <3> QED
      BY <1>a, <2>1, <3>1, <3>2 DEF VersionOrder
<1>10. MarksInOrder'
  BY <1>a, <1>6, <1>8 DEF IInv, MarksInOrder, Announced, Recovered, IsVersion, Commits
<1>11. LoadsInOrder'
  BY <1>a, <1>6, <1>8 DEF IInv, LoadsInOrder, Loads, SnapshotLoaded, Recovered
<1>12. CacheCovers'
  <2> SUFFICES ASSUME Recovered, ~torn, ~failed
               PROVE  Covered(manager.lsn)' /\ \A s \in Reader : Covers(reader[s])'
    BY <1>a DEF CacheCovers, Recovered
  <2>1. /\ SnapshotLoaded(q)
        /\ RowsIn(IF q.snapshot = U64Max THEN 0 ELSE q.snapshot, q.want) = {}
        /\ q.snapshot = q.commit => RowsIn(q.snapshot, q.repl) = {}
    BY <1>6 DEF IInv, LoadsInOrder, Loads
  <2>2. /\ q.snapshot \in Nat /\ q.want \in Nat /\ q.floor \in Nat /\ q.repl \in Nat
        /\ snap.version \in Nat /\ Version \in Nat
    BY <1>0 DEF Numbers
  <2>3. Satisfies(snap.version, q)
    BY <1>0, <2>1, <2>2, RowsInShrinks DEF Satisfies, SnapshotLoaded
  <2>4. Covered(manager.lsn)'
    <3> SUFFICES ASSUME EffectiveLsn(q) # U64Max
                 PROVE  scenario.persisted <= snap.version /\ RowsIn(snap.version, EffectiveLsn(q)) = {}
      BY <1>a, <1>5, <1>8 DEF Covered
    <3>1. scenario.persisted <= snap.version
      BY DEF IInv, VersionOrder
    <3>2. CASE EffectiveLsn(q) = q.repl /\ q.snapshot = q.commit /\ q.snapshot < q.repl
      <4>1. q.repl <= U64Max
        BY LsnNumbers DEF IInv, TypeInv, ReaderRec
      <4>2. q.snapshot # U64Max
        BY <2>2, <3>2, <4>1 DEF U64Max
      <4> QED
        BY <1>0, <2>1, <2>2, <3>1, <3>2, <4>2, RowsInShrinks DEF SnapshotLoaded
    <3>3. CASE EffectiveLsn(q) = q.snapshot
      BY <1>0, <2>1, <2>2, <3>1, <3>3 DEF SnapshotLoaded, RowsIn, Commits, ScenarioFacts
    <3> QED
      BY <3>2, <3>3 DEF EffectiveLsn
  <2>5. ASSUME NEW s \in Reader \ {r} PROVE Covers(reader[s])'
    <3> DEFINE o == reader[s]
    <3>1. Covers(o) /\ Holds(o) /\ reader'[s] = o
      BY <1>6 DEF IInv, CacheCovers, VersionOrder
    <3>2. o.want \in Nat /\ o.floor \in Nat /\ o.cached \in Nat
      BY <1>0 DEF Numbers
    <3>3. ASSUME NEW lsn \in Nat, Covered(lsn) PROVE Covered(lsn)'
      BY <1>0, <1>a, <1>8, <2>2, <3>3, RowsInShrinks DEF Covered, ScenarioFacts
    <3>4. Satisfies(Version, o) => Satisfies(Version', o)
      BY <1>0, <1>8, <2>2, <3>2, RowsInShrinks DEF Satisfies
    <3> HIDE DEF o
    <3>5. \A v : Satisfies(v, o) => Satisfies(v, reader[s])'
      BY <1>8, <3>1 DEF Satisfies
    <3> QED
      BY <1>3, <3>1, <3>2, <3>3, <3>4, <3>5 DEF Covers, Holds
  <2>6. Covers(reader[r])'
    BY <1>3, <1>6, <1>8, <2>3 DEF Covers, Satisfies
  <2> QED
    BY <2>4, <2>5, <2>6
<1> QED
  BY <1>7, <1>9, <1>10, <1>11, <1>12 DEF IInv

(* A read that fails leaves its LSN behind, and from then on nothing is     *)
(* claimed of the cache                                                     *)
LEMMA FailToResolveIInv ==
  ASSUME IInv, NEW r \in Reader, FailToResolve(r)
  PROVE  IInv'
<1> DEFINE q == reader[r]
           st == [Built(q) EXCEPT !.status = IF TempFile = 0 THEN "gone" ELSE "dropping"]
<1>0. Numbers
  BY NumbersHold DEF IInv, TypeInv
<1>a. UNCHANGED <<chan, sink, received, snap, torn, scenario, panic>> /\ failed'
  BY DEF FailToResolve
<1>1. st \in StateRec
  BY BuiltIsState DEF IInv, StateRec
<1>2. states' = Append(states, st)
  BY DEF FailToResolve
<1> HIDE DEF st
<1>3. /\ states' \in Seq(StateRec) /\ Len(states') = Len(states) + 1 /\ Len(states) \in Nat
      /\ \A k \in 1 .. Len(states) : states'[k] = states[k] /\ k \in 1 .. Len(states')
  BY <1>1, <1>2, AppendProperties DEF IInv, TypeInv
<1>4. EffectiveLsn(q) \in Lsns
  BY DEF EffectiveLsn, IInv, TypeInv, ReaderRec
<1>5. manager'.state = manager.state /\ manager' \in [lsn : Lsns, state : Nat]
  BY <1>4 DEF FailToResolve, IInv, TypeInv
<1>6. /\ reader' \in [Reader -> ReaderRec] /\ \A s \in Reader \ {r} : reader'[s] = reader[s]
      /\ reader'[r] = Idle
  BY DEF FailToResolve, IInv, TypeInv, ReaderRec, Pc, Idle, Latest, Lsns, U64Max
<1>7. TypeInv'
  BY <1>a, <1>3, <1>5, <1>6 DEF IInv, TypeInv
<1>8. Version' = Version /\ \A from, to : RowsIn(from, to)' = RowsIn(from, to)
  BY <1>a, <1>3, <1>5 DEF Version, IInv, TypeInv, RowsIn, Commits
<1>9. VersionOrder'
  <2>1. ASSUME NEW s \in Reader \ {r} PROVE Holds(reader[s])'
    BY <1>3, <1>6, <1>8 DEF Holds, IInv, VersionOrder
  <2>2. Holds(reader[r])'
    BY <1>6, SMTT(40) DEF Holds, Idle
  <2> QED
    BY <1>a, <1>8, <2>1, <2>2 DEF IInv, VersionOrder
<1>10. MarksInOrder'
  BY <1>a, <1>6, <1>8, SMTT(40) DEF IInv, MarksInOrder, Announced, Recovered, IsVersion, Commits, Idle
<1>11. LoadsInOrder'
  <2>1. reader'[r].pc = "idle"
    <3>1. Idle.pc = "idle"
      BY DEF Idle
    <3> QED
      BY <1>6, <3>1
  <2>2. Loads(reader[r])'
    BY <2>1 DEF Loads
  <2>3. \A s \in Reader \ {r} : Loads(reader[s]) => Loads(reader[s])'
    BY <1>a, <1>6, <1>8 DEF Loads, SnapshotLoaded
  <2> QED
    BY <1>a, <2>2, <2>3 DEF IInv, LoadsInOrder, Recovered
<1>12. CacheCovers'
  BY <1>a DEF CacheCovers
<1> QED
  BY <1>7, <1>9, <1>10, <1>11, <1>12 DEF IInv

(* The clean-up of a dropped read state changes no version *)
LEMMA DeleteTempFileIInv ==
  ASSUME IInv, DeleteTempFile
  PROVE  IInv'
<1>a. UNCHANGED <<chan, sink, received, snap, manager, reader, torn, failed, scenario, panic>>
  BY DEF DeleteTempFile
<1>1. PICK n \in 1 .. Len(states) : states' = [states EXCEPT ![n].status = "gone"]
  <2>1. DOMAIN states = 1 .. Len(states)
    BY LenProperties DEF IInv, TypeInv
  <2> QED
    BY <2>1 DEF DeleteTempFile
<1>2. /\ states' \in Seq(StateRec) /\ Len(states') = Len(states)
      /\ \A k \in 1 .. Len(states) : states'[k].version = states[k].version
  <2>1. states[n] \in StateRec /\ [states[n] EXCEPT !.status = "gone"] \in StateRec
          /\ [states[n] EXCEPT !.status = "gone"].version = states[n].version
    <3>1. states[n] \in StateRec
      BY ElementOfSeq DEF IInv, TypeInv
    <3> QED
      BY <3>1 DEF StateRec
  <2> QED
    BY <1>1, <2>1 DEF IInv, TypeInv
<1>3. TypeInv'
  BY <1>a, <1>2 DEF IInv, TypeInv
<1>4. Version' = Version /\ \A from, to : RowsIn(from, to)' = RowsIn(from, to)
  BY <1>a, <1>2 DEF Version, IInv, TypeInv, RowsIn, Commits
<1>5. VersionOrder'
  BY <1>a, <1>2, <1>4 DEF IInv, VersionOrder, Holds
<1>6. MarksInOrder'
  BY <1>a, <1>4 DEF IInv, MarksInOrder, Announced, Recovered, IsVersion, Commits
<1>7. LoadsInOrder'
  BY <1>a, <1>4 DEF IInv, LoadsInOrder, Loads, SnapshotLoaded, Recovered
<1>8. CacheCovers'
  <2> SUFFICES ASSUME Recovered, ~torn, ~failed
               PROVE  Covered(manager.lsn)' /\ \A s \in Reader : Covers(reader[s])'
    BY <1>a DEF CacheCovers, Recovered
  <2>1. \A lsn : Covered(lsn) => Covered(lsn)'
    BY <1>a, <1>4 DEF Covered
  <2>2. \A s \in Reader : Covers(reader[s]) /\ Holds(reader[s]) => Covers(reader[s])'
    BY <1>a, <1>2, <1>4, <2>1 DEF Covers, Holds, Satisfies
  <2> QED
    BY <1>a, <2>1, <2>2 DEF IInv, CacheCovers, VersionOrder
<1> QED
  BY <1>3, <1>5, <1>6, <1>7, <1>8 DEF IInv

(* A step that changes nothing keeps the invariant *)
LEMMA StutterIInv ==
  ASSUME IInv, UNCHANGED vars
  PROVE  IInv'
BY DEF vars, IInv, TypeInv, VersionOrder, Holds, Version, MarksInOrder, Announced, Recovered,
       IsVersion, LoadsInOrder, Loads, SnapshotLoaded, CacheCovers, Covered, Covers, Satisfies,
       RowsIn, Commits

(* The invariant is inductive *)
LEMMA Inductive == Spec => []IInv
<1>1. IInv /\ [Next]_vars => IInv'
  <2> SUFFICES ASSUME IInv, [Next]_vars PROVE IInv'
    OBVIOUS
  <2>1. CASE TableStep
    BY <2>1, TableStepIInv
  <2>2. ASSUME NEW r \in Reader, StartRead(r) \/ ReaderStep(r) \/ FailToResolve(r) PROVE IInv'
    BY <2>2, StartReadIInv, LoadCachedSnapshotIInv, LoadCachedCommitIInv, ReadCachedIInv,
       LoadSnapshotIInv, LoadCommitIInv, LoadReplIInv, WakeIInv, ReadSharedIInv, FinishReadIInv, ReadFromSnapshotIInv, FailToResolveIInv DEF ReaderStep
  <2>3. CASE DeleteTempFile
    BY <2>3, DeleteTempFileIInv
  <2>4. CASE Done \/ UNCHANGED vars
    BY <2>4, StutterIInv DEF Done
  <2> QED
    BY <2>1, <2>2, <2>3, <2>4 DEF Next
<1> QED
  BY <1>1, InitIInv, PTL DEF Spec
-----------------------------------------------------------------------------
(* A read covers what it asked for (ReadStateManager::try_read), whatever   *)
(* the log, the commits of the table and the other readers, unless a reader *)
(* met a commit half marked, an earlier read failed, or commits were        *)
(* replayed from the write-ahead log                                        *)
THEOREM ReadsCover == Spec => []ReadCovers
<1>1. IInv => ReadCovers
  BY DEF IInv, CacheCovers, Covers, Satisfies, Recovered, ReadCovers, CoversRequests
<1> QED
  BY <1>1, Inductive, PTL

(* The assertions of can_satisfy_read_from_snapshot on the three LSNs never *)
(* fail, unless one of the loads met a commit half marked or the table was  *)
(* recovered with commits replayed from the write-ahead log                 *)
THEOREM LsnAssertionsHold == Spec => []NoPanic
<1>1. IInv => NoPanic
  BY DEF IInv, LoadsInOrder, Recovered, NoPanic, LsnsStayInOrder
<1> QED
  BY <1>1, Inductive, PTL

(* A query never gets an older version than one another query holds, with   *)
(* no exception: the manager's read state only moves forward                *)
THEOREM ReadsForward == Spec => ReadsGoForward
<1> DEFINE Forward ==
      \A r, s \in Reader :
        reader[r].pc # "reading" /\ reader'[r].pc = "reading" /\ reader[s].pc = "reading"
          => states'[reader'[r].state].version >= states[reader[s].state].version
<1>1. IInv /\ [Next]_vars => [Forward]_vars
  <2> SUFFICES ASSUME IInv, Next, NEW r \in Reader, NEW s \in Reader,
                      reader[r].pc # "reading", reader'[r].pc = "reading", reader[s].pc = "reading"
               PROVE  states'[reader'[r].state].version >= states[reader[s].state].version
    BY DEF vars
  <2>0. /\ Numbers /\ Version <= snap.version
        /\ states[reader[s].state].version <= Version /\ reader[s].state \in 1 .. Len(states)
    BY NumbersHold DEF IInv, VersionOrder, Holds
  <2>1. PICK t \in Reader : StartRead(t) \/ ReaderStep(t) \/ FailToResolve(t)
    <3>1. reader' # reader
      OBVIOUS
    <3> QED
      BY <3>1 DEF Next, TableStep, SinkCommit, SinkReplicated, SinkKeepAlive, UpdateSnapshot,
                  NotifySnapshotReader, DeleteTempFile, Done, vars
  <2>2. t = r
    <3>1. t # r => reader'[r] = reader[r]
      BY <2>1 DEF ReaderStep, StartRead, LoadCachedSnapshot, LoadCachedCommit, Goto, ReadCached, Answer,
                  LoadSnapshot, LoadCommit, LoadRepl, Wake, ReadFromSnapshot, ReadShared,
                  FinishRead, FailToResolve, IInv, TypeInv
    <3> QED
      BY <3>1
  <2>3. \/ ReadCached(r) \/ ReadShared(r) \/ ReadFromSnapshot(r)
    <3>1. ~StartRead(r)
      <4> SUFFICES ASSUME StartRead(r) PROVE FALSE
        OBVIOUS
      <4>1. PICK want \in {Latest} \cup Log :
              \E floor : reader' = [reader EXCEPT ![r] = [Idle EXCEPT !.pc = "cached_snapshot", !.want = want,
                                                            !.cached = manager.lsn, !.floor = floor]]
        BY DEF StartRead
      <4> QED
        BY <4>1 DEF IInv, TypeInv, Idle
    <3>2. ~FinishRead(r)
      BY DEF FinishRead, IInv, TypeInv, Idle
    <3>3. ~FailToResolve(r)
      BY DEF FailToResolve, IInv, TypeInv, Idle
    <3>4. ~LoadCachedSnapshot(r)
      BY DEF LoadCachedSnapshot, IInv, TypeInv, ReaderRec
    <3>5. ~LoadSnapshot(r)
      BY DEF LoadSnapshot, IInv, TypeInv, ReaderRec
    <3>6. ~LoadCommit(r)
      BY DEF LoadCommit, IInv, TypeInv, ReaderRec
    <3>7. ~LoadCachedCommit(r)
      BY DEF LoadCachedCommit, IInv, TypeInv, Goto, ReaderRec
    <3>8. ~Wake(r)
      BY DEF Wake, IInv, TypeInv, Goto, ReaderRec
    <3>9. ~LoadRepl(r)
      BY DEF LoadRepl, IInv, TypeInv, WaitsFor, ReaderRec
    <3> QED
      BY <2>1, <2>2, <3>1, <3>2, <3>3, <3>4, <3>5, <3>6, <3>7, <3>8, <3>9 DEF ReaderStep
  <2>4. CASE ReadCached(r) \/ ReadShared(r)
    <3>1. reader'[r].state = manager.state /\ states' = states
      BY <2>4 DEF ReadCached, ReadShared, Answer, IInv, TypeInv, ReaderRec
    <3> QED
      BY <2>0, <3>1 DEF Version, Numbers
  <2>5. CASE ReadFromSnapshot(r)
    <3>1. states'[reader'[r].state].version = snap.version
      <4>1. reader'[r].state = Len(states) + 1
        <5> DEFINE n == Len(states) + 1
        <5>1. reader' = [reader EXCEPT ![r].pc = "reading", ![r].state = n]
          BY <2>5 DEF ReadFromSnapshot, Answer
        <5> HIDE DEF n
        <5>2. reader'[r].state = n
          BY <5>1 DEF IInv, TypeInv, ReaderRec
        <5> QED
          BY <5>2 DEF n
      <4> QED
        BY <2>5, <4>1, NewReadState
    <3> QED
      BY <2>0, <3>1 DEF Numbers
  <2> QED
    BY <2>3, <2>4, <2>5
<1> QED
  BY <1>1, Inductive, PTL DEF Spec, ReadsGoForward
-----------------------------------------------------------------------------
(***************************************************************************)
(* The temporary files of the read states                                  *)
(***************************************************************************)
(* The replication LSNs are positions of the log, none of them the LSN that *)
(* stands for "nothing read yet"                                            *)
LsnsOfLog ==
  /\ sink <= scenario.log /\ chan.repl <= scenario.log
  /\ \A r \in Reader : reader[r].repl <= scenario.log

(* A read state that is cached or read has not been dropped *)
InUse(n) == states[n].status = "live"

UsedAreLive ==
  /\ InUse(manager.state)
  /\ \A r \in Reader : reader[r].pc = "reading" => InUse(reader[r].state)

(* The snapshot has no row that is only in memory, and no temporary file *)
NothingInMemory == temp[snap.version] = {} /\ RowsIn(snap.disk, snap.version) = {}

(* A read state with a temporary file: the snapshot has moved on, or its    *)
(* version will not be built again                                          *)
HasFile(n) == states[n].temp # 0

BuiltOnce(n) ==
  HasFile(n) =>
    /\ states[n].temp = states[n].version /\ states[n].version <= snap.version
    /\ \/ states[n].version < snap.version
       \/ manager.lsn # U64Max /\ states[n].version <= manager.lsn
       \/ NothingInMemory

OwnFile(m, n) == m # n /\ HasFile(m) => states[m].temp # states[n].temp

Files ==
  /\ temp \in [0 .. scenario.log -> SUBSET Commits] /\ temp[0] = {}
  /\ \A v \in 1 .. scenario.log : temp[v] # {} => \E n \in 1 .. Len(states) : states[n].temp = v
  /\ \A n \in 1 .. Len(states) : BuiltOnce(n) /\ (InUse(n) => Whole(n))
  /\ \A m, n \in 1 .. Len(states) : OwnFile(m, n)

FInv == LsnsOfLog /\ UsedAreLive /\ (~early => Files)
-----------------------------------------------------------------------------
(* The log ends before the LSN that stands for "nothing read yet" *)
LEMMA LogEnds ==
  ASSUME ScenarioFacts
  PROVE  scenario.log \in Nat /\ scenario.log < U64Max /\ U64Max \in Nat
BY DEF ScenarioFacts, U64Max

(* A drop that turns the read states ss into d changes only the status of  *)
(* the n-th, and not that of one in use                                     *)
OnlyDropped(ss, d, current, rd, n) ==
  /\ d[n].version = ss[n].version /\ d[n].disk = ss[n].disk /\ d[n].temp = ss[n].temp
  /\ d[n].status = "live" => ss[n].status = "live"
  /\ ss[n].status = "live" /\ n = current => d[n].status = "live"
  /\ \A s \in Reader : ss[n].status = "live" /\ rd[s].pc = "reading" /\ rd[s].state = n
                       => d[n].status = "live"

(* What Dropped does is that *)
LEMMA DroppedKeepsFiles ==
  ASSUME NEW ss \in Seq(StateRec), NEW current, NEW rd, NEW d, d = Dropped(ss, current, rd),
         NEW n \in 1 .. Len(ss)
  PROVE  OnlyDropped(ss, d, current, rd, n)
<1>1. DOMAIN ss = 1 .. Len(ss) /\ ss[n] \in StateRec
  BY ElementOfSeq, LenProperties
<1>2. Dropped(ss, current, rd)[n] =
        IF ss[n].status = "live" /\ n # current /\ Holders(n, rd) = {}
        THEN [ss[n] EXCEPT !.status = IF ss[n].temp = 0 THEN "gone" ELSE "dropping"]
        ELSE ss[n]
  BY <1>1 DEF Dropped
<1>3. ASSUME NEW s \in Reader, rd[s].pc = "reading", rd[s].state = n PROVE Holders(n, rd) # {}
  BY <1>3 DEF Holders
<1> QED
  BY <1>1, <1>2, <1>3 DEF StateRec, OnlyDropped

(* The read states, the files and the snapshot stay as they are *)
LEMMA QuietFiles ==
  ASSUME FInv, UNCHANGED <<snap, manager, states, temp, early, scenario>>, LsnsOfLog',
         \A s \in Reader : reader'[s].pc = "reading" =>
           \/ reader[s].pc = "reading" /\ reader'[s].state = reader[s].state
           \/ reader'[s].state = manager.state
  PROVE  FInv'
<1>1. UsedAreLive'
  BY DEF FInv, UsedAreLive, InUse
<1>2. ~early => Files'
  BY DEF FInv, Files, BuiltOnce, HasFile, OwnFile, NothingInMemory, InUse, Whole, RowsIn, Commits
<1> QED
  BY <1>1, <1>2 DEF FInv

(* The sink, and the announcement of a snapshot *)
LEMMA SinkFiles ==
  ASSUME IInv, FInv, SinkCommit \/ SinkReplicated \/ SinkKeepAlive \/ NotifySnapshotReader
  PROVE  FInv'
<1>0. ScenarioFacts /\ Numbers
  BY ScenarioHolds, NumbersHold DEF IInv, TypeInv
<1>1. UNCHANGED <<snap, manager, states, temp, reader, early, scenario>>
  BY DEF SinkCommit, SinkReplicated, SinkKeepAlive, NotifySnapshotReader
<1>2. \A lsn \in Commits \cup Log : lsn <= scenario.log
  BY <1>0 DEF ScenarioFacts, Log
<1>3. sink' <= scenario.log /\ chan'.repl <= scenario.log
  <2>1. CASE SinkCommit
    BY <1>0, <1>2, <2>1 DEF SinkCommit, Mark, FInv, LsnsOfLog, IInv, TypeInv, Numbers
  <2>2. CASE SinkReplicated
    BY <1>0, <2>2 DEF SinkReplicated, Mark, FInv, LsnsOfLog, IInv, TypeInv, ScenarioFacts
  <2>3. CASE SinkKeepAlive
    BY <1>0, <1>2, <2>3 DEF SinkKeepAlive, Mark, FInv, LsnsOfLog, IInv, TypeInv
  <2>4. CASE NotifySnapshotReader
    BY <2>4 DEF NotifySnapshotReader, FInv, LsnsOfLog, IInv, TypeInv
  <2> QED
    BY <2>1, <2>2, <2>3, <2>4
<1>4. LsnsOfLog'
  BY <1>1, <1>3 DEF FInv, LsnsOfLog
<1> QED
  BY <1>1, <1>4, QuietFiles

(* The loads of a reader, and the answers that build nothing *)
LEMMA LoadingFiles ==
  ASSUME IInv, FInv, NEW r \in Reader,
         \/ StartRead(r) \/ LoadCachedSnapshot(r) \/ LoadCachedCommit(r) \/ ReadCached(r)
         \/ LoadSnapshot(r) \/ LoadCommit(r) \/ LoadRepl(r) \/ Wake(r) \/ ReadShared(r)
  PROVE  FInv'
<1>0. ScenarioFacts /\ reader \in [Reader -> ReaderRec]
  BY ScenarioHolds DEF IInv, TypeInv
<1>1. UNCHANGED <<chan, sink, snap, manager, states, temp, early, scenario>>
  BY DEF StartRead, LoadCachedSnapshot, LoadCachedCommit, ReadCached, LoadSnapshot, LoadCommit,
         LoadRepl, Wake, ReadShared
<1>2. \A s \in Reader \ {r} : reader'[s] = reader[s]
  BY <1>0 DEF StartRead, LoadCachedSnapshot, LoadCachedCommit, ReadCached, LoadSnapshot, LoadCommit,
         LoadRepl, Wake, ReadShared, Goto, Answer
<1>3. /\ reader'[r].pc = "reading" => reader'[r].state = manager.state
      /\ reader'[r].repl \in {0, reader[r].repl, chan.repl}
  <2>0. reader[r] \in ReaderRec
    BY <1>0
  <2>1. CASE StartRead(r)
    <3>1. PICK want \in {Latest} \cup Log :
            \E floor : reader' = [reader EXCEPT ![r] = [Idle EXCEPT !.pc = "cached_snapshot", !.want = want,
                                                          !.cached = manager.lsn, !.floor = floor]]
      BY <2>1 DEF StartRead
    <3> QED
      BY <1>0, <3>1 DEF Idle
  <2>2. CASE LoadCachedSnapshot(r)
    BY <1>0, <2>0, <2>2 DEF LoadCachedSnapshot, ReaderRec
  <2>3. CASE LoadCachedCommit(r)
    BY <1>0, <2>0, <2>3 DEF LoadCachedCommit, Goto, ReaderRec
  <2>4. CASE ReadCached(r)
    BY <1>0, <2>0, <2>4 DEF ReadCached, Answer, ReaderRec
  <2>5. CASE LoadSnapshot(r)
    BY <1>0, <2>0, <2>5 DEF LoadSnapshot, ReaderRec
  <2>6. CASE LoadCommit(r)
    BY <1>0, <2>0, <2>6 DEF LoadCommit, ReaderRec
  <2>7. CASE LoadRepl(r)
    BY <1>0, <2>0, <2>7 DEF LoadRepl, WaitsFor, ReaderRec
  <2>8. CASE Wake(r)
    BY <1>0, <2>0, <2>8 DEF Wake, Goto, ReaderRec
  <2>9. CASE ReadShared(r)
    BY <1>0, <2>0, <2>9 DEF ReadShared, Answer, ReaderRec
  <2> QED
    BY <2>1, <2>2, <2>3, <2>4, <2>5, <2>6, <2>7, <2>8, <2>9
<1>4. LsnsOfLog'
  <2>1. scenario.log \in Nat
    BY <1>0, LogEnds
  <2>2. \A s \in Reader : reader[s].repl <= scenario.log
    BY DEF FInv, LsnsOfLog
  <2>3. reader'[r].repl <= scenario.log
    BY <1>3, <2>1, <2>2 DEF FInv, LsnsOfLog
  <2> QED
    BY <1>1, <1>2, <2>2, <2>3 DEF FInv, LsnsOfLog
<1> QED
  BY <1>1, <1>2, <1>3, <1>4, QuietFiles

(* A snapshot moves on, or its rows go to data files *)
LEMMA UpdateSnapshotFiles ==
  ASSUME IInv, FInv, UpdateSnapshot
  PROVE  FInv'
<1>0. ScenarioFacts /\ Numbers /\ snap.disk \in Nat /\ snap.version <= received
  BY ScenarioHolds, NumbersHold DEF IInv, TypeInv, VersionOrder
<1>1. UNCHANGED <<chan, sink, manager, states, temp, reader, early, scenario>>
  BY DEF UpdateSnapshot
<1>2. PICK disk \in snap.disk .. received : snap' = [version |-> received, disk |-> disk]
  BY DEF UpdateSnapshot
<1>3. LsnsOfLog' /\ UsedAreLive'
  BY <1>1 DEF FInv, LsnsOfLog, UsedAreLive, InUse
<1>4. ASSUME ~early PROVE Files'
  <2>0. Files
    BY <1>4 DEF FInv
  <2>1. snap'.version = received /\ snap'.disk = disk /\ disk \in Nat /\ snap.disk <= disk
    BY <1>0, <1>2 DEF Numbers
  <2>2. \A from, to : RowsIn(from, to)' = RowsIn(from, to)
    BY <1>1 DEF RowsIn, Commits
  <2>3. NothingInMemory /\ snap'.version = snap.version => NothingInMemory'
    <3> SUFFICES ASSUME NothingInMemory, snap'.version = snap.version PROVE NothingInMemory'
      OBVIOUS
    <3>1. RowsIn(disk, snap.version) = {}
      BY <1>0, <2>1, RowsInShrinks, SMTT(40) DEF NothingInMemory, Numbers
    <3> QED
      BY <1>1, <2>1, <2>2, <3>1 DEF NothingInMemory
  <2>4. ASSUME NEW n \in 1 .. Len(states) PROVE BuiltOnce(n)'
    <3>1. BuiltOnce(n) /\ states[n].version \in Nat /\ snap.version \in Nat /\ received \in Nat
      BY <1>0, <2>0 DEF Files, Numbers
    <3>2. CASE snap'.version = snap.version
      BY <1>1, <2>3, <3>1, <3>2 DEF BuiltOnce, HasFile
    <3>3. CASE snap'.version # snap.version
      BY <1>0, <1>1, <2>1, <3>1, <3>3 DEF BuiltOnce, HasFile
    <3> QED
      BY <3>2, <3>3
  <2>5. \A n \in 1 .. Len(states) : (InUse(n) => Whole(n))' = (InUse(n) => Whole(n))
    BY <1>1, <2>2 DEF InUse, Whole
  <2> QED
    BY <1>1, <2>0, <2>4, <2>5 DEF Files, OwnFile, HasFile, Commits
<1> QED
  BY <1>1, <1>3, <1>4 DEF FInv

(* The step leaves the files of the read states alone, and uses none that   *)
(* was dropped; a new one, if any, is built from the snapshot               *)
StatesKept ==
  \A k \in 1 .. Len(states) :
    /\ states'[k].version = states[k].version /\ states'[k].disk = states[k].disk
    /\ states'[k].temp = states[k].temp /\ (states'[k].status = "live" => InUse(k))

FilesKept ==
  /\ \A v \in 0 .. scenario.log : temp'[v] \in {{}, temp[v]}
  /\ \A k \in 1 .. Len(states) :
       InUse(k) /\ states'[k].status = "live" /\ HasFile(k) => temp'[states[k].temp] = temp[states[k].temp]

StateAdded(n) ==
  /\ n = Len(states) + 1 /\ Len(states') = n /\ StatesKept
  /\ states'[n].version = snap.version /\ states'[n].disk = snap.disk /\ states'[n].temp = TempFile

(* A new read state does not share its temporary file with an older one, if *)
(* it is built from the snapshot that was announced                         *)
LEMMA BuildFiles ==
  ASSUME IInv, FInv, ~early, NEW r \in Reader, NeedsRebuild(reader[r]),
         TempFile # 0 => reader[r].snapshot = snap.version,
         UNCHANGED <<snap, scenario>>, temp' = TempAfterRead, manager'.lsn = EffectiveLsn(reader[r]),
         NEW n, StateAdded(n)
  PROVE  Files'
<1> DEFINE q == reader[r]
           v == snap.version
<1>added. /\ n = Len(states) + 1 /\ Len(states') = n
          /\ states'[n].version = v /\ states'[n].disk = snap.disk /\ states'[n].temp = TempFile
  BY DEF StateAdded
<1>kept. \A k \in 1 .. Len(states) :
           /\ states'[k].version = states[k].version /\ states'[k].disk = states[k].disk
           /\ states'[k].temp = states[k].temp /\ (states'[k].status = "live" => InUse(k))
  BY DEF StateAdded, StatesKept
<1>0. /\ ScenarioFacts /\ Numbers /\ snap.disk \in Nat /\ v \in 0 .. scenario.log /\ Len(states) \in Nat
      /\ q.repl <= scenario.log
  BY ScenarioHolds, NumbersHold, LenProperties DEF IInv, TypeInv, FInv, LsnsOfLog
<1>1. Files
  BY DEF FInv
<1>2. \A from, to : RowsIn(from, to)' = RowsIn(from, to) /\ RowsIn(from, to) \in SUBSET Commits
  BY DEF RowsIn, Commits
<1>3. 1 .. Len(states') = (1 .. Len(states)) \cup {n} /\ n \notin 1 .. Len(states)
  BY <1>0, <1>added
<1>4. TempFile = 0 => NothingInMemory
  <2>1. RowsIn(snap.disk, 0) = {}
    <3>1. \A c \in Commits : c \in Nat /\ 0 < c
      BY <1>0 DEF ScenarioFacts, Commits
    <3> QED
      BY <3>1 DEF RowsIn
  <2> QED
    BY <1>1, <2>1 DEF TempFile, NothingInMemory, Files
<1>5. CASE TempFile = 0
  <2>1. temp' = temp
    BY <1>0, <1>1, <1>4, <1>5 DEF TempAfterRead, NothingInMemory, Files
  <2>2. NothingInMemory'
    BY <1>2, <1>4, <1>5, <2>1 DEF NothingInMemory
  <2>3. ASSUME NEW k \in 1 .. Len(states) PROVE BuiltOnce(k)' /\ (InUse(k) => Whole(k))'
    <3>1. BuiltOnce(k) /\ (InUse(k) => Whole(k))
      BY <1>1 DEF Files
    <3>2. BuiltOnce(k)'
      BY <1>kept, <2>2, <3>1 DEF BuiltOnce, HasFile
    <3>3. (InUse(k) => Whole(k))'
      BY <1>kept, <1>2, <2>1, <3>1 DEF InUse, Whole
    <3> QED
      BY <3>2, <3>3
  <2>4. BuiltOnce(n)' /\ Whole(n)'
    BY <1>added, <1>2, <1>4, <1>5 DEF BuiltOnce, HasFile, Whole, NothingInMemory
  <2>5. \A k, m \in 1 .. Len(states') : OwnFile(k, m)'
    <3> SUFFICES ASSUME NEW k \in 1 .. Len(states'), NEW m \in 1 .. Len(states'), k # m, states'[k].temp # 0
                 PROVE  states'[k].temp # states'[m].temp
      BY DEF OwnFile, HasFile
    <3>1. k # n
      BY <1>added, <1>5
    <3>2. CASE m # n
      BY <1>kept, <1>1, <1>3, <3>1, <3>2 DEF Files, OwnFile, HasFile
    <3>3. CASE m = n
      BY <1>added, <1>5, <3>3
    <3> QED
      BY <3>2, <3>3
  <2> QED
    <3>1. temp' \in [0 .. scenario.log -> SUBSET Commits] /\ temp'[0] = {}
      BY <1>1, <2>1 DEF Files
    <3>2. \A k \in 1 .. Len(states') : BuiltOnce(k)' /\ (InUse(k) => Whole(k))'
      BY <1>3, <2>3, <2>4
    <3>3. ASSUME NEW w \in 1 .. scenario.log, temp'[w] # {}
          PROVE  \E k \in 1 .. Len(states') : states'[k].temp = w
      <4>1. PICK k \in 1 .. Len(states) : states[k].temp = w
        BY <1>1, <2>1, <3>3 DEF Files
      <4> QED
        BY <1>kept, <1>3, <4>1
    <3> QED
      BY <2>5, <3>1, <3>2, <3>3 DEF Files, Commits
<1>6. CASE TempFile # 0
  <2>1. TempFile = v /\ v # 0 /\ q.snapshot = v /\ ~NothingInMemory /\ v \in 1 .. scenario.log
    <3>1. TempFile = v /\ v # 0 /\ q.snapshot = v /\ ~NothingInMemory
      BY <1>6 DEF TempFile, NothingInMemory
    <3>2. scenario.log \in Nat /\ v \in 0 .. scenario.log
      BY <1>0, LogEnds
    <3> QED
      BY <3>1, <3>2
  <2>2. \A k \in 1 .. Len(states) : HasFile(k) => states[k].temp = states[k].version /\ states[k].version < v
    <3> SUFFICES ASSUME NEW k \in 1 .. Len(states), HasFile(k)
                 PROVE  states[k].temp = states[k].version /\ states[k].version < v
      OBVIOUS
    <3>1. BuiltOnce(k) /\ states[k].version \in Nat /\ manager.lsn \in Nat
      BY <1>0, <1>1 DEF Files, Numbers
    <3> QED
      BY <1>0, <2>1, <3>1 DEF BuiltOnce, NeedsRebuild
  <2>3. temp[v] = {}
    BY <1>0, <1>1, <2>1, <2>2 DEF Files, HasFile
  <2>4. /\ temp' = [temp EXCEPT ![v] = RowsIn(snap.disk, v)]
        /\ temp \in [0 .. scenario.log -> SUBSET Commits]
    BY <1>1, <2>3 DEF TempAfterRead, Files
  <2>5. /\ temp' \in [0 .. scenario.log -> SUBSET Commits] /\ temp'[v] = RowsIn(snap.disk, v)
        /\ \A w \in 0 .. scenario.log : w # v => temp'[w] = temp[w]
    <3>1. RowsIn(snap.disk, v) \in SUBSET Commits /\ v \in 0 .. scenario.log
      BY <1>0, <1>2
    <3> HIDE DEF v
    <3> QED
      BY <2>4, <3>1
  <2>6. manager'.lsn \in Nat /\ v <= manager'.lsn /\ manager'.lsn # U64Max
    <3>1. scenario.log \in Nat /\ scenario.log < U64Max /\ U64Max \in Nat /\ v <= scenario.log /\ v \in Nat
      BY <1>0, LogEnds
    <3>2. q.repl \in Nat /\ q.repl <= scenario.log
      BY <1>0 DEF Numbers
    <3>3. (EffectiveLsn(q) = q.repl /\ v < q.repl) \/ EffectiveLsn(q) = v
      BY <2>1 DEF EffectiveLsn
    <3> QED
      BY <3>1, <3>2, <3>3
  <2>7. ASSUME NEW k \in 1 .. Len(states) PROVE BuiltOnce(k)' /\ (InUse(k) => Whole(k))'
    <3>1. BuiltOnce(k) /\ (InUse(k) => Whole(k)) /\ states[k].version \in Nat
      BY <1>0, <1>1 DEF Files, Numbers
    <3>2. BuiltOnce(k)'
      BY <1>kept, <2>2, <3>1 DEF BuiltOnce, HasFile
    <3>3. (InUse(k) => Whole(k))'
      <4>1. CASE states[k].temp = 0
        BY <1>kept, <1>2, <3>1, <4>1 DEF InUse, Whole
      <4>2. CASE states[k].temp # 0
        <5>1. states[k].temp \in 0 .. scenario.log /\ states[k].temp # v
          <6>1. states[k].temp = states[k].version /\ states[k].version < v
            BY <2>2, <4>2 DEF HasFile
          <6>2. scenario.log \in Nat /\ v \in Nat /\ v <= scenario.log
            BY <1>0, LogEnds
          <6> QED
            BY <3>1, <6>1, <6>2
        <5>2. temp'[states[k].temp] = temp[states[k].temp]
          BY <2>5, <5>1
        <5> QED
          BY <1>kept, <1>2, <3>1, <4>2, <5>2 DEF InUse, Whole
      <4> QED
        BY <4>1, <4>2
    <3> QED
      BY <3>2, <3>3
  <2>8. BuiltOnce(n)' /\ Whole(n)'
    <3>1. BuiltOnce(n)'
      <4>1. states'[n].version = v /\ states'[n].temp = v /\ snap'.version = v /\ v <= v
        BY <1>added, <1>0, <2>1
      <4> QED
        BY <2>6, <4>1 DEF BuiltOnce
    <3>2. Whole(n)'
      BY <1>added, <1>2, <2>1, <2>5 DEF Whole
    <3> QED
      BY <3>1, <3>2
  <2>9. \A k, m \in 1 .. Len(states') : OwnFile(k, m)'
    <3> SUFFICES ASSUME NEW k \in 1 .. Len(states'), NEW m \in 1 .. Len(states'), k # m, states'[k].temp # 0
                 PROVE  states'[k].temp # states'[m].temp
      BY DEF OwnFile, HasFile
    <3>1. CASE k # n /\ m # n
      BY <1>kept, <1>1, <1>3, <3>1 DEF Files, OwnFile, HasFile
    <3>2. CASE k = n
      BY <1>added, <1>kept, <1>0, <1>3, <2>1, <2>2, <3>2 DEF HasFile
    <3>3. CASE m = n
      BY <1>added, <1>kept, <1>0, <1>3, <2>1, <2>2, <3>3 DEF HasFile
    <3> QED
      BY <3>1, <3>2, <3>3
  <2>10. ASSUME NEW w \in 1 .. scenario.log, temp'[w] # {}
         PROVE  \E k \in 1 .. Len(states') : states'[k].temp = w
    <3>1. CASE w = v
      BY <1>added, <1>3, <2>1, <3>1
    <3>2. CASE w # v
      <4>1. temp[w] # {}
        BY <2>5, <2>10, <3>2
      <4>2. PICK k \in 1 .. Len(states) : states[k].temp = w
        BY <1>1, <4>1 DEF Files
      <4> QED
        BY <1>kept, <1>3, <4>2
    <3> QED
      BY <3>1, <3>2
  <2>11. temp'[0] = {}
    <3>1. 0 \in 0 .. scenario.log /\ temp[0] = {}
      <4>1. scenario.log \in Nat
        BY <1>0, LogEnds
      <4>2. temp[0] = {}
        BY <1>1 DEF Files
      <4> QED
        BY <4>1, <4>2
    <3> QED
      BY <2>1, <2>5, <3>1
  <2> QED
    BY <1>3, <2>5, <2>7, <2>8, <2>9, <2>10, <2>11 DEF Files, Commits
<1> QED
  BY <1>5, <1>6

(* A read from the snapshot *)
LEMMA ReadFromSnapshotFiles ==
  ASSUME IInv, FInv, NEW r \in Reader, ReadFromSnapshot(r)
  PROVE  FInv'
<1> DEFINE q == reader[r]
           n == Len(states) + 1
           ss == Append(states, Built(q))
<1>0. /\ states \in Seq(StateRec) /\ Len(states) \in Nat /\ reader \in [Reader -> ReaderRec]
      /\ manager.state \in 1 .. Len(states) /\ Built(q) \in StateRec
  BY BuiltIsState, LenProperties DEF IInv, TypeInv
<1>1. UNCHANGED <<chan, sink, snap, scenario>>
  BY DEF ReadFromSnapshot
<1>2. /\ manager' = [lsn |-> EffectiveLsn(q), state |-> n]
      /\ reader' = [reader EXCEPT ![r].pc = "reading", ![r].state = n]
      /\ states' = Dropped(ss, n, reader') /\ temp' = TempAfterRead
      /\ early' = (early \/ (TempFile # 0 /\ q.snapshot # snap.version))
      /\ q.pc = "read" /\ NeedsRebuild(q)
  BY DEF ReadFromSnapshot, Answer
<1>3. /\ ss \in Seq(StateRec) /\ Len(ss) = n /\ ss[n] = Built(q)
      /\ \A k \in 1 .. Len(states) : ss[k] = states[k] /\ k \in 1 .. n
      /\ n \in 1 .. n
  BY <1>0, AppendProperties
<1> HIDE DEF ss
<1>4. Len(states') = n
  BY <1>2, <1>3, DroppedKeepsVersions
<1>5. ASSUME NEW k \in 1 .. n PROVE OnlyDropped(ss, states', n, reader', k)
  <2>1. ss \in Seq(StateRec) /\ states' = Dropped(ss, n, reader') /\ k \in 1 .. Len(ss)
    BY <1>2, <1>3
  <2> HIDE DEF n
  <2> QED
    BY <2>1, DroppedKeepsFiles
<1> HIDE DEF n
<1>6. /\ \A s \in Reader \ {r} : reader'[s] = reader[s]
      /\ reader'[r].pc = "reading" /\ reader'[r].state = n /\ reader'[r].repl = q.repl
  BY <1>0, <1>2 DEF ReaderRec
<1>7. LsnsOfLog'
  BY <1>1, <1>6 DEF FInv, LsnsOfLog
<1>8. ss[n].status = "live" /\ ss[n].version = snap.version /\ ss[n].disk = snap.disk /\ ss[n].temp = TempFile
  <2>1. /\ Built(q).status = "live" /\ Built(q).version = snap.version
        /\ Built(q).disk = snap.disk /\ Built(q).temp = TempFile
    BY DEF Built
  <2> QED
    BY <1>3, <2>1
<1>9. UsedAreLive'
  <2>1. states'[n].status = "live"
    BY <1>3, <1>5, <1>8 DEF OnlyDropped
  <2>2. manager'.state = n
    BY <1>2
  <2>3. ASSUME NEW s \in Reader, reader'[s].pc = "reading" PROVE states'[reader'[s].state].status = "live"
    <3>1. CASE s = r
      BY <1>6, <2>1, <3>1
    <3>2. CASE s # r
      <4>1. reader'[s] = reader[s] /\ reader[s].pc = "reading" /\ InUse(reader[s].state)
        BY <1>6, <2>3, <3>2 DEF FInv, UsedAreLive
      <4>2. reader[s].state \in 1 .. Len(states)
        BY <4>1 DEF IInv, VersionOrder, Holds
      <4> QED
        BY <1>3, <1>5, <4>1, <4>2 DEF InUse, OnlyDropped
    <3> QED
      BY <3>1, <3>2
  <2> QED
    BY <2>1, <2>2, <2>3 DEF UsedAreLive, InUse
<1>10. ASSUME ~early' PROVE Files'
  <2>1. ~early /\ (TempFile # 0 => q.snapshot = snap.version)
    BY <1>2, <1>10
  <2>2. StatesKept
    BY <1>3, <1>5 DEF InUse, OnlyDropped, StatesKept
  <2>3. states'[n].version = snap.version /\ states'[n].disk = snap.disk /\ states'[n].temp = TempFile
    BY <1>3, <1>5, <1>8 DEF OnlyDropped
  <2>4. manager'.lsn = EffectiveLsn(q)
    BY <1>2
  <2>5. StateAdded(n)
    BY <1>4, <2>2, <2>3 DEF n, StateAdded
  <2> QED
    BY <1>1, <1>2, <2>1, <2>4, <2>5, BuildFiles
<1> QED
  BY <1>7, <1>9, <1>10 DEF FInv

(* A read that fails after its temporary file was written *)
LEMMA FailToResolveFiles ==
  ASSUME IInv, FInv, NEW r \in Reader, FailToResolve(r)
  PROVE  FInv'
<1> DEFINE q == reader[r]
           n == Len(states) + 1
           st == [Built(q) EXCEPT !.status = IF TempFile = 0 THEN "gone" ELSE "dropping"]
<1>0. /\ states \in Seq(StateRec) /\ Len(states) \in Nat /\ reader \in [Reader -> ReaderRec]
      /\ manager.state \in 1 .. Len(states) /\ Built(q) \in StateRec /\ ScenarioFacts
      /\ manager \in [lsn : Lsns, state : Nat]
  BY BuiltIsState, LenProperties, ScenarioHolds DEF IInv, TypeInv
<1>1. UNCHANGED <<chan, sink, snap, scenario>>
  BY DEF FailToResolve
<1>2. /\ manager' = [manager EXCEPT !.lsn = EffectiveLsn(q)]
      /\ reader' = [reader EXCEPT ![r] = Idle]
      /\ states' = Append(states, st) /\ temp' = TempAfterRead
      /\ early' = (early \/ (TempFile # 0 /\ q.snapshot # snap.version))
      /\ NeedsRebuild(q)
  BY DEF FailToResolve
<1>3. /\ st \in StateRec /\ st.version = snap.version /\ st.disk = snap.disk /\ st.temp = TempFile
  <2>1. /\ Built(q).version = snap.version /\ Built(q).disk = snap.disk /\ Built(q).temp = TempFile
    BY DEF Built
  <2> QED
    BY <1>0, <2>1 DEF StateRec
<1> HIDE DEF st
<1>4. /\ Len(states') = n /\ states'[n] = st
      /\ \A k \in 1 .. Len(states) : states'[k] = states[k]
  BY <1>0, <1>2, <1>3, AppendProperties
<1>5. /\ \A s \in Reader \ {r} : reader'[s] = reader[s]
      /\ reader'[r].pc = "idle" /\ reader'[r].repl = 0
  BY <1>0, <1>2 DEF Idle
<1>6. LsnsOfLog'
  BY <1>0, <1>1, <1>5 DEF FInv, LsnsOfLog, ScenarioFacts
<1>7. manager'.state = manager.state /\ manager'.lsn = EffectiveLsn(q)
  BY <1>0, <1>2
<1>8. UsedAreLive'
  <2>1. states'[manager'.state].status = "live"
    BY <1>0, <1>4, <1>7 DEF FInv, UsedAreLive, InUse
  <2>2. ASSUME NEW s \in Reader, reader'[s].pc = "reading" PROVE states'[reader'[s].state].status = "live"
    <3>1. s # r
      BY <1>5, <2>2
    <3>2. reader'[s] = reader[s] /\ reader[s].pc = "reading" /\ InUse(reader[s].state)
      BY <1>5, <2>2, <3>1 DEF FInv, UsedAreLive
    <3>3. reader[s].state \in 1 .. Len(states)
      BY <3>2 DEF IInv, VersionOrder, Holds
    <3> QED
      BY <1>4, <3>2, <3>3 DEF InUse
  <2> QED
    BY <2>1, <2>2 DEF UsedAreLive, InUse
<1>9. ASSUME ~early' PROVE Files'
  <2>1. ~early /\ (TempFile # 0 => q.snapshot = snap.version)
    BY <1>2, <1>9
  <2>2. StatesKept
    BY <1>4 DEF InUse, StatesKept
  <2>3. StateAdded(n)
    BY <1>3, <1>4, <2>2 DEF StateAdded
  <2> HIDE DEF n
  <2> QED
    BY <1>1, <1>2, <1>7, <2>1, <2>3, BuildFiles
<1> QED
  BY <1>6, <1>8, <1>9 DEF FInv

(* States that keep their files, and are not used again once dropped *)
LEMMA StatesKeepFiles ==
  ASSUME Files, UNCHANGED <<snap, manager, scenario>>, Len(states') = Len(states), StatesKept, FilesKept,
         temp' \in [0 .. scenario.log -> SUBSET Commits],
         scenario.log \in Nat, snap.version \in 0 .. scenario.log
  PROVE  Files'
<1>1. \A from, to : RowsIn(from, to)' = RowsIn(from, to)
  BY DEF RowsIn, Commits
<1>2. NothingInMemory => NothingInMemory'
  <2>1. NothingInMemory => temp'[snap.version] = {}
    BY DEF NothingInMemory, FilesKept
  <2> QED
    BY <1>1, <2>1 DEF NothingInMemory
<1>3. ASSUME NEW k \in 1 .. Len(states) PROVE BuiltOnce(k)' /\ (InUse(k) => Whole(k))'
  <2>1. BuiltOnce(k) /\ (InUse(k) => Whole(k))
    BY DEF Files
  <2>2. /\ states'[k].version = states[k].version /\ states'[k].disk = states[k].disk
        /\ states'[k].temp = states[k].temp /\ (states'[k].status = "live" => InUse(k))
    BY DEF StatesKept
  <2>3. BuiltOnce(k)'
    BY <1>2, <2>1, <2>2 DEF BuiltOnce, HasFile
  <2>4. (InUse(k) => Whole(k))'
    <3> SUFFICES ASSUME InUse(k)' PROVE Whole(k)'
      OBVIOUS
    <3>1. InUse(k) /\ Whole(k) /\ (HasFile(k) => temp'[states[k].temp] = temp[states[k].temp])
      BY <2>1, <2>2 DEF InUse, FilesKept
    <3> QED
      BY <1>1, <2>2, <3>1 DEF Whole, HasFile
  <2> QED
    BY <2>3, <2>4
<1>4. ASSUME NEW m \in 1 .. Len(states), NEW n \in 1 .. Len(states) PROVE OwnFile(m, n)'
  <2>1. OwnFile(m, n) /\ states'[m].temp = states[m].temp /\ states'[n].temp = states[n].temp
    BY DEF Files, StatesKept
  <2> QED
    BY <2>1 DEF OwnFile, HasFile
<1>5. temp'[0] = {}
  <2>1. 0 \in 0 .. scenario.log /\ temp[0] = {}
    BY DEF Files
  <2> QED
    BY <2>1 DEF FilesKept
<1>6. ASSUME NEW v \in 1 .. scenario.log, temp'[v] # {}
      PROVE  \E n \in 1 .. Len(states) : states'[n].temp = v
  <2>1. temp[v] # {}
    BY <1>6 DEF FilesKept
  <2>2. PICK n \in 1 .. Len(states) : states[n].temp = v
    BY <2>1 DEF Files
  <2> QED
    BY <2>2 DEF StatesKept
<1> QED
  BY <1>3, <1>4, <1>5, <1>6 DEF Files, Commits

(* The end of a read *)
LEMMA FinishReadFiles ==
  ASSUME IInv, FInv, NEW r \in Reader, FinishRead(r)
  PROVE  FInv'
<1>0. /\ states \in Seq(StateRec) /\ Len(states) \in Nat /\ reader \in [Reader -> ReaderRec]
      /\ manager.state \in 1 .. Len(states) /\ ScenarioFacts /\ snap.version \in 0 .. scenario.log
  BY LenProperties, ScenarioHolds DEF IInv, TypeInv
<1>1. /\ UNCHANGED <<chan, sink, snap, manager, temp, early, scenario>>
      /\ reader' = [reader EXCEPT ![r] = Idle]
      /\ states' = Dropped(states, manager.state, reader')
  BY DEF FinishRead
<1>2. Len(states') = Len(states)
  BY <1>0, <1>1, DroppedKeepsVersions
<1>3. ASSUME NEW k \in 1 .. Len(states) PROVE OnlyDropped(states, states', manager.state, reader', k)
  <2>1. states \in Seq(StateRec) /\ states' = Dropped(states, manager.state, reader')
    BY <1>0, <1>1
  <2> QED
    BY <2>1, DroppedKeepsFiles
<1>4. /\ \A s \in Reader \ {r} : reader'[s] = reader[s]
      /\ reader'[r].pc = "idle" /\ reader'[r].repl = 0
  BY <1>0, <1>1 DEF Idle
<1>5. LsnsOfLog'
  BY <1>0, <1>1, <1>4 DEF FInv, LsnsOfLog, ScenarioFacts
<1>6. UsedAreLive'
  <2>1. states'[manager'.state].status = "live"
    BY <1>0, <1>1, <1>3 DEF FInv, UsedAreLive, InUse, OnlyDropped
  <2>2. ASSUME NEW s \in Reader, reader'[s].pc = "reading" PROVE states'[reader'[s].state].status = "live"
    <3>1. s # r
      BY <1>4, <2>2
    <3>2. reader'[s] = reader[s] /\ reader[s].pc = "reading" /\ InUse(reader[s].state)
      BY <1>4, <2>2, <3>1 DEF FInv, UsedAreLive
    <3>3. reader[s].state \in 1 .. Len(states)
      BY <3>2 DEF IInv, VersionOrder, Holds
    <3> QED
      BY <1>3, <3>2, <3>3 DEF InUse, OnlyDropped
  <2> QED
    BY <2>1, <2>2 DEF UsedAreLive, InUse
<1>7. ASSUME ~early PROVE Files'
  <2>1. Files /\ scenario.log \in Nat
    BY <1>0, <1>7 DEF FInv, ScenarioFacts
  <2>2. StatesKept
    BY <1>3 DEF InUse, OnlyDropped, StatesKept
  <2>3. temp' \in [0 .. scenario.log -> SUBSET Commits]
    BY <1>1, <2>1 DEF Files
  <2>4. FilesKept
    BY <1>1 DEF FilesKept
  <2> QED
    BY <1>0, <1>1, <1>2, <2>1, <2>2, <2>3, <2>4, StatesKeepFiles
<1> QED
  BY <1>1, <1>5, <1>6, <1>7 DEF FInv

(* The file of a dropped read state is deleted; no other has it *)
LEMMA DeleteTempFileFiles ==
  ASSUME IInv, FInv, DeleteTempFile
  PROVE  FInv'
<1>0. /\ states \in Seq(StateRec) /\ Len(states) \in Nat /\ DOMAIN states = 1 .. Len(states)
      /\ manager.state \in 1 .. Len(states) /\ ScenarioFacts /\ snap.version \in 0 .. scenario.log
  BY LenProperties, ScenarioHolds DEF IInv, TypeInv
<1>1. UNCHANGED <<chan, sink, snap, manager, reader, early, scenario>>
  BY DEF DeleteTempFile
<1>2. PICK n \in 1 .. Len(states) :
        /\ states[n].status = "dropping"
        /\ temp' = [temp EXCEPT ![states[n].temp] = {}]
        /\ states' = [states EXCEPT ![n].status = "gone"]
  BY <1>0 DEF DeleteTempFile
<1>3. /\ Len(states') = Len(states)
      /\ \A k \in 1 .. Len(states) :
           /\ states'[k].version = states[k].version /\ states'[k].disk = states[k].disk
           /\ states'[k].temp = states[k].temp
           /\ IF k = n THEN states'[k].status = "gone" ELSE states'[k].status = states[k].status
  <2>1. states[n] \in StateRec
    BY <1>0, ElementOfSeq
  <2> QED
    BY <1>0, <1>2, <2>1, SMTT(40) DEF StateRec
<1>4. LsnsOfLog'
  BY <1>1 DEF FInv, LsnsOfLog
<1>5. UsedAreLive'
  <2>1. states'[manager'.state].status = "live"
    BY <1>0, <1>1, <1>2, <1>3 DEF FInv, UsedAreLive, InUse
  <2>2. ASSUME NEW s \in Reader, reader'[s].pc = "reading" PROVE states'[reader'[s].state].status = "live"
    <3>1. reader'[s] = reader[s] /\ reader[s].pc = "reading" /\ InUse(reader[s].state)
      BY <1>1, <2>2 DEF FInv, UsedAreLive
    <3>2. reader[s].state \in 1 .. Len(states)
      BY <3>1 DEF IInv, VersionOrder, Holds
    <3> QED
      BY <1>2, <1>3, <3>1, <3>2 DEF InUse
  <2> QED
    BY <2>1, <2>2 DEF UsedAreLive, InUse
<1>6. ASSUME ~early PROVE Files'
  <2>1. Files /\ scenario.log \in Nat
    BY <1>0, <1>6 DEF FInv, ScenarioFacts
  <2>2. \A k \in 1 .. Len(states) :
          /\ states'[k].version = states[k].version /\ states'[k].disk = states[k].disk
          /\ states'[k].temp = states[k].temp /\ (states'[k].status = "live" => InUse(k) /\ k # n)
    BY <1>3 DEF InUse
  <2>3. /\ temp' \in [0 .. scenario.log -> SUBSET Commits]
        /\ \A v \in 0 .. scenario.log : temp'[v] = IF v = states[n].temp THEN {} ELSE temp[v]
    BY <1>2, <2>1 DEF Files
  <2>4. \A k \in 1 .. Len(states) :
          InUse(k) /\ states'[k].status = "live" /\ HasFile(k) => temp'[states[k].temp] = temp[states[k].temp]
    <3> SUFFICES ASSUME NEW k \in 1 .. Len(states), k # n, HasFile(k)
                 PROVE  temp'[states[k].temp] = temp[states[k].temp]
      BY <2>2
    <3>1. states[k].temp # states[n].temp
      BY <2>1 DEF Files, OwnFile
    <3> QED
      BY <1>2, <3>1, <2>1 DEF Files
  <2>5. StatesKept
    BY <2>2 DEF StatesKept
  <2>6. FilesKept
    BY <2>3, <2>4 DEF FilesKept
  <2> QED
    BY <1>0, <1>1, <1>3, <2>1, <2>5, <2>6, <2>3, StatesKeepFiles
<1> QED
  BY <1>1, <1>4, <1>5, <1>6 DEF FInv

(* Nothing is cached and no file is there when the table starts *)
LEMMA InitFiles == Init => FInv
<1> SUFFICES ASSUME Init PROVE FInv
  OBVIOUS
<1>0. ScenarioFacts
  BY ScenarioHolds DEF Init
<1>1. Len(states) = 1 /\ states[1] = Empty /\ manager.state = 1
  BY DEF Init
<1>2. LsnsOfLog
  <2>1. sink = 0 /\ chan.repl = scenario.persisted /\ \A r \in Reader : reader[r].repl = 0
    BY DEF Init, Idle
  <2>2. 0 <= scenario.log /\ scenario.persisted <= scenario.log
    BY <1>0 DEF ScenarioFacts
  <2> QED
    BY <2>1, <2>2 DEF LsnsOfLog
<1>3. UsedAreLive
  <2>1. \A r \in Reader : reader[r].pc = "idle"
    BY DEF Init, Idle
  <2> QED
    BY <1>1, <2>1 DEF UsedAreLive, InUse, Empty
<1>4. temp \in [0 .. scenario.log -> SUBSET Commits] /\ \A v \in 0 .. scenario.log : temp[v] = {}
  BY DEF Init
<1>5. RowsIn(0, 0) = {}
  BY <1>0 DEF RowsIn, ScenarioFacts, Commits
<1>6. \A n \in 1 .. Len(states) : states[n] = Empty
  BY <1>1
<1>7. Files
  <2>1. 0 \in 0 .. scenario.log /\ \A v \in 1 .. scenario.log : v \in 0 .. scenario.log
    BY <1>0 DEF ScenarioFacts
  <2>2. \A m, n \in 1 .. Len(states) : OwnFile(m, n)
    BY <1>6 DEF OwnFile, HasFile, Empty
  <2>3. \A n \in 1 .. Len(states) : BuiltOnce(n) /\ Whole(n)
    <3>1. Empty.temp = 0 /\ Empty.version = 0 /\ Empty.disk = 0
      BY DEF Empty
    <3> QED
      BY <1>5, <1>6, <3>1 DEF BuiltOnce, HasFile, Whole
  <2> QED
    BY <1>4, <2>1, <2>2, <2>3 DEF Files
<1> QED
  BY <1>2, <1>3, <1>7 DEF FInv

(* The files of the read states, as long as IInv holds *)
LEMMA FilesInductive == Spec => []FInv
<1>1. IInv /\ FInv /\ [Next]_vars => FInv'
  <2> SUFFICES ASSUME IInv, FInv, [Next]_vars PROVE FInv'
    OBVIOUS
  <2>1. CASE TableStep
    BY <2>1, SinkFiles, UpdateSnapshotFiles DEF TableStep
  <2>2. ASSUME NEW r \in Reader, StartRead(r) \/ ReaderStep(r) \/ FailToResolve(r) PROVE FInv'
    BY <2>2, LoadingFiles, FinishReadFiles, ReadFromSnapshotFiles, FailToResolveFiles DEF ReaderStep
  <2>3. CASE DeleteTempFile
    BY <2>3, DeleteTempFileFiles
  <2>4. CASE Done \/ UNCHANGED vars
    <3>1. UNCHANGED vars
      BY <2>4 DEF Done
    <3>2. LsnsOfLog'
      BY <3>1 DEF vars, FInv, LsnsOfLog
    <3> QED
      BY <3>1, <3>2, QuietFiles DEF vars
  <2> QED
    BY <2>1, <2>2, <2>3, <2>4 DEF Next
<1> QED
  BY <1>1, InitFiles, Inductive, PTL DEF Spec

(* A read state that is cached or being read has its temporary file, with   *)
(* exactly the rows of its version that are in no data file                 *)
(* (ReadStateManager, ReadState::drop): no clean-up of another read state   *)
(* takes it away, whatever the readers, the failures and the deletions do,  *)
(* as long as no read was built from a snapshot that was not the announced  *)
(* one                                                                      *)
THEOREM FilesAreKept == Spec => []ReadsAreWhole
<1>1. IInv /\ FInv => ReadsAreWhole
  <2> SUFFICES ASSUME IInv, FInv, ~early, NEW n \in DOMAIN states, Serving(n) PROVE Whole(n)
    BY DEF ReadsAreWhole
  <2>1. n \in 1 .. Len(states) /\ Files
    BY LenProperties DEF IInv, TypeInv, FInv
  <2>2. InUse(n)
    BY DEF Serving, Holders, FInv, UsedAreLive
  <2> QED
    BY <2>1, <2>2 DEF Files
<1> QED
  BY <1>1, Inductive, FilesInductive, PTL
=============================================================================
