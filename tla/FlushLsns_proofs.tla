-------------------------- MODULE FlushLsns_proofs --------------------------
(***************************************************************************)
(* Proofs about FlushLsns, for every set of LSNs and every MaxSlices: the  *)
(* type invariant, that flush LSNs only cover finished flushes, that a     *)
(* payload is exact, that no LSN is lost and that flush LSNs never regress.*)
(***************************************************************************)
EXTENDS FlushLsns, TLAPS

(* The largest element of a set, if it has elements, exists.                *)
HasMax(S) == S = {} \/ \E m \in S : \A y \in S : y <= m

(* LSNs in the machine never run ahead of the caller, and the flush LSN      *)
(* only grows on its way from the next task through the running one to the   *)
(* snapshot.                                                                 *)
LsnOrder ==
  /\ fl.last_flush_lsn <= top
  /\ fl.new_flush_lsn <= top
  /\ fl.new_largest_flush_lsn <= top
  /\ task.new_flush_lsn <= top
  /\ task.new_largest_flush_lsn <= top
  /\ snap.flush_lsn <= top
  /\ snap.largest_flush_lsn <= top
  /\ payload.flush_lsn <= snap.flush_lsn
  /\ task.new_flush_lsn # NoLsn => snap.flush_lsn <= task.new_flush_lsn
  /\ fl.new_flush_lsn # NoLsn => /\ snap.flush_lsn <= fl.new_flush_lsn
                                 /\ task.new_flush_lsn <= fl.new_flush_lsn
  /\ \A l \in Lsn : written[l] > 0 => l <= top
  /\ \A l \in fl.completed_unrecorded_flush_lsns : l <= top

(* No slice is lost or duplicated between the flush, the tasks and the       *)
(* snapshot.                                                                 *)
SlicesConserved ==
  \A l \in Lsn : fl.ongoing_flush_lsns[l] + new_disk_slices[l] + task.slices[l]
                   + snap.slices[l] = written[l]

(* A slice is always ahead of the flush LSNs it has not been merged with,    *)
(* and its LSN is known to the largest flush LSN that travels with it.       *)
SlicesOrder ==
  \A l \in Lsn :
    /\ new_disk_slices[l] > 0 => /\ l <= fl.new_largest_flush_lsn
                                 /\ task.new_flush_lsn < l
                                 /\ snap.flush_lsn < l
    /\ task.slices[l] > 0 => /\ l <= task.new_largest_flush_lsn
                             /\ snap.flush_lsn < l
    /\ snap.slices[l] > 0 => l <= snap.largest_flush_lsn

(* LSNs are parked only while some flush is in flight.                       *)
ParkedOrder ==
  /\ HasMax(fl.completed_unrecorded_flush_lsns)
  /\ fl.completed_unrecorded_flush_lsns # {} => OngoingLsns(fl) # {}

LargestHeard ==
  LargerLsn(fl.new_largest_flush_lsn,
            LargerLsn(task.new_largest_flush_lsn, snap.largest_flush_lsn))

LargestFlush ==
  LargerLsn(fl.new_flush_lsn, LargerLsn(task.new_flush_lsn, snap.flush_lsn))

(* The largest LSN heard of is recorded, parked, or still being written.     *)
LargestAccounted ==
  \/ LargestHeard <= LargestFlush
  \/ LargestHeard \in fl.completed_unrecorded_flush_lsns
  \/ LargestHeard \in OngoingLsns(fl)

IdleTaskEmpty == ~task.running => task = IdleTask

IInv ==
  /\ TypeOK
  /\ LsnOrder
  /\ SlicesConserved
  /\ SlicesOrder
  /\ ParkedOrder
  /\ LargestAccounted
  /\ IdleTaskEmpty
  /\ FlushLsnFinished
  /\ PayloadExact
-----------------------------------------------------------------------------
(* What the operators of FlushLsnOps return, field by field.                 *)

(* insert_ongoing_flush_lsn: one count grows, nothing is recorded.           *)
LEMMA InsertOngoingFacts ==
  ASSUME NEW f \in FlushTracker, NEW lsn \in Lsn, NEW count \in Nat
  PROVE  LET g == InsertOngoingFlushLsn(f, lsn, count)
         IN  /\ g \in FlushTracker
             /\ g.ongoing_flush_lsns = [f.ongoing_flush_lsns EXCEPT ![lsn] = @ + count]
             /\ g.last_flush_lsn = lsn
             /\ g.new_flush_lsn = f.new_flush_lsn
             /\ g.new_largest_flush_lsn = f.new_largest_flush_lsn
             /\ g.completed_unrecorded_flush_lsns = f.completed_unrecorded_flush_lsns
<1> DEFINE counts == [f.ongoing_flush_lsns EXCEPT ![lsn] = @ + count]
<1>1. counts \in [Lsn -> Nat]
  BY DEF FlushTracker
<1>2. InsertOngoingFlushLsn(f, lsn, count)
        = [f EXCEPT !.ongoing_flush_lsns = counts, !.last_flush_lsn = lsn]
  BY Zenon DEF InsertOngoingFlushLsn
<1> HIDE DEF counts
<1>3. [f EXCEPT !.ongoing_flush_lsns = counts, !.last_flush_lsn = lsn] \in FlushTracker
  BY <1>1 DEF FlushTracker, OptLsn
<1> QED
  BY <1>2, <1>3 DEF FlushTracker, counts

(* remove_ongoing_flush_lsn: one count shrinks.                              *)
LEMMA RemoveOngoingFacts ==
  ASSUME NEW f \in FlushTracker, NEW lsn \in Lsn, f.ongoing_flush_lsns[lsn] > 0
  PROVE  LET g == RemoveOngoingFlushLsn(f, lsn)
         IN  /\ g \in FlushTracker
             /\ g.ongoing_flush_lsns = [f.ongoing_flush_lsns EXCEPT ![lsn] = @ - 1]
             /\ g.last_flush_lsn = f.last_flush_lsn
             /\ g.new_flush_lsn = f.new_flush_lsn
             /\ g.new_largest_flush_lsn = f.new_largest_flush_lsn
             /\ g.completed_unrecorded_flush_lsns = f.completed_unrecorded_flush_lsns
<1> DEFINE counts == [f.ongoing_flush_lsns EXCEPT ![lsn] = @ - 1]
<1>1. counts \in [Lsn -> Nat]
  BY DEF FlushTracker
<1>2. RemoveOngoingFlushLsn(f, lsn) = [f EXCEPT !.ongoing_flush_lsns = counts]
  BY Zenon DEF RemoveOngoingFlushLsn
<1> HIDE DEF counts
<1>3. [f EXCEPT !.ongoing_flush_lsns = counts] \in FlushTracker
  BY <1>1 DEF FlushTracker
<1> QED
  BY <1>2, <1>3 DEF FlushTracker, counts

(* try_set_largest_flush_lsn: only the largest flush LSN may grow.           *)
LEMMA TrySetLargestFacts ==
  ASSUME NEW f \in FlushTracker, NEW lsn \in Lsn
  PROVE  LET g == TrySetLargestFlushLsn(f, lsn)
         IN  /\ g \in FlushTracker
             /\ g.ongoing_flush_lsns = f.ongoing_flush_lsns
             /\ g.last_flush_lsn = f.last_flush_lsn
             /\ g.new_flush_lsn = f.new_flush_lsn
             /\ g.new_largest_flush_lsn = LargerLsn(f.new_largest_flush_lsn, lsn)
             /\ g.completed_unrecorded_flush_lsns = f.completed_unrecorded_flush_lsns
BY DEF TrySetLargestFlushLsn, FlushTracker, OptLsn, LargerLsn

(* A set that has a largest element when nonempty still has one after one    *)
(* more LSN is added.                                                        *)
LEMMA HasMaxAdd ==
  ASSUME NEW S \in SUBSET Lsn, NEW lsn \in Lsn, HasMax(S)
  PROVE  HasMax(S \cup {lsn})
<1>0. Lsn \subseteq Nat
  BY LsnAssumption
<1>1. CASE S = {}
  BY <1>0, <1>1 DEF HasMax
<1>2. CASE S # {}
  <2>1. PICK m \in S : \A y \in S : y <= m
    BY <1>2 DEF HasMax
  <2>2. CASE lsn <= m
    BY <2>1, <2>2 DEF HasMax
  <2>3. CASE ~(lsn <= m)
    <3>1. \A y \in S \cup {lsn} : y <= lsn
      BY <1>0, <2>1, <2>3
    <3> QED
      BY <3>1 DEF HasMax
  <2> QED
    BY <2>2, <2>3
<1> QED
  BY <1>1, <1>2

(* Max picks the largest element of a set that has one.                      *)
LEMMA MaxFacts ==
  ASSUME NEW S \in SUBSET Lsn, S # {}, HasMax(S)
  PROVE  Max(S) \in S /\ \A y \in S : y <= Max(S)
<1>0. Lsn \subseteq Nat
  BY LsnAssumption
<1>1. \E x \in S : \A y \in S : x >= y
  BY <1>0 DEF HasMax
<1>2. Max(S) \in S /\ \A y \in S : Max(S) >= y
  BY <1>1 DEF Max
<1> QED
  BY <1>0, <1>2

(* try_set_next_flush_lsn: the LSN is recorded or parked while flushes are   *)
(* in flight, and the largest LSN known is recorded once none is.            *)
LEMMA TrySetNextFacts ==
  ASSUME NEW f \in FlushTracker, NEW lsn \in Lsn,
         HasMax(f.completed_unrecorded_flush_lsns)
  PROVE  LET g == TrySetNextFlushLsn(f, lsn)
             parked == f.completed_unrecorded_flush_lsns
         IN  /\ g \in FlushTracker
             /\ g.ongoing_flush_lsns = f.ongoing_flush_lsns
             /\ g.last_flush_lsn = f.last_flush_lsn
             /\ g.new_largest_flush_lsn = LargerLsn(f.new_largest_flush_lsn, lsn)
             /\ HasMax(g.completed_unrecorded_flush_lsns)
             /\ OngoingLsns(f) = {} =>
                  /\ g.completed_unrecorded_flush_lsns = {}
                  /\ g.new_flush_lsn \in parked \cup {lsn}
                  /\ \A y \in parked \cup {lsn} : y <= g.new_flush_lsn
             /\ OngoingLsns(f) # {} /\ BelowOngoing(f, lsn) =>
                  /\ g.completed_unrecorded_flush_lsns = parked
                  /\ g.new_flush_lsn = lsn
             /\ OngoingLsns(f) # {} /\ ~BelowOngoing(f, lsn) =>
                  /\ g.completed_unrecorded_flush_lsns = parked \cup {lsn}
                  /\ g.new_flush_lsn = f.new_flush_lsn
<1> DEFINE parked == f.completed_unrecorded_flush_lsns
           g == TrySetNextFlushLsn(f, lsn)
<1>0. Lsn \subseteq Nat /\ parked \in SUBSET Lsn
  BY LsnAssumption DEF FlushTracker
<1>1. HasMax(parked \cup {lsn})
  BY <1>0, HasMaxAdd
<1>2. LargerLsn(f.new_largest_flush_lsn, lsn) \in OptLsn
  BY DEF LargerLsn, FlushTracker, OptLsn
<1>3. CASE OngoingLsns(f) = {}
  <2>1. BelowOngoing(f, lsn)
    BY <1>3 DEF BelowOngoing
  <2>2. g = [f EXCEPT !.new_largest_flush_lsn = LargerLsn(@, lsn),
                      !.new_flush_lsn = Max(parked \cup {lsn}),
                      !.completed_unrecorded_flush_lsns = {}]
    BY <1>3, <2>1 DEF TrySetNextFlushLsn
  <2>3. /\ Max(parked \cup {lsn}) \in parked \cup {lsn}
        /\ \A y \in parked \cup {lsn} : y <= Max(parked \cup {lsn})
    BY <1>0, <1>1, MaxFacts
  <2>4. Max(parked \cup {lsn}) \in OptLsn
    BY <1>0, <2>3 DEF OptLsn
  <2> HIDE DEF g
  <2>5. /\ g \in FlushTracker
        /\ g.ongoing_flush_lsns = f.ongoing_flush_lsns
        /\ g.last_flush_lsn = f.last_flush_lsn
        /\ g.new_largest_flush_lsn = LargerLsn(f.new_largest_flush_lsn, lsn)
        /\ g.completed_unrecorded_flush_lsns = {}
        /\ g.new_flush_lsn = Max(parked \cup {lsn})
    BY <1>2, <2>2, <2>4 DEF FlushTracker
  <2> QED
    BY <1>3, <2>3, <2>5 DEF HasMax, g
<1>4. CASE OngoingLsns(f) # {} /\ BelowOngoing(f, lsn)
  <2>1. g = [f EXCEPT !.new_largest_flush_lsn = LargerLsn(@, lsn),
                      !.new_flush_lsn = lsn,
                      !.completed_unrecorded_flush_lsns = parked]
    BY <1>4 DEF TrySetNextFlushLsn
  <2> HIDE DEF g
  <2>2. /\ g \in FlushTracker
        /\ g.ongoing_flush_lsns = f.ongoing_flush_lsns
        /\ g.last_flush_lsn = f.last_flush_lsn
        /\ g.new_largest_flush_lsn = LargerLsn(f.new_largest_flush_lsn, lsn)
        /\ g.completed_unrecorded_flush_lsns = parked
        /\ g.new_flush_lsn = lsn
    BY <1>0, <1>2, <2>1 DEF FlushTracker, OptLsn
  <2> QED
    BY <1>4, <2>2 DEF g
<1>5. CASE OngoingLsns(f) # {} /\ ~BelowOngoing(f, lsn)
  <2>1. g = [f EXCEPT !.new_largest_flush_lsn = LargerLsn(@, lsn),
                      !.new_flush_lsn = f.new_flush_lsn,
                      !.completed_unrecorded_flush_lsns = parked \cup {lsn}]
    BY <1>5 DEF TrySetNextFlushLsn
  <2> HIDE DEF g
  <2>2. /\ g \in FlushTracker
        /\ g.ongoing_flush_lsns = f.ongoing_flush_lsns
        /\ g.last_flush_lsn = f.last_flush_lsn
        /\ g.new_largest_flush_lsn = LargerLsn(f.new_largest_flush_lsn, lsn)
        /\ g.completed_unrecorded_flush_lsns = parked \cup {lsn}
        /\ g.new_flush_lsn = f.new_flush_lsn
    BY <1>0, <1>2, <2>1 DEF FlushTracker, OptLsn
  <2> QED
    BY <1>1, <1>5, <2>2 DEF g
<1> QED
  BY <1>3, <1>4, <1>5
-----------------------------------------------------------------------------
(* What TypeOK says of each number in the state, for the arithmetic below.   *)
LEMMA TypeFacts ==
  ASSUME TypeOK
  PROVE  /\ Lsn \subseteq Nat \ {0}
         /\ fl \in FlushTracker
         /\ fl.ongoing_flush_lsns \in [Lsn -> Nat]
         /\ fl.completed_unrecorded_flush_lsns \in SUBSET Lsn
         /\ fl.last_flush_lsn \in Nat
         /\ fl.new_flush_lsn \in Nat
         /\ fl.new_largest_flush_lsn \in Nat
         /\ task.new_flush_lsn \in Nat
         /\ task.new_largest_flush_lsn \in Nat
         /\ snap.flush_lsn \in Nat
         /\ snap.largest_flush_lsn \in Nat
         /\ payload.flush_lsn \in Nat
         /\ top \in Nat
         /\ new_disk_slices \in [Lsn -> Nat]
         /\ task.slices \in [Lsn -> Nat]
         /\ snap.slices \in [Lsn -> Nat]
         /\ payload.slices \in [Lsn -> Nat]
         /\ written \in [Lsn -> Nat]
<1>1. Lsn \subseteq Nat \ {0} /\ OptLsn \subseteq Nat
  BY LsnAssumption DEF OptLsn, NoLsn
<1> QED
  BY <1>1 DEF TypeOK, FlushTracker, Slices

(* Membership in OngoingLsns, and what it is for it to be empty.             *)
LEMMA OngoingFacts ==
  ASSUME NEW f, f.ongoing_flush_lsns \in [Lsn -> Nat]
  PROVE  /\ \A l \in Lsn : l \in OngoingLsns(f) <=> f.ongoing_flush_lsns[l] > 0
         /\ OngoingLsns(f) = {} <=> \A l \in Lsn : f.ongoing_flush_lsns[l] = 0
<1> DEFINE c == f.ongoing_flush_lsns
<1>1. \A l \in Lsn : c[l] \in Nat
  OBVIOUS
<1> HIDE DEF c
<1>2. \A l \in Lsn : c[l] > 0 <=> c[l] # 0
  BY <1>1
<1>3. OngoingLsns(f) = {l \in Lsn : c[l] > 0}
  BY Zenon DEF OngoingLsns, c
<1> QED
  BY <1>2, <1>3, Zenon DEF c

(* The invariant holds of an empty table and of a freshly loaded one.        *)
LEMMA InitIInv ==
  ASSUME Init
  PROVE  IInv
<1> USE LsnAssumption DEF NoLsn, OptLsn
<1>1. PICK loaded \in OptLsn :
        /\ fl = InitFlushTracker
        /\ new_disk_slices = NoSlices
        /\ task = IdleTask
        /\ snap = [flush_lsn |-> loaded, largest_flush_lsn |-> NoLsn, slices |-> NoSlices]
        /\ payload = [flush_lsn |-> loaded, slices |-> NoSlices]
        /\ top = loaded
        /\ written = NoSlices
  BY DEF Init
<1>2. NoSlices \in Slices /\ \A l \in Lsn : NoSlices[l] = 0
  BY DEF NoSlices, Slices
<1>3. /\ fl \in FlushTracker
      /\ \A l \in Lsn : fl.ongoing_flush_lsns[l] = 0
      /\ fl.completed_unrecorded_flush_lsns = {}
      /\ fl.last_flush_lsn = 0
      /\ fl.new_flush_lsn = 0
      /\ fl.new_largest_flush_lsn = 0
  BY <1>1 DEF InitFlushTracker, FlushTracker
<1>4. TypeOK
  BY <1>1, <1>2, <1>3 DEF TypeOK, IdleTask
<1>5. OngoingLsns(fl) = {}
  BY <1>3, OngoingFacts DEF FlushTracker
<1>a. /\ loaded \in Nat
      /\ task.new_flush_lsn = 0 /\ task.new_largest_flush_lsn = 0
      /\ task.slices = NoSlices
      /\ snap.flush_lsn = loaded /\ snap.largest_flush_lsn = 0
      /\ snap.slices = NoSlices
      /\ payload.flush_lsn = loaded /\ payload.slices = NoSlices
      /\ top = loaded /\ written = NoSlices /\ new_disk_slices = NoSlices
  BY <1>1 DEF IdleTask
<1>b. \A l \in Lsn : written[l] = 0
  BY <1>2, <1>a, Zenon
<1>6. LsnOrder
  <2>1. \A l \in Lsn : written[l] > 0 => l <= top
    BY <1>b
  <2>2. \A l \in fl.completed_unrecorded_flush_lsns : l <= top
    BY <1>3, Zenon
  <2>3. loaded >= 0 /\ loaded <= loaded
    BY <1>a
  <2> HIDE DEF OptLsn
  <2> QED
    BY <1>3, <1>a, <2>1, <2>2, <2>3 DEF LsnOrder
<1>c. \A l \in Lsn : /\ fl.ongoing_flush_lsns[l] = 0 /\ new_disk_slices[l] = 0
                      /\ task.slices[l] = 0 /\ snap.slices[l] = 0
  BY <1>2, <1>3, <1>a, Zenon
<1>7. SlicesConserved /\ SlicesOrder
  BY <1>b, <1>c DEF SlicesConserved, SlicesOrder
<1>8. ParkedOrder /\ FlushLsnFinished
  BY <1>3, <1>5 DEF ParkedOrder, HasMax, FlushLsnFinished
<1>9. LargestAccounted
  BY <1>3, <1>a DEF LargestAccounted, LargestHeard, LargestFlush, LargerLsn
<1>10. IdleTaskEmpty /\ PayloadExact
  BY <1>1, <1>2, <1>a DEF IdleTaskEmpty, PayloadExact
<1> QED
  BY <1>4, <1>6, <1>7, <1>8, <1>9, <1>10 DEF IInv

(* Counts that add up to nothing are all zero.                               *)
LEMMA SumZero ==
  ASSUME NEW a \in Nat, NEW b \in Nat, NEW c \in Nat, NEW d \in Nat, a + b + c + d = 0
  PROVE  a = 0 /\ b = 0 /\ c = 0 /\ d = 0
OBVIOUS

(* Moving one slice from one count to the next keeps the total.              *)
LEMMA SumShift ==
  ASSUME NEW a \in Nat, NEW b \in Nat, NEW c \in Nat, NEW d \in Nat, NEW e,
         a + b + c + d = e
  PROVE  (a - 1) + (b + 1) + c + d = e
OBVIOUS

(* Flushes started by flush(lsn), or by a streaming commit, at an LSN above  *)
(* every earlier one.                                                        *)
LEMMA StartIInv ==
  ASSUME IInv, NEW lsn \in Lsn, NEW count \in Nat \ {0}, NEW early \in Nat,
         lsn > top,
         fl' \in FlushTracker,
         fl'.ongoing_flush_lsns = [fl.ongoing_flush_lsns EXCEPT ![lsn] = @ + count],
         fl'.last_flush_lsn = lsn,
         fl'.new_flush_lsn = fl.new_flush_lsn,
         fl'.new_largest_flush_lsn = IF early > 0 THEN LargerLsn(fl.new_largest_flush_lsn, lsn)
                                                  ELSE fl.new_largest_flush_lsn,
         fl'.completed_unrecorded_flush_lsns = fl.completed_unrecorded_flush_lsns,
         new_disk_slices' = [new_disk_slices EXCEPT ![lsn] = early],
         written' = [written EXCEPT ![lsn] = count + early],
         top' = lsn,
         UNCHANGED <<task, snap, payload>>
  PROVE  IInv'
<1> USE DEF NoLsn
<1>1. TypeOK
  BY DEF IInv
<1>2. TypeOK'
  <2>1. new_disk_slices' \in Slices /\ written' \in Slices
    BY <1>1 DEF TypeOK, Slices
  <2> QED
    BY <1>1, <2>1 DEF TypeOK, OptLsn
<1>3. /\ Lsn \subseteq Nat \ {0}
      /\ \A l \in Lsn : fl'.ongoing_flush_lsns[l]
                          = IF l = lsn THEN fl.ongoing_flush_lsns[l] + count
                                       ELSE fl.ongoing_flush_lsns[l]
      /\ \A l \in Lsn : new_disk_slices'[l] = IF l = lsn THEN early ELSE new_disk_slices[l]
      /\ \A l \in Lsn : written'[l] = IF l = lsn THEN count + early ELSE written[l]
  BY <1>1, TypeFacts
<1>4. /\ fl.ongoing_flush_lsns[lsn] = 0 /\ new_disk_slices[lsn] = 0
      /\ task.slices[lsn] = 0 /\ snap.slices[lsn] = 0 /\ written[lsn] = 0
  <2>1. /\ fl.ongoing_flush_lsns[lsn] \in Nat /\ new_disk_slices[lsn] \in Nat
        /\ task.slices[lsn] \in Nat /\ snap.slices[lsn] \in Nat /\ written[lsn] \in Nat
    BY <1>1, TypeFacts
  <2>2. written[lsn] = 0
    BY <1>1, <2>1, TypeFacts DEF IInv, LsnOrder
  <2>3. fl.ongoing_flush_lsns[lsn] + new_disk_slices[lsn] + task.slices[lsn]
          + snap.slices[lsn] = 0
    BY <2>2 DEF IInv, SlicesConserved
  <2> DEFINE a == fl.ongoing_flush_lsns[lsn]  b == new_disk_slices[lsn]
             c == task.slices[lsn]            d == snap.slices[lsn]
  <2>4. a \in Nat /\ b \in Nat /\ c \in Nat /\ d \in Nat /\ a + b + c + d = 0
    BY <2>1, <2>3
  <2> HIDE DEF a, b, c, d
  <2>5. a = 0 /\ b = 0 /\ c = 0 /\ d = 0
    BY <2>4, SumZero
  <2> QED
    BY <2>2, <2>5 DEF a, b, c, d
<1>5. LsnOrder'
  <2>1. /\ top \in Nat /\ lsn \in Nat
        /\ fl.new_flush_lsn \in Nat /\ fl.new_largest_flush_lsn \in Nat
        /\ task.new_flush_lsn \in Nat /\ task.new_largest_flush_lsn \in Nat
        /\ snap.flush_lsn \in Nat /\ snap.largest_flush_lsn \in Nat
    BY <1>1, TypeFacts
  <2>2. \A l \in Lsn : written'[l] > 0 => l <= top'
    BY <1>1, <1>3, <2>1, TypeFacts DEF IInv, LsnOrder
  <2>3. \A l \in fl'.completed_unrecorded_flush_lsns : l <= top'
    <3> SUFFICES ASSUME NEW l \in fl.completed_unrecorded_flush_lsns
                 PROVE  l <= lsn
      BY Zenon
    <3>1. l \in Nat
      BY <1>1, TypeFacts
    <3>2. l <= top
      BY DEF IInv, LsnOrder
    <3> QED
      BY <2>1, <3>1, <3>2
  <2>4. fl'.new_largest_flush_lsn <= top'
    BY <2>1 DEF IInv, LsnOrder, LargerLsn
  <2> QED
    BY <2>1, <2>2, <2>3, <2>4 DEF IInv, LsnOrder
<1>6. SlicesConserved'
  <2> SUFFICES ASSUME NEW l \in Lsn
               PROVE  fl'.ongoing_flush_lsns[l] + new_disk_slices'[l] + task.slices[l]
                        + snap.slices[l] = written'[l]
    BY DEF SlicesConserved
  <2>1. CASE l = lsn
    BY <1>3, <1>4, <2>1
  <2>2. CASE l # lsn
    BY <1>3, <2>2 DEF IInv, SlicesConserved
  <2> QED
    BY <2>1, <2>2
<1>7. SlicesOrder'
  BY <1>1, <1>3, <1>4, TypeFacts DEF IInv, LsnOrder, SlicesOrder, LargerLsn
<1>8. OngoingLsns(fl') = OngoingLsns(fl) \cup {lsn}
  BY <1>1, <1>3, TypeFacts DEF OngoingLsns
<1>9. ParkedOrder'
  BY <1>8 DEF IInv, ParkedOrder
<1>10. LargestAccounted'
  BY <1>1, <1>8, TypeFacts
  DEF IInv, LsnOrder, LargestAccounted, LargestHeard, LargestFlush, LargerLsn
<1>11. IdleTaskEmpty'
  BY DEF IInv, IdleTaskEmpty
<1>12. FlushLsnFinished'
  BY <1>1, <1>8, TypeFacts DEF IInv, LsnOrder, FlushLsnFinished
<1>13. PayloadExact'
  BY <1>1, <1>3, <1>4, TypeFacts DEF IInv, LsnOrder, PayloadExact
<1> QED
  BY <1>2, <1>5, <1>6, <1>7, <1>9, <1>10, <1>11, <1>12, <1>13 DEF IInv

(* An empty flush, at or above every LSN so far.                             *)
LEMMA EmptyFlushIInv ==
  ASSUME IInv, NEW lsn \in Lsn, EmptyFlush(lsn)
  PROVE  IInv'
<1> USE DEF NoLsn
<1>1. TypeOK
  BY DEF IInv
<1>2. /\ fl' = TrySetNextFlushLsn(fl, lsn) /\ lsn >= top /\ top' = lsn
      /\ UNCHANGED <<new_disk_slices, task, snap, payload, written>>
  BY DEF EmptyFlush
<1>3. fl \in FlushTracker /\ HasMax(fl.completed_unrecorded_flush_lsns)
  BY <1>1, TypeFacts DEF IInv, ParkedOrder
<1>4. /\ fl' \in FlushTracker
      /\ fl'.ongoing_flush_lsns = fl.ongoing_flush_lsns
      /\ fl'.last_flush_lsn = fl.last_flush_lsn
      /\ fl'.new_largest_flush_lsn = LargerLsn(fl.new_largest_flush_lsn, lsn)
      /\ HasMax(fl'.completed_unrecorded_flush_lsns)
  BY <1>2, <1>3, TrySetNextFacts
<1>5. OngoingLsns(fl') = OngoingLsns(fl)
  BY <1>4 DEF OngoingLsns
<1>6. \A l \in OngoingLsns(fl) : l <= top
  <2> SUFFICES ASSUME NEW l \in Lsn, fl.ongoing_flush_lsns[l] > 0
               PROVE  l <= top
    BY DEF OngoingLsns
  <2>1. written[l] > 0
    BY <1>1, TypeFacts DEF IInv, SlicesConserved
  <2> QED
    BY <2>1 DEF IInv, LsnOrder
<1>7. \/ /\ OngoingLsns(fl) = {}
         /\ fl'.new_flush_lsn = lsn
         /\ fl'.completed_unrecorded_flush_lsns = {}
      \/ /\ OngoingLsns(fl) # {}
         /\ fl'.new_flush_lsn = fl.new_flush_lsn
         /\ fl'.completed_unrecorded_flush_lsns = fl.completed_unrecorded_flush_lsns \cup {lsn}
  <2>1. CASE OngoingLsns(fl) = {}
    <3>1. fl.completed_unrecorded_flush_lsns = {}
      BY <2>1 DEF IInv, ParkedOrder
    <3> QED
      BY <1>2, <1>3, <2>1, <3>1, TrySetNextFacts
  <2>2. CASE OngoingLsns(fl) # {}
    <3>1. ~BelowOngoing(fl, lsn)
      <4>1. PICK l \in OngoingLsns(fl) : l <= top
        BY <1>6, <2>2
      <4> QED
        BY <1>1, <1>2, <4>1, TypeFacts DEF BelowOngoing, OngoingLsns
    <3> QED
      BY <1>2, <1>3, <2>2, <3>1, TrySetNextFacts
  <2> QED
    BY <2>1, <2>2
<1>8. TypeOK'
  BY <1>1, <1>2, <1>4 DEF TypeOK, OptLsn
<1>9. LsnOrder'
  BY <1>1, <1>2, <1>4, <1>7, TypeFacts DEF IInv, LsnOrder, LargerLsn
<1>10. SlicesConserved'
  BY <1>2, <1>4 DEF IInv, SlicesConserved
<1>11. SlicesOrder'
  BY <1>1, <1>2, <1>4, TypeFacts DEF IInv, SlicesOrder, LargerLsn
<1>12. ParkedOrder'
  BY <1>4, <1>5, <1>7 DEF ParkedOrder
<1>13. LargestAccounted'
  BY <1>1, <1>2, <1>4, <1>5, <1>7, TypeFacts
  DEF IInv, LsnOrder, LargestAccounted, LargestHeard, LargestFlush, LargerLsn
<1>14. IdleTaskEmpty' /\ PayloadExact'
  BY <1>2 DEF IInv, IdleTaskEmpty, PayloadExact
<1>15. FlushLsnFinished'
  BY <1>2, <1>5, <1>7 DEF IInv, FlushLsnFinished
<1> QED
  BY <1>8, <1>9, <1>10, <1>11, <1>12, <1>13, <1>14, <1>15 DEF IInv

(* A flush finishes: its slice joins the next task, and its LSN is recorded  *)
(* if no flush at or below it remains.                                       *)
LEMMA FinishFlushIInv ==
  ASSUME IInv, NEW lsn \in Lsn, FinishFlush(lsn)
  PROVE  IInv'
<1> USE DEF NoLsn
<1> DEFINE g == RemoveOngoingFlushLsn(fl, lsn)
<1>1. TypeOK
  BY DEF IInv
<1>2. /\ fl.ongoing_flush_lsns[lsn] > 0
      /\ fl' = TrySetNextFlushLsn(g, lsn)
      /\ new_disk_slices' = [new_disk_slices EXCEPT ![lsn] = @ + 1]
      /\ UNCHANGED <<task, snap, payload, top, written>>
  BY DEF FinishFlush
<1>3. /\ g \in FlushTracker
      /\ g.ongoing_flush_lsns = [fl.ongoing_flush_lsns EXCEPT ![lsn] = @ - 1]
      /\ g.last_flush_lsn = fl.last_flush_lsn
      /\ g.new_flush_lsn = fl.new_flush_lsn
      /\ g.new_largest_flush_lsn = fl.new_largest_flush_lsn
      /\ g.completed_unrecorded_flush_lsns = fl.completed_unrecorded_flush_lsns
      /\ HasMax(g.completed_unrecorded_flush_lsns)
  BY <1>1, <1>2, TypeFacts, RemoveOngoingFacts DEF IInv, ParkedOrder
<1> HIDE DEF g
<1>4. /\ fl' \in FlushTracker
      /\ fl'.ongoing_flush_lsns = g.ongoing_flush_lsns
      /\ fl'.last_flush_lsn = fl.last_flush_lsn
      /\ fl'.new_largest_flush_lsn = LargerLsn(fl.new_largest_flush_lsn, lsn)
      /\ HasMax(fl'.completed_unrecorded_flush_lsns)
  BY <1>2, <1>3, TrySetNextFacts
<1>5. /\ \A l \in Lsn : fl'.ongoing_flush_lsns[l]
                          = IF l = lsn THEN fl.ongoing_flush_lsns[l] - 1
                                       ELSE fl.ongoing_flush_lsns[l]
      /\ \A l \in Lsn : new_disk_slices'[l] = IF l = lsn THEN new_disk_slices[l] + 1
                                                         ELSE new_disk_slices[l]
  BY <1>1, <1>2, <1>3, <1>4, TypeFacts
<1>6. /\ OngoingLsns(fl') = OngoingLsns(g)
      /\ OngoingLsns(fl) = OngoingLsns(g) \cup {lsn}
  BY <1>1, <1>2, <1>4, <1>5, TypeFacts DEF OngoingLsns
<1>7. lsn \in Nat /\ lsn <= top
  <2>1. written[lsn] > 0
    BY <1>1, <1>2, TypeFacts DEF IInv, SlicesConserved
  <2> QED
    BY <1>1, <2>1, TypeFacts DEF IInv, LsnOrder
<1>8. fl.new_flush_lsn < lsn /\ task.new_flush_lsn < lsn /\ snap.flush_lsn < lsn
  BY <1>6 DEF IInv, FlushLsnFinished
<1>9. \/ /\ OngoingLsns(g) = {}
         /\ fl'.completed_unrecorded_flush_lsns = {}
         /\ fl'.new_flush_lsn \in fl.completed_unrecorded_flush_lsns \cup {lsn}
         /\ \A y \in fl.completed_unrecorded_flush_lsns \cup {lsn} : y <= fl'.new_flush_lsn
      \/ /\ OngoingLsns(g) # {}
         /\ BelowOngoing(g, lsn)
         /\ fl'.new_flush_lsn = lsn
         /\ fl'.completed_unrecorded_flush_lsns = fl.completed_unrecorded_flush_lsns
      \/ /\ OngoingLsns(g) # {}
         /\ fl'.new_flush_lsn = fl.new_flush_lsn
         /\ fl'.completed_unrecorded_flush_lsns = fl.completed_unrecorded_flush_lsns \cup {lsn}
  BY <1>2, <1>3, TrySetNextFacts
<1>10. TypeOK'
  <2>1. new_disk_slices' \in Slices
    BY <1>1, <1>2 DEF TypeOK, Slices
  <2> QED
    BY <1>1, <1>2, <1>4, <2>1 DEF TypeOK
<1>11. /\ fl'.new_flush_lsn \in Nat /\ fl'.new_flush_lsn <= top
       /\ fl.new_flush_lsn <= fl'.new_flush_lsn
       /\ fl'.new_flush_lsn # fl.new_flush_lsn => lsn <= fl'.new_flush_lsn
  <2>1. /\ fl.new_flush_lsn \in Nat /\ fl.new_flush_lsn <= top /\ top \in Nat
        /\ \A y \in fl.completed_unrecorded_flush_lsns \cup {lsn} : y \in Nat /\ y <= top
    BY <1>1, <1>7, TypeFacts DEF IInv, LsnOrder
  <2> QED
    BY <1>7, <1>8, <1>9, <2>1
<1>12. LsnOrder'
  <2>1. \A l \in fl'.completed_unrecorded_flush_lsns : l <= top
    BY <1>7, <1>9 DEF IInv, LsnOrder
  <2> QED
    BY <1>1, <1>2, <1>4, <1>7, <1>8, <1>11, <2>1, TypeFacts DEF IInv, LsnOrder, LargerLsn
<1>13. SlicesConserved'
  <2> SUFFICES ASSUME NEW l \in Lsn
               PROVE  fl'.ongoing_flush_lsns[l] + new_disk_slices'[l] + task.slices[l]
                        + snap.slices[l] = written[l]
    BY <1>2 DEF SlicesConserved
  <2>1. /\ fl.ongoing_flush_lsns[l] \in Nat /\ new_disk_slices[l] \in Nat
        /\ task.slices[l] \in Nat /\ snap.slices[l] \in Nat
        /\ fl.ongoing_flush_lsns[l] + new_disk_slices[l] + task.slices[l]
             + snap.slices[l] = written[l]
    BY <1>1, TypeFacts DEF IInv, SlicesConserved
  <2>2. CASE l = lsn
    <3>1. /\ fl'.ongoing_flush_lsns[l] = fl.ongoing_flush_lsns[l] - 1
          /\ new_disk_slices'[l] = new_disk_slices[l] + 1
      BY <1>5, <2>2
    <3> QED
      BY <2>1, <3>1, SumShift
  <2>3. CASE l # lsn
    BY <1>5, <2>1, <2>3
  <2> QED
    BY <2>2, <2>3
<1>14. SlicesOrder'
  BY <1>1, <1>2, <1>4, <1>5, <1>7, <1>8, TypeFacts DEF IInv, SlicesOrder, LargerLsn
<1>15. ParkedOrder'
  BY <1>4, <1>6, <1>9 DEF ParkedOrder
<1>16. LargestAccounted'
  BY <1>1, <1>2, <1>4, <1>6, <1>7, <1>8, <1>9, <1>11, TypeFacts
  DEF IInv, LargestAccounted, LargestHeard, LargestFlush, LargerLsn
<1>17. IdleTaskEmpty' /\ PayloadExact'
  BY <1>2 DEF IInv, IdleTaskEmpty, PayloadExact
<1>18. FlushLsnFinished'
  BY <1>2, <1>6, <1>9 DEF IInv, FlushLsnFinished, BelowOngoing
<1> QED
  BY <1>10, <1>12, <1>13, <1>14, <1>15, <1>16, <1>17, <1>18 DEF IInv

(* The next task is taken, with every slice and LSN recorded so far.         *)
LEMMA CreateSnapshotIInv ==
  ASSUME IInv, CreateSnapshot
  PROVE  IInv'
<1> USE DEF NoLsn
<1>1. TypeOK
  BY DEF IInv
<1>2. /\ ~task.running
      /\ task' = [running |-> TRUE, new_flush_lsn |-> fl.new_flush_lsn,
                  new_largest_flush_lsn |-> fl.new_largest_flush_lsn,
                  slices |-> new_disk_slices, ongoing |-> OngoingLsns(fl)]
      /\ fl' = ResetForNextTask(fl)
      /\ new_disk_slices' = NoSlices
      /\ UNCHANGED <<snap, payload, top, written>>
  BY DEF CreateSnapshot
<1>3. /\ task'.new_flush_lsn = fl.new_flush_lsn
      /\ task'.new_largest_flush_lsn = fl.new_largest_flush_lsn
      /\ task'.slices = new_disk_slices
      /\ task'.running
  BY <1>2
<1>4. /\ fl' \in FlushTracker
      /\ fl'.ongoing_flush_lsns = fl.ongoing_flush_lsns
      /\ fl'.last_flush_lsn = fl.last_flush_lsn
      /\ fl'.new_flush_lsn = 0
      /\ fl'.new_largest_flush_lsn = 0
      /\ fl'.completed_unrecorded_flush_lsns = fl.completed_unrecorded_flush_lsns
  BY <1>1, <1>2, TypeFacts DEF ResetForNextTask, FlushTracker, OptLsn
<1>5. \A l \in Lsn : new_disk_slices'[l] = 0 /\ task.slices[l] = 0
  BY <1>2 DEF IInv, IdleTaskEmpty, IdleTask, NoSlices
<1>6. task.new_flush_lsn = 0 /\ task.new_largest_flush_lsn = 0
  BY <1>2 DEF IInv, IdleTaskEmpty, IdleTask
<1>7. OngoingLsns(fl') = OngoingLsns(fl) /\ OngoingLsns(fl) \in SUBSET Lsn
  BY <1>4 DEF OngoingLsns
<1>8. TypeOK'
  <2>1. new_disk_slices' \in Slices
    BY <1>2 DEF NoSlices, Slices
  <2>2. /\ fl.new_flush_lsn \in OptLsn
        /\ fl.new_largest_flush_lsn \in OptLsn
        /\ new_disk_slices \in Slices
    BY <1>1 DEF TypeOK, FlushTracker
  <2> QED
    BY <1>1, <1>2, <1>4, <1>7, <2>1, <2>2 DEF TypeOK
<1>9. LsnOrder'
  BY <1>1, <1>2, <1>3, <1>4, TypeFacts DEF IInv, LsnOrder
<1>10. SlicesConserved'
  BY <1>1, <1>2, <1>3, <1>4, <1>5, TypeFacts DEF IInv, SlicesConserved
<1>11. SlicesOrder'
  <2>1. \A l \in Lsn : new_disk_slices[l] > 0 => /\ l <= fl.new_largest_flush_lsn
                                                 /\ snap.flush_lsn < l
    BY DEF IInv, SlicesOrder
  <2> QED
    BY <1>1, <1>2, <1>3, <1>4, <1>5, <2>1 DEF IInv, SlicesOrder
<1>12. ParkedOrder'
  BY <1>4, <1>7 DEF IInv, ParkedOrder
<1>13. LargestAccounted'
  BY <1>1, <1>2, <1>3, <1>4, <1>6, <1>7, TypeFacts
  DEF IInv, LargestAccounted, LargestHeard, LargestFlush, LargerLsn
<1>14. IdleTaskEmpty' /\ PayloadExact'
  BY <1>2, <1>3 DEF IInv, IdleTaskEmpty, PayloadExact
<1>15. FlushLsnFinished'
  <2>1. \A l \in OngoingLsns(fl) : 0 < l
    BY <1>1, <1>7, TypeFacts
  <2> QED
    BY <1>2, <1>3, <1>4, <1>7, <2>1 DEF IInv, FlushLsnFinished
<1> QED
  BY <1>8, <1>9, <1>10, <1>11, <1>12, <1>13, <1>14, <1>15 DEF IInv

(* The task is merged into the snapshot and a payload may be cut from it.    *)
LEMMA UpdateSnapshotIInv ==
  ASSUME IInv, NEW skip \in BOOLEAN, UpdateSnapshot(skip)
  PROVE  /\ IInv'
         /\ snap.flush_lsn <= snap'.flush_lsn
         /\ payload.flush_lsn <= payload'.flush_lsn
<1> USE DEF NoLsn
<1>1. TypeOK
  BY DEF IInv
<1>2. /\ snap'.flush_lsn = IF task.new_flush_lsn # NoLsn THEN task.new_flush_lsn
                                                         ELSE snap.flush_lsn
      /\ snap'.largest_flush_lsn = LargerLsn(snap.largest_flush_lsn, task.new_largest_flush_lsn)
      /\ snap'.slices = AddSlices(snap.slices, task.slices)
      /\ task' = IdleTask
      /\ UNCHANGED <<fl, new_disk_slices, top, written>>
  BY DEF UpdateSnapshot
<1>3. \/ payload' = payload
      \/ /\ payload'.flush_lsn = snap'.flush_lsn
         /\ payload'.slices = snap'.slices
         /\ snap'.flush_lsn = snap'.largest_flush_lsn
  BY DEF UpdateSnapshot, Persistable
<1>4. \A l \in Lsn : snap'.slices[l] = snap.slices[l] + task.slices[l]
  BY <1>2 DEF AddSlices
<1>5. /\ task'.new_flush_lsn = 0 /\ task'.new_largest_flush_lsn = 0
      /\ \A l \in Lsn : task'.slices[l] = 0
  BY <1>2 DEF IdleTask, NoSlices
<1>6. TypeOK'
  <2>1. /\ snap.flush_lsn \in OptLsn /\ snap.largest_flush_lsn \in OptLsn
        /\ task.new_flush_lsn \in OptLsn /\ task.new_largest_flush_lsn \in OptLsn
        /\ snap.slices \in Slices /\ task.slices \in Slices
    BY <1>1 DEF TypeOK
  <2>2. AddSlices(snap.slices, task.slices) \in Slices
    BY <2>1 DEF AddSlices, Slices
  <2>3. snap' \in [flush_lsn : OptLsn, largest_flush_lsn : OptLsn, slices : Slices]
    BY <2>1, <2>2 DEF UpdateSnapshot, LargerLsn
  <2>4. payload' \in [flush_lsn : OptLsn, slices : Slices]
    BY <1>1, <2>3 DEF UpdateSnapshot, TypeOK
  <2>5. task' \in [running : BOOLEAN, new_flush_lsn : OptLsn,
                   new_largest_flush_lsn : OptLsn, slices : Slices, ongoing : SUBSET Lsn]
    BY <1>2 DEF IdleTask, NoSlices, Slices, OptLsn
  <2> QED
    BY <1>1, <1>2, <2>3, <2>4, <2>5 DEF TypeOK
<1>7. /\ snap.flush_lsn <= snap'.flush_lsn
      /\ payload.flush_lsn <= payload'.flush_lsn
      /\ payload'.flush_lsn <= snap'.flush_lsn
      /\ snap'.flush_lsn <= top
  BY <1>1, <1>2, <1>3, TypeFacts DEF IInv, LsnOrder
<1>8. LsnOrder'
  BY <1>1, <1>2, <1>5, <1>7, TypeFacts DEF IInv, LsnOrder, LargerLsn
<1>9. SlicesConserved'
  BY <1>1, <1>2, <1>4, <1>5, TypeFacts DEF IInv, SlicesConserved
<1>10. SlicesOrder'
  <2>1. \A l \in Lsn : /\ snap.slices[l] \in Nat /\ task.slices[l] \in Nat
                       /\ snap.slices[l] > 0 => l <= snap.largest_flush_lsn
                       /\ task.slices[l] > 0 => l <= task.new_largest_flush_lsn
                       /\ new_disk_slices[l] > 0 => l <= fl.new_largest_flush_lsn
                       /\ new_disk_slices[l] > 0 => 0 < l /\ snap'.flush_lsn < l
    BY <1>1, <1>2, TypeFacts DEF IInv, SlicesOrder
  <2>2. \A l \in Lsn : snap'.slices[l] > 0 => l <= snap'.largest_flush_lsn
    BY <1>1, <1>2, <1>4, <2>1, TypeFacts DEF LargerLsn
  <2> QED
    BY <1>2, <1>5, <2>1, <2>2 DEF SlicesOrder
<1>11. ParkedOrder'
  BY <1>2 DEF IInv, ParkedOrder
<1>12. LargestAccounted'
  BY <1>1, <1>2, <1>5, TypeFacts
  DEF IInv, LsnOrder, LargestAccounted, LargestHeard, LargestFlush, LargerLsn
<1>13. IdleTaskEmpty'
  BY <1>2 DEF IdleTaskEmpty
<1>14. FlushLsnFinished'
  BY <1>1, <1>2, <1>5, TypeFacts DEF IInv, FlushLsnFinished, OngoingLsns
<1>15. PayloadExact'
  <2>1. CASE payload' = payload
    BY <1>2, <2>1 DEF IInv, PayloadExact
  <2>2. CASE /\ payload'.flush_lsn = snap'.flush_lsn
             /\ payload'.slices = snap'.slices
             /\ snap'.flush_lsn = snap'.largest_flush_lsn
    <3> SUFFICES ASSUME NEW l \in Lsn
                 PROVE  snap'.slices[l] = IF l <= snap'.flush_lsn THEN written[l] ELSE 0
      BY <1>2, <2>2 DEF PayloadExact
    <3>1. /\ fl.ongoing_flush_lsns[l] \in Nat /\ new_disk_slices[l] \in Nat
          /\ snap'.slices[l] \in Nat /\ l \in Nat /\ snap'.flush_lsn \in Nat
      BY <1>1, <1>2, <1>4, TypeFacts
    <3>2. CASE l <= snap'.flush_lsn
      <4>1. fl.ongoing_flush_lsns[l] = 0
        BY <1>2, <1>14, <3>1, <3>2 DEF FlushLsnFinished, OngoingLsns
      <4>2. new_disk_slices[l] = 0
        BY <1>2, <1>10, <3>1, <3>2 DEF SlicesOrder
      <4>3. fl.ongoing_flush_lsns[l] + new_disk_slices[l] + 0 + snap'.slices[l] = written[l]
        BY <1>2, <1>5, <1>9 DEF SlicesConserved
      <4> QED
        BY <3>1, <3>2, <4>1, <4>2, <4>3
    <3>3. CASE ~(l <= snap'.flush_lsn)
      BY <1>10, <2>2, <3>1, <3>3 DEF SlicesOrder
    <3> QED
      BY <3>2, <3>3
  <2> QED
    BY <1>3, <2>1, <2>2
<1> QED
  BY <1>6, <1>7, <1>8, <1>9, <1>10, <1>11, <1>12, <1>13, <1>14, <1>15 DEF IInv
-----------------------------------------------------------------------------
(* Every step keeps the invariant, and no step takes a flush LSN back.       *)
LEMMA NextIInv ==
  ASSUME IInv, [Next]_vars
  PROVE  /\ IInv'
         /\ snap.flush_lsn <= snap'.flush_lsn
         /\ payload.flush_lsn <= payload'.flush_lsn
<1> USE DEF NoLsn
<1>1. TypeOK /\ snap.flush_lsn \in Nat /\ payload.flush_lsn \in Nat
  BY TypeFacts DEF IInv
<1>2. ASSUME NEW lsn \in Lsn, StartFlush(lsn)
      PROVE  IInv' /\ UNCHANGED <<snap, payload>>
  <2>1. /\ lsn > top /\ top' = lsn
        /\ fl' = InsertOngoingFlushLsn(fl, lsn, 1)
        /\ written' = [written EXCEPT ![lsn] = 1]
        /\ UNCHANGED <<new_disk_slices, task, snap, payload>>
    BY <1>2 DEF StartFlush
  <2>2. new_disk_slices[lsn] = 0
    <3>1. ~(written[lsn] > 0)
      BY <1>1, <2>1, TypeFacts DEF IInv, LsnOrder
    <3> QED
      BY <1>1, <3>1, TypeFacts DEF IInv, SlicesConserved
  <2>3. new_disk_slices' = [new_disk_slices EXCEPT ![lsn] = 0]
    BY <1>1, <2>1, <2>2, TypeFacts
  <2>4. fl \in FlushTracker
    BY <1>1, TypeFacts
  <2>5. /\ fl' \in FlushTracker
        /\ fl'.ongoing_flush_lsns = [fl.ongoing_flush_lsns EXCEPT ![lsn] = @ + 1]
        /\ fl'.last_flush_lsn = lsn
        /\ fl'.new_flush_lsn = fl.new_flush_lsn
        /\ fl'.new_largest_flush_lsn = fl.new_largest_flush_lsn
        /\ fl'.completed_unrecorded_flush_lsns = fl.completed_unrecorded_flush_lsns
    BY <2>1, <2>4, InsertOngoingFacts
  <2>6. PICK count \in Nat \ {0}, early \in Nat : count = 1 /\ early = 0 /\ count + early = 1
    OBVIOUS
  <2>7. fl'.ongoing_flush_lsns = [fl.ongoing_flush_lsns EXCEPT ![lsn] = @ + count]
    BY <2>5, <2>6
  <2>8. fl'.new_largest_flush_lsn = IF early > 0 THEN LargerLsn(fl.new_largest_flush_lsn, lsn)
                                                 ELSE fl.new_largest_flush_lsn
    BY <2>5, <2>6
  <2>9. new_disk_slices' = [new_disk_slices EXCEPT ![lsn] = early]
    BY <2>3, <2>6
  <2>10. written' = [written EXCEPT ![lsn] = count + early]
    BY <2>1, <2>6
  <2> QED
    BY <2>1, <2>5, <2>7, <2>8, <2>9, <2>10, StartIInv
<1>3. ASSUME NEW lsn \in Lsn, EmptyFlush(lsn)
      PROVE  IInv' /\ UNCHANGED <<snap, payload>>
  BY <1>3, EmptyFlushIInv DEF EmptyFlush
<1>4. ASSUME NEW lsn \in Lsn, NEW count \in 1 .. MaxSlices, NEW early \in 0 .. 1,
             CommitStream(lsn, count, early)
      PROVE  IInv' /\ UNCHANGED <<snap, payload>>
  <2> DEFINE g == InsertOngoingFlushLsn(fl, lsn, count)
  <2>1. count \in Nat \ {0} /\ early \in Nat
    BY MaxSlicesAssumption
  <2>2. /\ lsn > top /\ top' = lsn
        /\ fl' = IF early > 0 THEN TrySetLargestFlushLsn(g, lsn) ELSE g
        /\ new_disk_slices' = [new_disk_slices EXCEPT ![lsn] = early]
        /\ written' = [written EXCEPT ![lsn] = count + early]
        /\ UNCHANGED <<task, snap, payload>>
    BY <1>4 DEF CommitStream
  <2>3. fl \in FlushTracker
    BY <1>1, TypeFacts
  <2>4. /\ g \in FlushTracker
        /\ g.ongoing_flush_lsns = [fl.ongoing_flush_lsns EXCEPT ![lsn] = @ + count]
        /\ g.last_flush_lsn = lsn
        /\ g.new_flush_lsn = fl.new_flush_lsn
        /\ g.new_largest_flush_lsn = fl.new_largest_flush_lsn
        /\ g.completed_unrecorded_flush_lsns = fl.completed_unrecorded_flush_lsns
    BY <2>1, <2>3, InsertOngoingFacts
  <2> HIDE DEF g
  <2>5. /\ fl' \in FlushTracker
        /\ fl'.ongoing_flush_lsns = g.ongoing_flush_lsns
        /\ fl'.last_flush_lsn = lsn
        /\ fl'.new_flush_lsn = fl.new_flush_lsn
        /\ fl'.new_largest_flush_lsn = IF early > 0 THEN LargerLsn(fl.new_largest_flush_lsn, lsn)
                                                    ELSE fl.new_largest_flush_lsn
        /\ fl'.completed_unrecorded_flush_lsns = fl.completed_unrecorded_flush_lsns
    BY <2>2, <2>4, TrySetLargestFacts
  <2> QED
    BY <2>1, <2>2, <2>4, <2>5, StartIInv
<1>5. ASSUME NEW lsn \in Lsn, FinishFlush(lsn)
      PROVE  IInv' /\ UNCHANGED <<snap, payload>>
  BY <1>5, FinishFlushIInv DEF FinishFlush
<1>6. CASE CreateSnapshot
  BY <1>1, <1>6, CreateSnapshotIInv DEF CreateSnapshot
<1>7. ASSUME NEW skip \in BOOLEAN, UpdateSnapshot(skip)
      PROVE  /\ IInv'
             /\ snap.flush_lsn <= snap'.flush_lsn
             /\ payload.flush_lsn <= payload'.flush_lsn
  BY <1>7, UpdateSnapshotIInv
<1>8. CASE UNCHANGED vars
  <2>1. /\ TypeOK' /\ LsnOrder' /\ SlicesConserved' /\ SlicesOrder'
        /\ IdleTaskEmpty' /\ PayloadExact'
    BY <1>8 DEF IInv, vars, TypeOK, LsnOrder, SlicesConserved, SlicesOrder,
                IdleTaskEmpty, PayloadExact
  <2>2. ParkedOrder' /\ LargestAccounted' /\ FlushLsnFinished'
    BY <1>8 DEF IInv, vars, ParkedOrder, LargestAccounted, LargestHeard, LargestFlush,
                FlushLsnFinished
  <2> QED
    BY <1>1, <1>8, <2>1, <2>2 DEF IInv, vars
<1> QED
  BY <1>1, <1>2, <1>3, <1>4, <1>5, <1>6, <1>7, <1>8 DEF Next

(* The strengthened invariant holds in every reachable state of the          *)
(* bookkeeping; the theorems below are read off it.                          *)
THEOREM Invariance == Spec => []IInv
<1>1. Init => IInv
  BY InitIInv
<1>2. IInv /\ [Next]_vars => IInv'
  BY NextIInv
<1> QED
  BY <1>1, <1>2, PTL DEF Spec

(* The state of the flush-LSN bookkeeping keeps its type.                    *)
THEOREM TypeCorrect == Spec => []TypeOK
<1>1. IInv => TypeOK
  BY DEF IInv
<1> QED
  BY <1>1, Invariance, PTL

(* new_flush_lsn and the snapshot's flush_lsn only cover finished flushes:   *)
(* what the comment on SnapshotTask::new_flush_lsn promises.                 *)
THEOREM FlushLsnCoversFinished == Spec => []FlushLsnFinished
<1>1. IInv => FlushLsnFinished
  BY DEF IInv
<1> QED
  BY <1>1, Invariance, PTL

(* A payload handed to persistence holds exactly the slices of the flushes   *)
(* at or below the flush LSN it carries.                                     *)
THEOREM PayloadIsExact == Spec => []PayloadExact
<1>1. IInv => PayloadExact
  BY DEF IInv
<1> QED
  BY <1>1, Invariance, PTL

(* No LSN stays parked in completed_unrecorded_flush_lsns once all flushes   *)
(* have finished.                                                            *)
THEOREM NoLsnLost == Spec => []QuiescentCaughtUp
<1>1. IInv => QuiescentCaughtUp
  <2> SUFFICES ASSUME IInv, OngoingLsns(fl) = {}
               PROVE  LargestFlush >= LargestHeard
    BY DEF QuiescentCaughtUp, LargestFlush, LargestHeard
  <2>1. LargestHeard <= LargestFlush
    BY DEF IInv, ParkedOrder, LargestAccounted
  <2>2. LargestHeard \in Nat /\ LargestFlush \in Nat
    BY TypeFacts DEF IInv, LargestHeard, LargestFlush, LargerLsn
  <2> QED
    BY <2>1, <2>2
<1> QED
  BY <1>1, Invariance, PTL

(* The assertions in try_set_next_flush_lsn, insert_ongoing_flush_lsn and    *)
(* flush cannot fail while the caller hands out LSNs in order.               *)
THEOREM NoAssertionFails == Spec => []AssertionsHold
<1>1. IInv => AssertionsHold
  <2> SUFFICES ASSUME IInv, NEW l \in Lsn
               PROVE  /\ fl.ongoing_flush_lsns[l] > 0
                           => RecordAsserts(RemoveOngoingFlushLsn(fl, l), l)
                      /\ l >= top => /\ RecordAsserts(fl, l)
                                     /\ FlushAsserts(fl, l)
                                     /\ InsertAsserts(fl, l)
    BY DEF AssertionsHold
  <2>1. TypeOK /\ TypeOK => l \in Nat /\ fl.new_flush_lsn \in Nat
                            /\ fl.last_flush_lsn \in Nat /\ top \in Nat
    BY TypeFacts DEF IInv
  <2>2. l >= top => fl.new_flush_lsn <= l /\ l >= fl.last_flush_lsn
    BY <2>1 DEF IInv, LsnOrder
  <2>3. fl.ongoing_flush_lsns[l] > 0 => fl.new_flush_lsn <= l
    BY <2>1 DEF IInv, FlushLsnFinished, OngoingLsns
  <2>4. fl.ongoing_flush_lsns[l] > 0
          => RemoveOngoingFlushLsn(fl, l).new_flush_lsn = fl.new_flush_lsn
    BY TypeFacts, RemoveOngoingFacts DEF IInv
  <2> QED
    BY <2>2, <2>3, <2>4 DEF RecordAsserts, FlushAsserts, InsertAsserts
<1> QED
  BY <1>1, Invariance, PTL

(* Invariant-1 of validate_mooncake_table_invariants: the snapshot's flush   *)
(* LSN does not regress, nor does the LSN of successive payloads.            *)
THEOREM FlushLsnNeverRegresses == Spec => FlushLsnMonotone
<1>1. IInv /\ [Next]_vars =>
        [snap.flush_lsn <= snap.flush_lsn' /\ payload.flush_lsn <= payload.flush_lsn']_vars
  BY NextIInv
<1> QED
  BY <1>1, Invariance, PTL DEF Spec, FlushLsnMonotone
=============================================================================
