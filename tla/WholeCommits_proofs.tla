------------------------- MODULE WholeCommits_proofs -------------------------
(***************************************************************************)
(* Proofs about EventLoop: a table commits whole transactions, but for the *)
(* faults that the model names.  The wire is followed place by place: what *)
(* a table received since the last end of a transaction are the rows of    *)
(* the wire that this connection has passed since that end.                *)
(***************************************************************************)
EXTENDS EventLoop_proofs, FiniteSetTheorems

(* The next place of the wire is dealt with.                                 *)
Advances(s, p) ==
  /\ plan \in StreamScenarios /\ UNCHANGED plan
  /\ s \in Nat /\ InOrder(s)
  /\ p \in DOMAIN plan.wire /\ p \in Pending /\ \A i \in Pending : p <= i
  /\ Pending' = Pending \ {p}

(* What an advance is, place by place.                                       *)
LEMMA AdvanceFacts ==
  ASSUME NEW s, NEW p, Advances(s, p)
  PROVE  /\ plan \in StreamScenarios /\ UNCHANGED plan /\ s \in Nat /\ p \in DOMAIN plan.wire /\ p \in Nat
         /\ p \in Pending /\ Pending' = Pending \ {p} /\ plan.wire[p].end > s
         /\ \A i \in Passed(s) : i < p
         /\ plan.wire[p] \in Message
BY PlanFacts DEF Advances, InOrder

(* The order is kept.                                                        *)
LEMMA AdvanceKeepsOrder ==
  ASSUME NEW s, NEW p, Advances(s, p), Pending \subseteq DOMAIN plan.wire
  PROVE  InOrder(s)'
<1>1. /\ plan \in StreamScenarios /\ UNCHANGED plan /\ p \in DOMAIN plan.wire /\ p \in Pending
      /\ Pending' = Pending \ {p} /\ plan.wire[p].end > s
  BY AdvanceFacts
<1>2. DOMAIN plan.wire \subseteq Nat
  BY <1>1, PlanFacts
<1>3. Passed(s)' \subseteq Passed(s) \cup {p}
  BY <1>1 DEF Passed
<1>4. ASSUME NEW j \in Pending' PROVE p < j /\ j \in Pending /\ plan.wire[j].end > s
  <2>1. j \in Pending /\ j # p /\ p <= j /\ j \in Nat /\ p \in Nat
    BY <1>1, <1>2 DEF Advances
  <2> QED BY <2>1 DEF Advances, InOrder
<1>5. ASSUME NEW i \in Passed(s)', NEW j \in Pending' PROVE i < j
  <2>1. CASE i = p
    BY <1>4, <2>1
  <2>2. CASE i \in Passed(s)
    BY <1>4, <2>2 DEF Advances, InOrder
  <2> QED BY <1>3, <2>1, <2>2
<1> QED BY <1>1, <1>4, <1>5 DEF InOrder

(* What a table did not touch it did not receive.                            *)
LEMMA NothingOpen ==
  ASSUME NEW got, NEW ks, IsExactly(got, ks, {}) PROVE ks = {}
BY ZenonT(60) DEF IsExactly

(* No rows, and none received.                                               *)
LEMMA ExactlyNothing ==
  ASSUME NEW got PROVE IsExactly(got, {}, {})
BY DEF IsExactly

(* A row that is received.                                                   *)
LEMMA RowFollows ==
  ASSUME IInv, NEW s, NEW p, Advances(s, p), NEW t \in SrcTable, NEW x \in AnyXid, NEW T, NEW ev \in Event,
         Follows(s, t), IsRow(plan.wire[p]), plan.wire[p].table = t, plan.wire[p].xid = x,
         Touches(x, t), snk'.senders = snk.senders, Delivered(T, ev), snk.senders[t] # 0 => t \in T,
         ev.msg = plan.wire[p], ev.place = p, ev.cols = ev.msg.cols
  PROVE  Follows(s, t)'
<1>1. /\ plan \in StreamScenarios /\ UNCHANGED plan /\ s \in Nat /\ p \in DOMAIN plan.wire
      /\ p \in Pending /\ Pending' = Pending \ {p} /\ plan.wire[p].end > s /\ \A i \in Passed(s) : i < p
  BY AdvanceFacts
<1> SUFFICES ASSUME NEW y \in AnyXid
             PROVE  /\ OpenAt(s, t, y)' # {} => t \in TouchedAt(y)'
                    /\ snk.senders[t] # 0 => IsExactly(Got(t), Unended(Got(t), y), OpenAt(s, t, y))'
  BY DEF Follows
<1>2. /\ OpenAt(s, t, y) # {} => t \in TouchedAt(y)
      /\ snk.senders[t] # 0 => IsExactly(Got(t), Unended(Got(t), y), OpenAt(s, t, y))
  BY DEF Follows
<1>3. PICK got, rows : got = Got(t) /\ rows = OpenAt(s, t, y)
  OBVIOUS
<1>4. snk.senders[t] # 0 => Got(t)' = Append(got, ev) /\ got \in Seq(Event)
  BY <1>3, GotAfter, GotIsSeq
<1>5. ~EndOf(plan.wire[p], y)
  BY RowsEndNothing DEF EndOf
<1>6. \A i \in rows : i < p
  BY <1>1, <1>3 DEF OpenAt
<1>7. CASE y = x
  <2>1. OpenAt(s, t, y)' = rows \cup {p}
    BY <1>1, <1>3, <1>7, OnePlaceMore
  <2>2. t \in TouchedAt(y)'
    BY <1>7 DEF Touches
  <2>3. ASSUME snk.senders[t] # 0 PROVE IsExactly(Append(got, ev), Unended(Append(got, ev), y), rows \cup {p})
    BY <1>2, <1>3, <1>4, <1>6, <1>7, <2>3, OneRowMore, Zenon
  <2> QED BY <1>4, <2>1, <2>2, <2>3, ZenonT(60)
<1>8. CASE y # x
  <2>1. OpenAt(s, t, y)' = rows
    BY <1>1, <1>3, <1>5, <1>8, OnePlaceMore
  <2>2. TouchedAt(y)' = TouchedAt(y)
    BY <1>8 DEF Touches
  <2>3. ASSUME snk.senders[t] # 0 PROVE IsExactly(Append(got, ev), Unended(Append(got, ev), y), rows)
    <3>1. Unended(Append(got, ev), y) = Unended(got, y) /\ Unended(got, y) \subseteq 1 .. Len(got)
      <4>1. Unended(Append(got, ev), y) = Unended(got, y)
        BY <1>4, <1>5, <1>8, <2>3, UnendedOfAppend, ZenonT(60)
      <4>2. Unended(got, y) \subseteq 1 .. Len(got)
        BY Zenon DEF Unended
      <4> QED BY <4>1, <4>2
    <3> QED BY <1>2, <1>3, <1>4, <2>3, <3>1, ExactlyOfAppend, SMTT(30)
  <2> QED BY <1>2, <1>3, <1>4, <2>1, <2>2, <2>3, ZenonT(60)
<1> QED BY <1>7, <1>8

(* The end of a transaction, for the tables it touched.                      *)
LEMMA EndFollows ==
  ASSUME IInv, NEW s, NEW p, Advances(s, p), NEW t \in SrcTable, NEW x \in AnyXid, NEW T, NEW ev \in Event,
         Follows(s, t), EndOf(plan.wire[p], x), Forgets(x), snk'.senders = snk.senders,
         Delivered(T, ev), T = TouchedAt(x) \cap Registered, ev.msg = plan.wire[p]
  PROVE  Follows(s, t)'
<1>1. /\ plan \in StreamScenarios /\ UNCHANGED plan /\ s \in Nat /\ p \in DOMAIN plan.wire
      /\ p \in Pending /\ Pending' = Pending \ {p} /\ plan.wire[p].end > s /\ \A i \in Passed(s) : i < p
  BY AdvanceFacts
<1> SUFFICES ASSUME NEW y \in AnyXid
             PROVE  /\ OpenAt(s, t, y)' # {} => t \in TouchedAt(y)'
                    /\ snk.senders[t] # 0 => IsExactly(Got(t), Unended(Got(t), y), OpenAt(s, t, y))'
  BY DEF Follows
<1>2. /\ OpenAt(s, t, y) # {} => t \in TouchedAt(y)
      /\ snk.senders[t] # 0 => IsExactly(Got(t), Unended(Got(t), y), OpenAt(s, t, y))
  BY DEF Follows
<1>3. PICK got, rows : got = Got(t) /\ rows = OpenAt(s, t, y)
  OBVIOUS
<1>4. snk.senders[t] # 0 => got \in Seq(Event) /\ Got(t)' = IF t \in T THEN Append(got, ev) ELSE got
  BY <1>3, GotAfter, GotIsSeq
<1>5. ~IsRow(plan.wire[p])
  BY RowsEndNothing DEF EndOf
<1>6. CASE y = x
  <2>1. OpenAt(s, t, y)' = {}
    BY <1>1, <1>6, OnePlaceMore
  <2>2. ASSUME snk.senders[t] # 0, t \in T PROVE Unended(Append(got, ev), y) = {}
    BY <1>4, <1>6, <2>2, UnendedOfAppend
  <2>3. ASSUME snk.senders[t] # 0, t \notin T PROVE Unended(got, y) = {}
    <3>1. t \notin TouchedAt(x)
      BY <2>3 DEF Registered
    <3>2. rows = {}
      BY <1>2, <1>3, <1>6, <3>1
    <3> QED BY <1>2, <1>3, <2>3, <3>2, NothingOpen
  <2>4. ASSUME snk.senders[t] # 0 PROVE Unended(Got(t), y)' = {}
    BY <1>4, <2>2, <2>3, <2>4, Zenon
  <2> QED BY <2>1, <2>4, ExactlyNothing
<1>7. CASE y # x
  <2>1. ~EndOf(plan.wire[p], y)
    BY <1>7 DEF EndOf
  <2>2. OpenAt(s, t, y)' = rows /\ TouchedAt(y)' = TouchedAt(y)
    BY <1>1, <1>3, <1>5, <1>7, <2>1, OnePlaceMore, SMTT(30) DEF Forgets
  <2>3. ASSUME snk.senders[t] # 0 PROVE IsExactly(Append(got, ev), Unended(Append(got, ev), y), rows)
    <3>1. Unended(Append(got, ev), y) = Unended(got, y) /\ Unended(got, y) \subseteq 1 .. Len(got)
      BY <1>4, <1>5, <2>1, <2>3, UnendedOfAppend, ZenonT(60) DEF Unended
    <3> QED BY <1>2, <1>3, <1>4, <2>3, <3>1, ExactlyOfAppend, SMTT(30)
  <2> QED BY <1>2, <1>3, <1>4, <2>2, <2>3, ZenonT(60)
<1> QED BY <1>6, <1>7

(* An event that is no row of the table and ends nothing.                    *)
LEMMA OtherFollows ==
  ASSUME IInv, NEW s, NEW p, Advances(s, p), NEW t \in SrcTable, NEW T, NEW ev \in Event,
         Follows(s, t), ~IsEnd(plan.wire[p]), ~(IsRow(plan.wire[p]) /\ plan.wire[p].table = t),
         \A y \in AnyXid : t \in TouchedAt(y) => t \in TouchedAt(y)', snk'.senders = snk.senders,
         Delivered(T, ev), t \in T => ~IsRow(ev.msg) /\ ~IsEnd(ev.msg)
  PROVE  Follows(s, t)'
<1>1. /\ plan \in StreamScenarios /\ UNCHANGED plan /\ s \in Nat /\ p \in DOMAIN plan.wire
      /\ p \in Pending /\ Pending' = Pending \ {p} /\ plan.wire[p].end > s /\ \A i \in Passed(s) : i < p
  BY AdvanceFacts
<1> SUFFICES ASSUME NEW y \in AnyXid
             PROVE  /\ OpenAt(s, t, y)' # {} => t \in TouchedAt(y)'
                    /\ snk.senders[t] # 0 => IsExactly(Got(t), Unended(Got(t), y), OpenAt(s, t, y))'
  BY DEF Follows
<1>2. /\ OpenAt(s, t, y) # {} => t \in TouchedAt(y)
      /\ snk.senders[t] # 0 => IsExactly(Got(t), Unended(Got(t), y), OpenAt(s, t, y))
  BY DEF Follows
<1>3. PICK got, rows : got = Got(t) /\ rows = OpenAt(s, t, y)
  OBVIOUS
<1>4. snk.senders[t] # 0 => got \in Seq(Event) /\ Got(t)' = IF t \in T THEN Append(got, ev) ELSE got
  BY <1>3, GotAfter, GotIsSeq
<1>5. ~EndOf(plan.wire[p], y)
  BY DEF EndOf
<1>6. OpenAt(s, t, y)' = rows
  BY <1>1, <1>3, <1>5, OnePlaceMore, SMTT(30)
<1>7. ASSUME snk.senders[t] # 0, t \in T PROVE IsExactly(Append(got, ev), Unended(Append(got, ev), y), rows)
  <2>1. ~EndOf(ev.msg, y) /\ ~IsRow(ev.msg)
    BY <1>7 DEF EndOf
  <2>2. Unended(Append(got, ev), y) = Unended(got, y) /\ Unended(got, y) \subseteq 1 .. Len(got)
    BY <1>4, <1>7, <2>1, UnendedOfAppend, SMTT(30) DEF Unended
  <2> QED BY <1>2, <1>3, <1>4, <1>7, <2>2, ExactlyOfAppend, SMTT(30)
<1> QED BY <1>2, <1>3, <1>4, <1>6, <1>7, Zenon
-----------------------------------------------------------------------------
(* A commit that is delivered makes a whole one.                             *)
LEMMA CommitWhole ==
  ASSUME NEW s, NEW p, Advances(s, p), FaultsStay, NEW T, NEW ev, NEW x \in AnyXid,
         T \subseteq Registered, ev.msg = plan.wire[p], x = plan.wire[p].xid,
         ev.type = "Commit" => IsCommit(plan.wire[p]),
         \A t \in SrcTable : Spoilt(t) \/ Follows(s, t)
  PROVE  CommitIsWhole(T, ev)
<1> SUFFICES ASSUME ev.type = "Commit", NEW t \in T, ~Spoilt(t)'
             PROVE  IsExactly(Got(t), Unended(Got(t), ev.msg.xid), RowsOf(t, ev.msg.end))
  BY DEF CommitIsWhole
<1>1. t \in SrcTable /\ snk.senders[t] # 0
  BY DEF Registered
<1>2. Follows(s, t)
  BY <1>1, SpoiltStays
<1>3. OpenAt(s, t, x) = RowsOf(t, plan.wire[p].end)
  BY AdvanceFacts, OpenRowsAtCommit DEF Advances
<1> QED BY <1>1, <1>2, <1>3 DEF Follows

(* What holds as an event of the batch is processed.                         *)
EventStep(p, e) ==
  /\ IInv /\ IInv' /\ WInv /\ loop.state = "up" /\ FaultsStay
  /\ UNCHANGED <<plan, server>>
  /\ p \in DOMAIN plan.wire /\ p \in Pending /\ \A i \in Pending : p <= i
  /\ Pending \subseteq DOMAIN plan.wire
  /\ IsConverted(e) /\ e.msg = plan.wire[p] /\ e.place = p
  /\ e.kind = "Ok" /\ IsRow(e.msg) /\ Undisturbed => e.cols = e.msg.cols
  /\ Pending' = Pending \ {p}
  /\ BatchFollows'

(* The event is the one at the next place of the wire.                       *)
LEMMA NextPlace ==
  ASSUME IInv, WInv, loop.state = "up", batch # <<>>, NEW p, p = Min(DOMAIN batch)
  PROVE  /\ p \in DOMAIN batch /\ p \in Pending /\ \A i \in Pending : p <= i
         /\ Pending \subseteq DOMAIN plan.wire /\ p \in DOMAIN plan.wire
         /\ batch[p] = NextEvent /\ IsConverted(batch[p])
         /\ batch[p].msg = plan.wire[p] /\ batch[p].place = p /\ p \notin server.queue
<1>1. BatchInv /\ server.queue \subseteq DOMAIN plan.wire /\ plan \in StreamScenarios /\ BatchFollows
  BY DEF IInv, TypeInv, WInv
<1>2. p \in DOMAIN batch /\ IsConverted(NextEvent) /\ NextEvent = batch[p]
  BY <1>1, NextOfBatch DEF NextEvent
<1>3. DOMAIN plan.wire \subseteq Nat /\ DOMAIN batch \subseteq DOMAIN plan.wire
  BY <1>1, PlanFacts DEF BatchFollows
<1>4. \A i \in DOMAIN batch : p <= i
  BY <1>2, <1>3, MinOfNats
<1>5. \A j \in server.queue : p < j
  BY <1>1, <1>2 DEF BatchFollows
<1>6. \A j \in server.queue : p <= j
  BY <1>1, <1>2, <1>3, <1>5
<1> QED BY <1>1, <1>2, <1>3, <1>4, <1>6 DEF Pending, BatchFollows

(* The rest of the batch is that of the places after it.                     *)
LEMMA RestFollows ==
  ASSUME IInv, IInv', WInv, loop.state = "up", batch # <<>>, NEW p, p = Min(DOMAIN batch),
         batch' = RestOfBatch, UNCHANGED <<plan, server>>, FaultsStay, loop'.state # "down"
  PROVE  EventStep(p, batch[p])
<1>1. /\ p \in DOMAIN batch /\ p \in Pending /\ \A i \in Pending : p <= i
      /\ Pending \subseteq DOMAIN plan.wire /\ p \in DOMAIN plan.wire
      /\ IsConverted(batch[p])
      /\ batch[p].msg = plan.wire[p] /\ batch[p].place = p /\ p \notin server.queue
  BY NextPlace
<1>2. BatchFollows
  BY DEF WInv
<1>3. batch' = [i \in DOMAIN batch \ {p} |-> batch[i]]
  BY DEF RestOfBatch, Restrict
<1>4. DOMAIN batch' = DOMAIN batch \ {p} /\ \A i \in DOMAIN batch' : batch'[i] = batch[i] /\ i \in DOMAIN batch
  BY <1>3
<1>5. Pending' = Pending \ {p}
  BY <1>1, <1>4 DEF Pending
<1>6. BatchFollows'
  <2>1. Undisturbed' => Undisturbed
    BY SpoiltStays
  <2> SUFFICES ASSUME NEW i \in DOMAIN batch'
               PROVE  /\ i \in DOMAIN plan.wire /\ batch'[i].msg = plan.wire[i] /\ batch'[i].place = i
                      /\ i \notin server.queue /\ \A j \in server.queue : i < j
                      /\ batch'[i].kind = "Ok" /\ IsRow(plan.wire[i]) /\ Undisturbed' => batch'[i].cols = plan.wire[i].cols
                      /\ batch'[i].kind = "MissingSchema" => IsRow(plan.wire[i])
                      /\ batch'[i].kind = "MessageNotSupported" => ~IsRow(plan.wire[i]) /\ ~IsEnd(plan.wire[i])
    BY DEF BatchFollows
  <2>2. i \in DOMAIN batch /\ batch'[i] = batch[i]
    BY <1>4
  <2> QED BY <1>2, <2>1, <2>2 DEF BatchFollows
<1>7. batch[p].kind = "Ok" /\ IsRow(batch[p].msg) /\ Undisturbed => batch[p].cols = batch[p].msg.cols
  BY <1>1, <1>2 DEF BatchFollows
<1> QED BY <1>1, <1>5, <1>6, <1>7 DEF EventStep

(* What is left to show of an event.                                         *)
LEMMA EventFollowed ==
  ASSUME NEW p, NEW e, EventStep(p, e), loop'.state # "down", WholeCommits',
         loop'.state = "up" => SinkFollows' /\ SchemasFollow',
         loop'.state = "up" =>
           \A s, t : Advances(s, p) /\ t \in SrcTable /\ ~Spoilt(t)' /\ Follows(s, t) => Follows(s, t)'
  PROVE  WInv'
<1>1. ASSUME loop'.state = "up", Undisturbed'
      PROVE  \E s \in Nat : InOrder(s)' /\ \A t \in SrcTable : Spoilt(t)' \/ Follows(s, t)'
  <2>1. PICK s \in Nat : InOrder(s) /\ \A t \in SrcTable : Spoilt(t) \/ Follows(s, t)
    BY <1>1, SpoiltStays, SMTT(30) DEF EventStep, WInv, TablesFollow
  <2>2. Advances(s, p) /\ Pending \subseteq DOMAIN plan.wire
    BY <2>1, Zenon DEF EventStep, Advances, IInv, TypeInv
  <2>3. InOrder(s)'
    BY <2>2, AdvanceKeepsOrder
  <2>4. \A t \in SrcTable : Spoilt(t) => Spoilt(t)'
    BY SpoiltStays DEF EventStep
  <2> QED BY <1>1, <2>1, <2>2, <2>3, <2>4, SMTT(30)
<1>2. TablesFollow'
  BY <1>1 DEF TablesFollow
<1>3. BatchFollows' /\ IInv'
  BY DEF EventStep
<1>4. loop'.state # "down"
  OBVIOUS
<1> QED BY <1>2, <1>3, <1>4 DEF WInv

(* Where the tables follow, or every table is spoilt.                        *)
LEMMA WhereTheyFollow ==
  ASSUME NEW p, NEW e, EventStep(p, e)
  PROVE  \/ \A t \in SrcTable : Spoilt(t)'
         \/ Undisturbed /\ \E s : Advances(s, p) /\ \A t \in SrcTable : Spoilt(t) \/ Follows(s, t)
<1>1. CASE Undisturbed
  <2>1. PICK s \in Nat : InOrder(s) /\ \A t \in SrcTable : Spoilt(t) \/ Follows(s, t)
    BY <1>1 DEF EventStep, WInv, TablesFollow
  <2>2. Advances(s, p)
    BY <2>1 DEF EventStep, Advances, IInv, TypeInv
  <2> QED BY <1>1, <2>1, <2>2
<1>2. CASE ~Undisturbed
  <2>1. \A t : Spoilt(t)
    BY <1>2 DEF Undisturbed, Spoilt
  <2> QED BY <2>1, SpoiltStays DEF EventStep
<1> QED BY <1>1, <1>2
-----------------------------------------------------------------------------
(* An unchanged loop: the schemas are as they were.                          *)
LEMMA SchemasStay ==
  ASSUME WInv, loop.state = "up", UNCHANGED loop, snk'.senders = snk.senders PROVE SchemasFollow'
BY DEF WInv, SchemasFollow

(* A row.                                                                    *)
LEMMA RowEventFollows ==
  ASSUME NEW p, NEW e, EventStep(p, e), e.kind = "Ok", IsRow(e.msg), ProcessRowEvent(e), UNCHANGED <<loop, faults>>
  PROVE  WInv'
<1>1. PICK t, x, ev : t = e.msg.table /\ x = e.msg.xid /\ ev = RowEvent(e)
  OBVIOUS
<1>2. /\ t \in SrcTable /\ x \in AnyXid /\ e.msg = plan.wire[p]
      /\ ev \in Event /\ ev.msg = e.msg /\ ev.place = p /\ ev.cols = e.cols /\ ev.type # "Commit"
  <2>1. IsConverted(e) /\ e.place = p /\ e.msg = plan.wire[p]
    BY DEF EventStep
  <2>2. e.msg \in Message /\ KnownTable(e.msg)
    BY <2>1 DEF IsConverted
  <2>3. t \in SrcTable /\ x \in AnyXid
    BY <1>1, <2>2 DEF Message, KnownTable, IsRow, AnyXid
  <2> QED BY <1>1, <2>1, <2>3, RowEventIsEvent
<1>3. IInv /\ IInv' /\ WInv /\ loop.state = "up" /\ SinkFollows /\ FaultsStay /\ UNCHANGED plan
  BY DEF EventStep, WInv
<1>4. /\ SinkFollows' /\ snk'.senders = snk.senders /\ Touches(x, t)
      /\ tabs' = IF snk.senders[t] = 0 THEN tabs ELSE [tabs EXCEPT ![t][snk.senders[t]] = Received(@, ev)]
  BY <1>1, <1>2, <1>3, RowOnSink, ZenonT(60)
<1>5. PICK T : T = IF snk.senders[t] = 0 THEN {} ELSE {t}
  BY Zenon
<1>6. Delivered(T, ev)
  <2>1. CASE snk.senders[t] = 0
    BY <1>4, <1>5, <2>1, NothingDelivered
  <2>2. CASE snk.senders[t] # 0
    BY <1>2, <1>3, <1>4, <1>5, <2>2, OneDelivered, ZenonT(60)
  <2> QED BY <2>1, <2>2
<1>7. WholeCommits'
  <2>1. CommitIsWhole(T, ev)
    BY <1>2 DEF CommitIsWhole
  <2> QED BY <1>2, <1>3, <1>6, <2>1, DeliveryKeepsCommits DEF WInv
<1>8. ASSUME NEW s, NEW u \in SrcTable, Advances(s, p), ~Spoilt(u)', Follows(s, u) PROVE Follows(s, u)'
  <2>1. Undisturbed
    BY <1>8 DEF Spoilt, Undisturbed
  <2>2. ev.cols = ev.msg.cols
    BY <1>2, <2>1, SMTT(30) DEF EventStep
  <2>3. CASE u = t
    BY <1>1, <1>2, <1>3, <1>4, <1>5, <1>6, <1>8, <2>2, <2>3, RowFollows
  <2>4. CASE u # t
    <3>1. ~IsEnd(plan.wire[p]) /\ ~(IsRow(plan.wire[p]) /\ plan.wire[p].table = u)
      BY <1>1, <1>2, <2>4, RowsEndNothing
    <3>2. \A y \in AnyXid : u \in TouchedAt(y) => u \in TouchedAt(y)'
      BY <1>4 DEF Touches
    <3>3. u \notin T
      BY <1>5, <2>4
    <3> QED BY <1>2, <1>3, <1>4, <1>6, <1>8, <3>1, <3>2, <3>3, OtherFollows
  <2> QED BY <2>3, <2>4
<1>9. SchemasFollow'
  BY <1>3, <1>4, SchemasStay
<1> QED BY <1>3, <1>4, <1>7, <1>8, <1>9, EventFollowed

(* The end of a transaction.                                                 *)
LEMMA EndEventFollows ==
  ASSUME NEW p, NEW e, EventStep(p, e), NEW x \in AnyXid, EndOf(e.msg, x), NEW ev \in Event, ev.msg = e.msg,
         ev.type = "Commit" => IsCommit(e.msg), Delivered(TouchedAt(x) \cap Registered, ev),
         SinkFollows', Forgets(x), snk'.senders = snk.senders, UNCHANGED <<loop, faults>>
  PROVE  WInv'
<1>1. PICK T : T = TouchedAt(x) \cap Registered
  OBVIOUS
<1>2. /\ IInv /\ IInv' /\ WInv /\ loop.state = "up" /\ FaultsStay /\ UNCHANGED plan
      /\ e.msg = plan.wire[p] /\ T \subseteq Registered /\ Delivered(T, ev)
  BY <1>1, SMTT(30) DEF EventStep
<1>3. CommitIsWhole(T, ev)
  <2>1. CASE \A t \in SrcTable : Spoilt(t)'
    BY <1>2, <2>1, SMTT(30) DEF CommitIsWhole, Registered
  <2>2. CASE \E s : Advances(s, p) /\ \A t \in SrcTable : Spoilt(t) \/ Follows(s, t)
    <3>1. PICK s : Advances(s, p) /\ \A t \in SrcTable : Spoilt(t) \/ Follows(s, t)
      BY <2>2
    <3>2. x = plan.wire[p].xid
      BY <1>2 DEF EndOf
    <3> QED BY <1>2, <3>1, <3>2, CommitWhole, ZenonT(60)
  <2> QED BY <2>1, <2>2, WhereTheyFollow, ZenonT(60)
<1>4. WholeCommits'
  BY <1>2, <1>3, DeliveryKeepsCommits, SMTT(30) DEF WInv
<1>5. ASSUME NEW s, NEW u \in SrcTable, Advances(s, p), ~Spoilt(u)', Follows(s, u) PROVE Follows(s, u)'
  BY <1>1, <1>2, <1>5, EndFollows, ZenonT(60)
<1>6. SchemasFollow'
  BY <1>2, SchemasStay, SMTT(30)
<1> QED BY <1>2, <1>4, <1>5, <1>6, EventFollowed

(* An event that is neither, or a row of a table that is spoilt by it.       *)
LEMMA OtherEventFollows ==
  ASSUME NEW p, NEW e, EventStep(p, e), ~IsEnd(e.msg), IsRow(e.msg) => Spoilt(e.msg.table)',
         NEW T, NEW ev \in Event, Delivered(T, ev), T # {} => ~IsRow(ev.msg) /\ ~IsEnd(ev.msg),
         ev.type # "Commit", snk'.senders = snk.senders, loop'.state \in {"up", "panicked"},
         loop'.state = "up" => SinkFollows' /\ KeepsTouched /\ SchemasFollow'
  PROVE  WInv'
<1>1. IInv /\ IInv' /\ WInv /\ loop.state = "up" /\ FaultsStay /\ UNCHANGED plan /\ e.msg = plan.wire[p]
  BY Zenon DEF EventStep
<1>2. WholeCommits'
  <2>1. CommitIsWhole(T, ev)
    BY SMTT(30) DEF CommitIsWhole
  <2> QED BY <1>1, <2>1, DeliveryKeepsCommits DEF WInv
<1>3. ASSUME loop'.state = "up", NEW s, NEW u \in SrcTable, Advances(s, p), ~Spoilt(u)', Follows(s, u)
      PROVE  Follows(s, u)'
  <2>1. ~IsEnd(plan.wire[p]) /\ ~(IsRow(plan.wire[p]) /\ plan.wire[p].table = u)
    BY <1>1, <1>3
  <2>2. \A y \in AnyXid : u \in TouchedAt(y) => u \in TouchedAt(y)'
    BY <1>3 DEF KeepsTouched
  <2>3. u \in T => ~IsRow(ev.msg) /\ ~IsEnd(ev.msg)
    OBVIOUS
  <2> QED BY <1>1, <1>3, <2>1, <2>2, <2>3, OtherFollows, SMTT(30)
<1> QED BY <1>1, <1>2, <1>3, EventFollowed, ZenonT(60)

(* Nothing that is followed changes.                                         *)
LEMMA SinkStays ==
  ASSUME SinkFollows, UNCHANGED snk PROVE SinkFollows' /\ KeepsTouched
<1>1. /\ HasParts' /\ snk'.main \in Transaction
  BY DEF SinkFollows, HasParts, SinkParts
<1> QED BY <1>1, QuietSink

(* An event that only the loop sees.                                         *)
LEMMA QuietEventFollows ==
  ASSUME NEW p, NEW e, EventStep(p, e), ~IsEnd(e.msg), IsRow(e.msg) => Spoilt(e.msg.table)',
         UNCHANGED tabs, snk'.senders = snk.senders, loop' = loop \/ loop'.state = "panicked",
         SinkFollows', KeepsTouched
  PROVE  WInv'
<1>1. /\ IInv /\ WInv /\ loop.state = "up" /\ e.msg \in Message /\ e.cols \in Nat /\ e.place \in Nat
  BY DEF EventStep, IsConverted
<1>2. PICK ev \in Event : ev.type # "Commit"
  <2>1. "AlterTable" \in EventType /\ "AlterTable" # "Commit"
    BY DEF EventType
  <2> QED BY <1>1, <2>1, TableEventIsEvent
<1>3. Delivered({}, ev)
  BY NothingDelivered
<1>4. loop'.state \in {"up", "panicked"}
  BY <1>1
<1>5. loop'.state = "up" => SchemasFollow'
  BY <1>1, SchemasStay
<1> QED BY <1>2, <1>3, <1>4, <1>5, OtherEventFollows
-----------------------------------------------------------------------------
(* The xid of a message that ends a transaction.                             *)
LEMMA XidOfEnd ==
  ASSUME NEW p, NEW e, EventStep(p, e)
  PROVE  /\ e.msg.type = "Commit" => e.msg.xid = None
         /\ e.msg.type \in {"StreamCommit", "StreamAbort"} => e.msg.xid \in Xid
BY WireAssumption DEF EventStep, IInv, TypeInv

(* What a commit leaves of the sink.                                         *)
LEMMA AfterCommitSink ==
  ASSUME SinkFollows, NEW lsn, snk' = AfterCommit(lsn)
  PROVE  /\ HasParts' /\ snk'.senders = snk.senders /\ snk'.cached = snk.cached /\ snk'.lastKey = None
         /\ snk'.streaming = snk.streaming /\ snk'.main = [snk.main EXCEPT !.touched = <<>>, !.last = None]
<1>1. PICK commit, replicated, none : none = <<>> /\
        snk' = [[snk EXCEPT !.commit = commit, !.replicated = replicated, !.lastKey = None]
                  EXCEPT !.main.touched = none, !.main.last = None]
  BY Zenon DEF AfterCommit, Marked
<1>2. PICK s : s = [snk EXCEPT !.commit = commit, !.replicated = replicated, !.lastKey = None]
  OBVIOUS
<1>3. /\ DOMAIN s = DOMAIN snk /\ HasParts
      /\ s.senders = snk.senders /\ s.cached = snk.cached /\ s.lastKey = None
      /\ s.streaming = snk.streaming /\ s.main = snk.main
  BY <1>2 DEF SinkFollows, HasParts
<1>4. snk' = [s EXCEPT !.main.touched = none, !.main.last = None]
  BY <1>1, <1>2
<1>5. /\ DOMAIN snk' = DOMAIN s /\ snk'.senders = s.senders /\ snk'.cached = s.cached
      /\ snk'.lastKey = s.lastKey /\ snk'.streaming = s.streaming
      /\ snk'.main = [s.main EXCEPT !.touched = none, !.last = None]
  BY <1>3, <1>4 DEF HasParts
<1> QED BY <1>1, <1>3, <1>5, SMTT(30) DEF HasParts

(* What the end of a streamed transaction leaves of it.                      *)
LEMMA AfterStreamEndSink ==
  ASSUME SinkFollows, NEW x \in Xid,
         \/ \E touched, lsn : snk' = [Marked(snk, touched, lsn) EXCEPT !.streaming[x] = None]
         \/ snk' = [snk EXCEPT !.streaming[x] = None, !.lastKey = None]
  PROVE  /\ HasParts' /\ snk'.senders = snk.senders /\ snk'.cached = snk.cached /\ snk'.lastKey = None
         /\ snk'.main = snk.main /\ snk'.streaming = [snk.streaming EXCEPT ![x] = None]
<1>0. HasParts
  BY DEF SinkFollows
<1>1. ASSUME NEW touched, NEW lsn, snk' = [Marked(snk, touched, lsn) EXCEPT !.streaming[x] = None]
      PROVE  /\ HasParts' /\ snk'.senders = snk.senders /\ snk'.cached = snk.cached /\ snk'.lastKey = None
             /\ snk'.main = snk.main /\ snk'.streaming = [snk.streaming EXCEPT ![x] = None]
  <2>1. PICK s : s = Marked(snk, touched, lsn)
    BY SMTT(30)
  <2>2. PICK commit, replicated :
          s = [snk EXCEPT !.commit = commit, !.replicated = replicated, !.lastKey = None]
    BY <2>1, Zenon DEF Marked
  <2>3. /\ DOMAIN s = DOMAIN snk
        /\ s.senders = snk.senders /\ s.cached = snk.cached /\ s.lastKey = None
        /\ s.streaming = snk.streaming /\ s.main = snk.main
    BY <1>0, <2>2 DEF HasParts
  <2>4. snk' = [s EXCEPT !.streaming = [s.streaming EXCEPT ![x] = None]]
    BY <1>1, <2>1
  <2>5. /\ DOMAIN snk' = DOMAIN s /\ snk'.senders = s.senders /\ snk'.cached = s.cached
        /\ snk'.lastKey = s.lastKey /\ snk'.main = s.main /\ snk'.streaming = [s.streaming EXCEPT ![x] = None]
    BY <1>0, <2>3, <2>4 DEF HasParts
  <2> QED BY <1>0, <2>3, <2>5 DEF HasParts
<1>2. ASSUME snk' = [snk EXCEPT !.streaming[x] = None, !.lastKey = None]
      PROVE  /\ HasParts' /\ snk'.senders = snk.senders /\ snk'.cached = snk.cached /\ snk'.lastKey = None
             /\ snk'.main = snk.main /\ snk'.streaming = [snk.streaming EXCEPT ![x] = None]
  BY <1>0, <1>2, SMTT(30) DEF HasParts
<1> QED BY <1>1, <1>2

(* A commit or an abort.                                                     *)
LEMMA EndOfTransactionFollows ==
  ASSUME NEW p, NEW e, EventStep(p, e), ProcessCdcEvent(e), IsEnd(e.msg)
  PROVE  WInv'
<1>0. /\ IInv /\ SinkFollows /\ e.msg \in Message /\ e.cols \in Nat /\ e.place \in Nat
      /\ "Commit" \in EventType /\ "StreamAbort" \in EventType /\ None \notin Xid
  BY NoneAssumption DEF EventStep, WInv, IsConverted, EventType
<1>1. PICK type, touched :
        /\ type \in {"Commit", "StreamAbort"} /\ (type = "Commit" => IsCommit(e.msg))
        /\ SendEnd(touched, e, type) /\ Range(touched) = TouchedAt(e.msg.xid)
        /\ UNCHANGED <<loop, faults>>
        /\ SinkFollows' /\ Forgets(e.msg.xid) /\ snk'.senders = snk.senders /\ e.msg.xid \in AnyXid
  <2>1. CASE e.msg.type = "Commit"
    <3>1. /\ SendEnd(snk.main.touched, e, "Commit") /\ snk' = AfterCommit(e.msg.lsn) /\ UNCHANGED <<loop, faults>>
      BY <2>1 DEF ProcessCdcEvent, IsRow, RowTypes
    <3>2. e.msg.xid = None /\ None \in AnyXid
      BY <2>1, XidOfEnd DEF AnyXid
    <3>3. Range(snk.main.touched) = TouchedAt(None)
      BY DEF TouchedAt, TouchedIn
    <3>4. SinkFollows' /\ Forgets(None) /\ snk'.senders = snk.senders
      BY <1>0, <3>1, <3>2, AfterCommitSink, EndOnSink, Zenon
    <3>5. IsCommit(e.msg)
      BY <2>1 DEF IsCommit
    <3> QED BY <3>1, <3>2, <3>3, <3>4, <3>5
  <2>2. CASE e.msg.type \in {"StreamCommit", "StreamAbort"}
    <3>1. PICK x : x = e.msg.xid
      OBVIOUS
    <3>2. x \in Xid /\ x \in AnyXid /\ x # None
      BY <1>0, <2>2, <3>1, XidOfEnd DEF AnyXid
    <3>3. Range(StreamTouched(x)) = TouchedAt(x)
      BY <3>2 DEF TouchedAt, TouchedIn, StreamTouched
    <3>4. PICK type \in {"Commit", "StreamAbort"} :
            /\ type = "Commit" => IsCommit(e.msg)
            /\ SendEnd(StreamTouched(x), e, type)
            /\ \/ \E touched, lsn : snk' = [Marked(snk, touched, lsn) EXCEPT !.streaming[x] = None]
               \/ snk' = [snk EXCEPT !.streaming[x] = None, !.lastKey = None]
            /\ UNCHANGED <<loop, faults>>
      <4>1. CASE e.msg.type = "StreamCommit"
        <5>1. /\ SendEnd(StreamTouched(x), e, "Commit")
              /\ snk' = [Marked(snk, StreamTouched(x), e.msg.lsn) EXCEPT !.streaming[x] = None]
              /\ UNCHANGED <<loop, faults>>
          BY <3>1, <4>1 DEF ProcessCdcEvent, IsRow, RowTypes
        <5>2. IsCommit(e.msg)
          BY <4>1 DEF IsCommit
        <5> QED BY <5>1, <5>2
      <4>2. CASE e.msg.type = "StreamAbort"
        <5>1. /\ SendEnd(StreamTouched(x), e, "StreamAbort")
              /\ snk' = [snk EXCEPT !.streaming[x] = None, !.lastKey = None]
              /\ UNCHANGED <<loop, faults>>
          BY <3>1, <4>2, SMTT(30) DEF ProcessCdcEvent, IsRow, RowTypes
        <5> QED BY <5>1
      <4> QED BY <2>2, <4>1, <4>2
    <3>5. /\ HasParts' /\ snk'.senders = snk.senders /\ snk'.cached = snk.cached /\ snk'.lastKey = None
          /\ snk'.main = snk.main /\ snk'.streaming = [snk.streaming EXCEPT ![x] = None]
      BY <1>0, <3>2, <3>4, AfterStreamEndSink, Zenon
    <3>6. SinkFollows' /\ Forgets(x)
      BY <1>0, <3>2, <3>5, EndOnSink
    <3> QED BY <3>1, <3>2, <3>3, <3>4, <3>5, <3>6
  <2> QED BY <2>1, <2>2, SMTT(30) DEF IsEnd, IsCommit
<1>2. PICK ev, x : ev = TableEvent(type, e) /\ x = e.msg.xid
  OBVIOUS
<1>3. ev \in Event /\ ev.msg = e.msg /\ ev.type = type
  BY <1>0, <1>1, <1>2, TableEventIsEvent, SMTT(30)
<1>4. Delivered(TouchedAt(x) \cap Registered, ev)
  BY <1>0, <1>1, <1>2, EndDelivered
<1>5. EndOf(e.msg, x)
  BY <1>2 DEF EndOf
<1> QED BY <1>1, <1>2, <1>3, <1>4, <1>5, EndEventFollows
-----------------------------------------------------------------------------
(* What nobody received before is not received when nothing is delivered.    *)
LEMMA CommitsStay ==
  ASSUME WholeCommits, FaultsStay, UNCHANGED <<plan, tabs>> PROVE WholeCommits'
<1>1. \A u, k : RowsOf(u, k)' = RowsOf(u, k)
  BY DEF RowsOf
<1>2. \A t : ~Spoilt(t)' => ~Spoilt(t)
  BY SpoiltStays, SMTT(30)
<1> QED BY <1>1, <1>2 DEF WholeCommits, IsWhole

(* A begin and a keepalive.                                                  *)
LEMMA BeginOrKeepAliveFollows ==
  ASSUME NEW p, NEW e, EventStep(p, e), ProcessCdcEvent(e), e.msg.type \in {"Begin", "KeepAlive"}
  PROVE  WInv'
<1>0. SinkFollows /\ HasParts /\ snk.main \in Transaction /\ e.msg.lsn \in Nat
  BY DEF EventStep, WInv, SinkFollows, SinkParts, IsConverted, Message
<1>1. ~IsRow(e.msg) /\ ~IsEnd(e.msg)
  BY SMTT(30) DEF IsRow, RowTypes, IsEnd, IsCommit
<1>2. /\ UNCHANGED <<loop, tabs, faults>>
      /\ \/ snk' = [snk EXCEPT !.main.final = e.msg.lsn, !.main.last = None, !.lastKey = None]
         \/ \E floor, replicated : snk' = [snk EXCEPT !.floor = floor, !.replicated = replicated]
  BY <1>1, ZenonT(60) DEF ProcessCdcEvent
<1>3. /\ HasParts' /\ snk'.senders = snk.senders /\ snk'.cached = snk.cached /\ snk'.streaming = snk.streaming
      /\ snk'.lastKey \in {snk.lastKey, None} /\ snk'.main \in Transaction
      /\ snk'.main.touched = snk.main.touched /\ snk'.main.last \in {snk.main.last, None}
  <2>1. CASE snk' = [snk EXCEPT !.main.final = e.msg.lsn, !.main.last = None, !.lastKey = None]
    <3>1. PICK main : main = [snk.main EXCEPT !.final = e.msg.lsn, !.last = None]
      OBVIOUS
    <3>2. main \in Transaction /\ main.touched = snk.main.touched /\ main.last = None
      BY <1>0, <3>1, Zenon DEF Transaction
    <3>3. snk' = [snk EXCEPT !.main = main, !.lastKey = None]
      BY <1>0, <2>1, <3>1, Zenon DEF HasParts
    <3>4. /\ DOMAIN snk' = DOMAIN snk /\ snk'.main = main /\ snk'.lastKey = None
          /\ snk'.senders = snk.senders /\ snk'.cached = snk.cached /\ snk'.streaming = snk.streaming
      BY <1>0, <3>3 DEF HasParts
    <3> QED BY <1>0, <3>2, <3>4 DEF HasParts
  <2>2. CASE \E floor, replicated : snk' = [snk EXCEPT !.floor = floor, !.replicated = replicated]
    <3>1. PICK floor, replicated : snk' = [snk EXCEPT !.floor = floor, !.replicated = replicated]
      BY <2>2, Zenon
    <3>2. /\ DOMAIN snk' = DOMAIN snk /\ snk'.main = snk.main /\ snk'.lastKey = snk.lastKey
          /\ snk'.senders = snk.senders /\ snk'.cached = snk.cached /\ snk'.streaming = snk.streaming
      BY <1>0, <3>1 DEF HasParts
    <3> QED BY <1>0, <3>2, SMTT(30) DEF HasParts
  <2> QED BY <1>2, <2>1, <2>2, ZenonT(60)
<1>4. SinkFollows' /\ KeepsTouched
  BY <1>0, <1>3, QuietSink
<1> QED BY <1>1, <1>2, <1>3, <1>4, QuietEventFollows, ZenonT(60)

(* A change of schema.                                                       *)
LEMMA ChangeSchemaFollows ==
  ASSUME NEW p, NEW e, EventStep(p, e), e.msg.type = "Relation", ChangeSchema(e)
  PROVE  WInv'
<1>0. /\ IInv /\ WInv /\ loop.state = "up" /\ SinkFollows /\ HasParts /\ snk.main \in Transaction /\ IsConverted(e)
      /\ plan \in StreamScenarios /\ LoopInv
  BY DEF EventStep, WInv, SinkFollows, SinkParts, IInv, TypeInv
<1>1. PICK t, now : t = e.msg.table /\ now = plan.columns[t]
  OBVIOUS
<1>2. t \in SrcTable /\ now \in Nat /\ now # 0
  <2>1. t \in SrcTable
    BY <1>0, <1>1 DEF IsConverted, KnownTable
  <2>2. plan.columns \in Schemas /\ now > 0
    BY <1>0, <1>1, <2>1, PlanFacts, ColumnsAssumption
  <2> QED BY <1>1, <2>1, <2>2 DEF Schemas
<1>3. PICK ev : ev = TableEvent("AlterTable", [e EXCEPT !.cols = now])
  OBVIOUS
<1>4. ev \in Event /\ ev.msg = e.msg /\ ev.type # "Commit"
  <2>1. PICK c : c = [e EXCEPT !.cols = now]
    BY Zenon
  <2>2. c.msg = e.msg /\ c.msg \in Message /\ c.cols \in Nat /\ c.place \in Nat
    BY <1>0, <1>2, <2>1 DEF IsConverted
  <2>3. "AlterTable" \in EventType
    BY DEF EventType
  <2> QED BY <1>3, <2>1, <2>2, <2>3, TableEventIsEvent, Zenon
<1>5. ~IsRow(e.msg) /\ ~IsEnd(e.msg)
  BY DEF IsRow, RowTypes, IsEnd, IsCommit
<1>6. /\ snk' = [snk EXCEPT !.relation[t] = now]
      /\ tabs' = IF snk.senders[t] = 0 THEN tabs ELSE [tabs EXCEPT ![t][snk.senders[t]] = Received(@, ev)]
      /\ IF loop.schemas[t] = 0 THEN Panic({<<"dropped table", None>>})
         ELSE loop' = [loop EXCEPT !.schemas[t] = now] /\ UNCHANGED faults
  BY <1>1, <1>3 DEF ChangeSchema
<1>7. PICK T : T = IF snk.senders[t] = 0 THEN {} ELSE {t}
  BY ZenonT(60)
<1>8. Delivered(T, ev)
  <2>1. CASE snk.senders[t] = 0
    BY <1>6, <1>7, <2>1, NothingDelivered
  <2>2. CASE snk.senders[t] # 0
    BY <1>0, <1>2, <1>4, <1>6, <1>7, <2>2, OneDelivered
  <2> QED BY <2>1, <2>2
<1>9. /\ DOMAIN snk' = DOMAIN snk /\ snk'.main = snk.main /\ snk'.lastKey = snk.lastKey
      /\ snk'.senders = snk.senders /\ snk'.cached = snk.cached /\ snk'.streaming = snk.streaming
  BY <1>0, <1>6 DEF HasParts
<1>10. SinkFollows' /\ KeepsTouched
  <2>1. HasParts'
    BY <1>0, <1>9 DEF HasParts
  <2> QED BY <1>0, <1>9, <2>1, QuietSink
<1>11. loop'.state \in {"up", "panicked"} /\ (loop'.state = "up" => SchemasFollow')
  <2>1. CASE loop.schemas[t] = 0
    <3>1. loop' = [loop EXCEPT !.state = "panicked"]
      BY <1>6, <2>1 DEF Panic
    <3> QED BY <1>0, <3>1 DEF LoopInv
  <2>2. CASE loop.schemas[t] # 0
    <3>1. loop' = [loop EXCEPT !.schemas[t] = now]
      BY <1>6, <2>2
    <3>2. /\ loop'.state = "up" /\ loop'.schemas = [loop.schemas EXCEPT ![t] = now] /\ loop.schemas \in Schemas
      BY <1>0, <3>1 DEF LoopInv
    <3>3. \A u \in SrcTable : loop'.schemas[u] = IF u = t THEN now ELSE loop.schemas[u]
      BY <3>2 DEF Schemas
    <3> QED BY <1>0, <1>2, <1>9, <3>2, <3>3 DEF WInv, SchemasFollow
  <2> QED BY <2>1, <2>2
<1> QED BY <1>4, <1>5, <1>8, <1>9, <1>10, <1>11, OtherEventFollows, SMTT(30)

(* An event that was converted.                                              *)
LEMMA CdcEventFollows ==
  ASSUME NEW p, NEW e, EventStep(p, e), e.kind = "Ok", ProcessCdcEvent(e)
  PROVE  WInv'
<1>0. SinkFollows
  BY DEF EventStep, WInv
<1>1. CASE IsRow(e.msg)
  <2>1. ProcessRowEvent(e) /\ UNCHANGED <<loop, faults>>
    BY <1>1 DEF ProcessCdcEvent, IsRow, RowTypes
  <2> QED BY <1>1, <2>1, RowEventFollows
<1>2. CASE IsEnd(e.msg)
  BY <1>2, EndOfTransactionFollows
<1>3. CASE e.msg.type \in {"Begin", "KeepAlive"}
  BY <1>3, BeginOrKeepAliveFollows
<1>4. CASE e.msg.type \in {"Relation", "StreamStart", "StreamStop", "Type"} /\ ~IsRow(e.msg) /\ ~IsEnd(e.msg)
  <2>1. CASE e.msg.type = "Relation" /\ NeedsSchema(e.msg)
    <3>1. ChangeSchema(e)
      BY <2>1 DEF ProcessCdcEvent, IsRow, RowTypes
    <3> QED BY <2>1, <3>1, ChangeSchemaFollows
  <2>2. CASE ~(e.msg.type = "Relation" /\ NeedsSchema(e.msg))
    <3>1. UNCHANGED <<loop, snk, tabs, faults>>
      BY <1>4, <2>2 DEF ProcessCdcEvent
    <3>2. SinkFollows' /\ KeepsTouched
      BY <1>0, <3>1, SinkStays
    <3> QED BY <1>4, <3>1, <3>2, QuietEventFollows
  <2> QED BY <2>1, <2>2
<1>5. \/ IsRow(e.msg) \/ IsEnd(e.msg) \/ e.msg.type \in {"Begin", "KeepAlive"}
      \/ e.msg.type \in {"Relation", "StreamStart", "StreamStop", "Type"} /\ ~IsRow(e.msg) /\ ~IsEnd(e.msg)
  BY DEF ProcessCdcEvent, IsEnd, IsCommit
<1> QED BY <1>1, <1>2, <1>3, <1>4, <1>5
-----------------------------------------------------------------------------
(* An event of the batch removes no fault.                                   *)
LEMMA EventFaultsStay ==
  ASSUME ProcessEvent PROVE FaultsStay
<1>1. ASSUME NEW e, ProcessCdcEvent(e) PROVE FaultsStay
  BY <1>1 DEF ProcessCdcEvent, ChangeSchema, Panic, FaultsStay
<1> QED BY <1>1, SMTT(30) DEF ProcessEvent, Panic, FaultsStay

(* Every event of a batch keeps the tables in line.                          *)
LEMMA ProcessEventFollows ==
  ASSUME IInv, IInv', WInv, ProcessEvent PROVE WInv'
<1>1. PICK p, e : p = Min(DOMAIN batch) /\ e = batch[p]
  OBVIOUS
<1>2. loop.state = "up" /\ batch # <<>> /\ UNCHANGED <<plan, server, budget>> /\ FaultsStay
  BY EventFaultsStay DEF ProcessEvent
<1>3. /\ p \in DOMAIN batch /\ p \in DOMAIN plan.wire /\ e = NextEvent /\ e.msg = plan.wire[p] /\ IsConverted(e)
  BY <1>1, <1>2, NextPlace
<1>4. loop \in [state : {"down", "up", "failed", "stopped", "panicked"},
                commands : Seq(CommandRec), schemas : Schemas, saved : Schemas]
  BY DEF IInv, TypeInv, LoopInv
<1>5. CASE e.kind = "Error"
  <2>1. batch' = <<>> /\ loop' = [loop EXCEPT !.saved = loop.schemas] /\ UNCHANGED <<snk, tabs>>
        /\ faults' = faults \cup {<<"cut", None>>}
    BY <1>3, <1>5 DEF ProcessEvent
  <2>2. loop'.state = "up" /\ loop'.schemas = loop.schemas
    BY <1>2, <1>4, <2>1
  <2>3. ~Undisturbed'
    BY <2>1 DEF Undisturbed
  <2>4. BatchFollows'
    <3>1. DOMAIN batch' = {}
      BY <2>1
    <3> QED BY <3>1 DEF BatchFollows
  <2>5. WholeCommits'
    BY <1>2, <2>1, CommitsStay DEF WInv
  <2>6. SinkFollows'
    BY <1>2, <2>1, SinkStays DEF WInv
  <2>7. SchemasFollow'
    BY <1>2, <2>1, <2>2 DEF WInv, SchemasFollow
  <2> QED BY <2>2, <2>3, <2>4, <2>5, <2>6, <2>7 DEF WInv, TablesFollow
<1>6. CASE e.kind # "Error"
  <2>1. batch' = RestOfBatch
    BY <1>3, <1>6 DEF ProcessEvent
  <2>2. CASE e.kind \in {"MissingSchema", "MessageNotSupported"}
    <3>1. /\ faults' = IF e.kind = "MissingSchema" THEN faults \cup {<<"missed", e.msg.table>>} ELSE faults
          /\ UNCHANGED <<loop, snk, tabs>>
      BY <1>3, <2>2 DEF ProcessEvent
    <3>2. EventStep(p, e)
      BY <1>1, <1>2, <2>1, <3>1, RestFollows
    <3>3. SinkFollows' /\ KeepsTouched
      BY <1>2, <3>1, SinkStays DEF WInv
    <3>4. ~IsEnd(e.msg) /\ (IsRow(e.msg) => e.kind = "MissingSchema")
      BY <1>1, <1>3, <2>2, RowsEndNothing, ZenonT(60) DEF WInv, BatchFollows
    <3>5. IsRow(e.msg) => Spoilt(e.msg.table)'
      BY <3>1, <3>4 DEF Spoilt
    <3> QED BY <3>1, <3>2, <3>3, <3>4, <3>5, QuietEventFollows
  <2>3. CASE e.kind = "Ok"
    <3>1. IF BelowFloor(e.msg) THEN Panic({}) /\ UNCHANGED <<snk, tabs>> ELSE ProcessCdcEvent(e)
      BY <1>3, <2>3 DEF ProcessEvent
    <3>2. CASE BelowFloor(e.msg)
      <4>1. loop'.state = "panicked" /\ UNCHANGED tabs
        BY <1>4, <3>1, <3>2 DEF Panic
      <4>2. EventStep(p, e)
        BY <1>1, <1>2, <2>1, <4>1, RestFollows
      <4>3. WholeCommits'
        BY <1>2, <4>1, CommitsStay DEF WInv
      <4> QED BY <4>1, <4>2, <4>3, EventFollowed
    <3>3. CASE ~BelowFloor(e.msg)
      <4>1. ProcessCdcEvent(e)
        BY <3>1, <3>3
      <4>2. loop'.state # "down"
        <5>1. loop' = loop \/ (\E why : Panic(why)) \/ \E t, now : loop' = [loop EXCEPT !.schemas[t] = now]
          BY <4>1 DEF ProcessCdcEvent, ChangeSchema
        <5> QED BY <1>2, <1>4, <5>1, SMTT(30) DEF Panic
      <4>3. EventStep(p, e)
        BY <1>1, <1>2, <2>1, <4>2, RestFollows
      <4> QED BY <2>3, <4>1, <4>3, CdcEventFollows
    <3> QED BY <3>2, <3>3
  <2>4. e.kind \in {"MissingSchema", "MessageNotSupported", "Ok"}
    BY <1>3, <1>6 DEF ProcessEvent
  <2> QED BY <2>2, <2>3, <2>4
<1> QED BY <1>5, <1>6

(* The fetch of a schema that fails ends the loop.                           *)
LEMMA FetchFailsFollows ==
  ASSUME IInv, IInv', WInv, FetchFails PROVE WInv'
<1>1. PICK p : p = Min(DOMAIN batch)
  OBVIOUS
<1>2. /\ loop.state = "up" /\ batch # <<>> /\ batch' = RestOfBatch /\ UNCHANGED <<plan, server, tabs, faults>>
      /\ loop' = [loop EXCEPT !.state = "failed"] /\ FaultsStay
  BY DEF FetchFails, FaultsStay
<1>3. loop'.state = "failed"
  BY <1>2 DEF IInv, TypeInv, LoopInv
<1>4. EventStep(p, batch[p])
  BY <1>1, <1>2, <1>3, RestFollows
<1>5. WholeCommits'
  BY <1>2, CommitsStay DEF WInv
<1> QED BY <1>3, <1>4, <1>5, EventFollowed
-----------------------------------------------------------------------------
(* Steps that pass no place of the wire.                                     *)
LEMMA FollowsStays ==
  ASSUME NEW s, NEW t \in SrcTable, Follows(s, t), UNCHANGED plan, Pending' = Pending,
         \A y \in AnyXid : t \in TouchedAt(y) => t \in TouchedAt(y)',
         snk'.senders[t] # 0 => snk.senders[t] # 0 /\ Got(t)' = Got(t)
  PROVE  Follows(s, t)'
<1>1. ASSUME NEW y PROVE OpenAt(s, t, y)' = OpenAt(s, t, y)
  BY DEF OpenAt, Passed
<1> QED BY <1>1 DEF Follows

(* Nor is the order of what is left disturbed.                               *)
LEMMA OrderStays ==
  ASSUME NEW s, InOrder(s), UNCHANGED plan, Pending' = Pending PROVE InOrder(s)'
BY DEF InOrder, Passed

(* A step of the tables or of the slot.                                      *)
LEMMA Unmoved ==
  ASSUME IInv, IInv', WInv, UNCHANGED <<plan, loop, batch, snk, faults>>, server'.queue = server.queue,
         NEW ev, Delivered({}, ev)
  PROVE  WInv'
<1>1. BatchFollows'
  BY DEF WInv, BatchFollows, Undisturbed
<1>2. WholeCommits'
  <2>1. (\A u, k : RowsOf(u, k)' = RowsOf(u, k)) /\ \A t : Spoilt(t)' = Spoilt(t)
    BY DEF RowsOf, Spoilt
  <2> SUFFICES ASSUME NEW t \in SrcTable, NEW g \in DOMAIN tabs'[t], NEW j \in DOMAIN tabs'[t][g].got,
                      tabs'[t][g].got[j].type = "Commit", ~Spoilt(t), NEW new, new = tabs'[t][g].got
               PROVE  IsExactly(new, Since(new, j), RowsOf(t, new[j].msg.end))
    BY <2>1 DEF WholeCommits, IsWhole
  <2>2. g \in DOMAIN tabs[t] /\ g \in 1 .. Len(tabs[t])
    <3>1. tabs'[t] \in Seq(Tab)
      BY DEF IInv, TypeInv
    <3>2. DOMAIN tabs'[t] = 1 .. Len(tabs'[t])
      BY <3>1, LenProperties
    <3> QED BY <3>2, GotIsSeq DEF Delivered
  <2>3. new = tabs[t][g].got
    BY <2>2 DEF Delivered
  <2> QED BY <2>2, <2>3 DEF WInv, WholeCommits, IsWhole
<1>3. ASSUME loop.state \in {"up", "down"} PROVE SinkFollows' /\ KeepsTouched /\ SchemasFollow'
  <2>1. SinkFollows' /\ KeepsTouched
    BY <1>3, SinkStays DEF WInv
  <2>2. SchemasFollow'
    BY <1>3 DEF WInv, SchemasFollow
  <2> QED BY <2>1, <2>2
<1>4. Pending' = Pending
  BY DEF Pending
<1>5. ASSUME NEW t \in SrcTable, snk.senders[t] # 0 PROVE Got(t)' = Got(t)
  BY <1>5, GotAfter
<1>6. (\A t \in SrcTable : Spoilt(t)' = Spoilt(t)) /\ Undisturbed' = Undisturbed
  BY DEF Spoilt, Undisturbed
<1>7. ASSUME loop.state = "up", Undisturbed
      PROVE  \E s \in Nat : InOrder(s)' /\ \A t \in SrcTable : Spoilt(t)' \/ Follows(s, t)'
  <2>1. PICK s \in Nat : InOrder(s) /\ \A t \in SrcTable : Spoilt(t) \/ Follows(s, t)
    BY <1>7 DEF WInv, TablesFollow
  <2>2. InOrder(s)'
    BY <1>4, <2>1, OrderStays
  <2>3. ASSUME NEW t \in SrcTable, Follows(s, t) PROVE Follows(s, t)'
    BY <1>3, <1>4, <1>5, <1>7, <2>3, FollowsStays, SMTT(30) DEF KeepsTouched
  <2> QED BY <1>6, <2>1, <2>2, <2>3
<1>8. ASSUME loop.state = "down", NEW t \in SrcTable
      PROVE  Spoilt(t)' \/ snk'.senders[t] = 0 \/ \A x \in AnyXid : Unended(Got(t), x)' = {}
  BY <1>5, <1>6, <1>8, SMTT(30) DEF WInv, TablesFollow
<1>9. loop.state \in {"up", "down"} => TablesFollow'
  BY <1>6, <1>7, <1>8 DEF TablesFollow
<1> QED BY <1>1, <1>2, <1>3, <1>9, SMTT(30) DEF WInv

(* The status that is sent moves only the slot.                              *)
LEMMA SendStatusFollows ==
  ASSUME IInv, IInv', WInv, SendStatus PROVE WInv'
<1>1. /\ UNCHANGED <<plan, loop, batch, snk, faults, tabs>>
      /\ server' = [server EXCEPT !.confirmed = ConfirmedLsn]
  BY DEF SendStatus
<1>2. server'.queue = server.queue
  BY <1>1 DEF IInv, TypeInv
<1>3. Delivered({}, None)
  BY <1>1, NothingDelivered
<1> QED BY <1>1, <1>2, <1>3, Unmoved

(* What becomes durable was received before.                                 *)
LEMMA FlushFollows ==
  ASSUME IInv, IInv', WInv, NEW t \in SrcTable, FlushTable(t) \/ FlushTableWal(t) PROVE WInv'
<1>1. PICK g : g = snk.senders[t]
  BY SMTT(30)
<1>2. /\ UNCHANGED <<plan, server, loop, batch, snk, faults>> /\ g # 0
      /\ \E n : \/ tabs' = [tabs EXCEPT ![t][g].flush = n]
                \/ tabs' = [tabs EXCEPT ![t][g].wal = n]
  BY <1>1, Zenon DEF FlushTable, FlushTableWal
<1>3. PICK n : tabs' = [tabs EXCEPT ![t][g].flush = n] \/ tabs' = [tabs EXCEPT ![t][g].wal = n]
  BY <1>2
<1>4. tabs \in [SrcTable -> Seq(Tab)] /\ tabs[t] \in Seq(Tab) /\ g \in 1 .. Len(tabs[t]) /\ DOMAIN tabs[t] = 1 .. Len(tabs[t])
  BY <1>1, <1>2, GotIsSeq DEF IInv, TypeInv
<1>5. tabs[t][g] \in Tab
  BY <1>4, ElementOfSeq
<1>6. PICK tb : tb.got = tabs[t][g].got /\ tabs' = [tabs EXCEPT ![t] = [tabs[t] EXCEPT ![g] = tb]]
  <2>1. CASE tabs' = [tabs EXCEPT ![t][g].flush = n]
    <3>1. PICK tb : tb = [tabs[t][g] EXCEPT !.flush = n]
      BY Zenon
    <3>2. tb.got = tabs[t][g].got
      BY <1>5, <3>1 DEF Tab
    <3> QED BY <1>4, <2>1, <3>1, <3>2, Zenon
  <2>2. CASE tabs' = [tabs EXCEPT ![t][g].wal = n]
    <3>1. PICK tb : tb = [tabs[t][g] EXCEPT !.wal = n]
      BY Zenon
    <3>2. tb.got = tabs[t][g].got
      BY <1>5, <3>1 DEF Tab
    <3> QED BY <1>4, <2>2, <3>1, <3>2, Zenon
  <2> QED BY <1>3, <2>1, <2>2
<1>7. PICK new : new = [tabs[t] EXCEPT ![g] = tb]
  BY Zenon
<1>8. tabs'[t] = new /\ \A u \in SrcTable : u # t => tabs'[u] = tabs[u]
  BY <1>4, <1>6, <1>7
<1>9. Len(new) = Len(tabs[t]) /\ \A h \in 1 .. Len(tabs[t]) : new[h].got = tabs[t][h].got
  <2>1. new \in Seq(Tab)
    BY <1>8 DEF IInv, TypeInv
  <2>2. DOMAIN new = DOMAIN tabs[t]
    BY <1>7
  <2>3. Len(new) = Len(tabs[t])
    BY <1>4, <2>1, <2>2, LenProperties
  <2>4. \A h \in 1 .. Len(tabs[t]) : new[h] = IF h = g THEN tb ELSE tabs[t][h]
    BY <1>4, <1>7
  <2> QED BY <1>6, <2>3, <2>4
<1>10. Delivered({}, None)
  BY <1>8, <1>9 DEF Delivered
<1> QED BY <1>2, <1>10, Unmoved

(* A connection starts: nothing of it is passed, and no table has part of a  *)
(* transaction.                                                              *)
LEMMA ConnectFollows ==
  ASSUME IInv, IInv', WInv, Connect PROVE WInv'
<1>1. PICK s : s = Max({server.confirmed, ConfirmedLsn})
  OBVIOUS
<1>2. /\ loop.state = "down" /\ UNCHANGED <<plan, batch, tabs, faults>>
      /\ server' = [confirmed |-> s, queue |-> {i \in DOMAIN plan.wire : plan.wire[i].end > s}]
      /\ loop' = [loop EXCEPT !.state = "up", !.schemas = loop.saved]
      /\ snk' = [snk EXCEPT !.floor = 0]
  BY <1>1 DEF Connect
<1>3. s \in Nat /\ server'.queue = {i \in DOMAIN plan.wire : plan.wire[i].end > s}
  BY <1>2 DEF IInv, TypeInv
<1>4. loop'.state = "up" /\ loop'.schemas = loop.saved
  BY <1>2 DEF IInv, TypeInv, LoopInv
<1>5. DOMAIN batch = {} /\ SinkFollows /\ HasParts /\ snk.main \in Transaction
  BY <1>2 DEF WInv, BatchFollows, SinkFollows, SinkParts
<1>6. /\ DOMAIN snk' = DOMAIN snk /\ snk'.main = snk.main /\ snk'.lastKey = snk.lastKey
      /\ snk'.senders = snk.senders /\ snk'.cached = snk.cached /\ snk'.streaming = snk.streaming
  BY <1>2, <1>5 DEF HasParts
<1>7. SinkFollows'
  <2>1. HasParts'
    BY <1>5, <1>6 DEF HasParts
  <2> QED BY <1>5, <1>6, <2>1, QuietSink
<1>8. BatchFollows'
  BY <1>2, <1>4, <1>5 DEF BatchFollows
<1>9. SchemasFollow'
  BY <1>2, <1>4, <1>6 DEF WInv, SchemasFollow
<1>10. WholeCommits'
  BY <1>2, CommitsStay DEF WInv, FaultsStay
<1>11. Pending' = {i \in DOMAIN plan.wire : plan.wire[i].end > s}
  BY <1>2, <1>3, <1>5 DEF Pending
<1>12. Passed(s)' = {} /\ InOrder(s)'
  BY <1>2, <1>11 DEF Passed, InOrder
<1>13. ASSUME NEW t \in SrcTable, ~Spoilt(t)' PROVE Follows(s, t)'
  <2>1. ~Spoilt(t)
    BY <1>2, <1>13 DEF Spoilt
  <2>2. snk.senders[t] # 0 => \A x \in AnyXid : Unended(Got(t), x) = {}
    BY <1>2, <2>1 DEF WInv, TablesFollow
  <2>3. snk.senders[t] # 0 => Got(t)' = Got(t)
    BY <1>2, <1>6 DEF Got
  <2>4. \A x : OpenAt(s, t, x)' = {}
    BY <1>12 DEF OpenAt
  <2> QED BY <1>6, <2>2, <2>3, <2>4, ExactlyNothing DEF Follows
<1>14. TablesFollow'
  BY <1>3, <1>4, <1>12, <1>13 DEF TablesFollow
<1> QED BY <1>4, <1>7, <1>8, <1>9, <1>10, <1>14 DEF WInv

(* The loop ends.                                                            *)
LEMMA EndedFollows ==
  ASSUME WInv, FaultsStay, UNCHANGED <<plan, server, batch, tabs>>, loop'.state \notin {"up", "down"}
  PROVE  WInv'
<1>1. BatchFollows'
  BY SpoiltStays DEF WInv, BatchFollows
<1>2. WholeCommits'
  BY CommitsStay DEF WInv
<1> QED BY <1>1, <1>2 DEF WInv

(* A connection that fails ends the loop.                                    *)
LEMMA ConnectFailsFollows ==
  ASSUME IInv, WInv, ConnectFails PROVE WInv'
<1>1. loop'.state = "failed"
  BY DEF ConnectFails, IInv, TypeInv, LoopInv
<1> QED BY <1>1, EndedFollows DEF ConnectFails, FaultsStay

(* The connection ends: no table has part of a transaction, or it is sent    *)
(* again.                                                                    *)
LEMMA DisconnectFollows ==
  ASSUME IInv, WInv, Disconnect PROVE WInv'
<1>1. /\ loop.state = "up" /\ batch = <<>> /\ UNCHANGED <<plan, server, batch, snk, tabs>>
      /\ loop' = [loop EXCEPT !.state = "down", !.saved = loop.schemas]
      /\ faults' = IF OpenRows THEN faults \cup {<<"sent again", None>>} ELSE faults
  BY DEF Disconnect, Idle
<1>2. loop'.state = "down" /\ loop'.saved = loop.schemas
  BY <1>1 DEF IInv, TypeInv, LoopInv
<1>3. FaultsStay
  BY <1>1 DEF FaultsStay
<1>4. BatchFollows'
  <2>1. batch' = <<>>
    BY <1>1
  <2>2. DOMAIN batch' = {}
    BY <2>1
  <2> QED BY <2>2 DEF BatchFollows
<1>5. WholeCommits'
  BY <1>1, <1>3, CommitsStay DEF WInv
<1>6. SinkFollows'
  BY <1>1, SinkStays DEF WInv
<1>7. SchemasFollow'
  BY <1>1, <1>2 DEF WInv, SchemasFollow
<1>8. ASSUME NEW t \in SrcTable, ~Spoilt(t)', snk.senders[t] # 0, NEW x \in AnyXid PROVE Unended(Got(t), x) = {}
  <2>1. ~Spoilt(t) /\ Undisturbed
    BY <1>3, <1>8, SpoiltStays DEF Spoilt, Undisturbed
  <2>2. ~OpenRows
    BY <1>1, <1>8 DEF Spoilt
  <2>3. TouchedAt(x) = {}
    <3>1. Range(<<>>) = {}
      BY DEF Range
    <3> QED BY <2>2, <3>1 DEF TouchedAt, TouchedIn, OpenRows, AnyXid
  <2>4. PICK s \in Nat : Follows(s, t)
    BY <1>1, <2>1 DEF WInv, TablesFollow
  <2>5. OpenAt(s, t, x) = {} /\ IsExactly(Got(t), Unended(Got(t), x), OpenAt(s, t, x))
    BY <1>8, <2>3, <2>4 DEF Follows
  <2> QED BY <2>5, NothingOpen
<1>9. TablesFollow'
  <2>1. \A t \in SrcTable : Got(t)' = Got(t) /\ snk'.senders[t] = snk.senders[t]
    BY <1>1 DEF Got
  <2> QED BY <1>2, <1>8, <2>1 DEF TablesFollow
<1> QED BY <1>2, <1>4, <1>5, <1>6, <1>7, <1>9 DEF WInv
-----------------------------------------------------------------------------
(* A wake takes the first places of the queue.                               *)
LEMMA FirstComeFirst ==
  ASSUME IInv, NEW k \in Int, NEW i \in FirstOf(server.queue, k), NEW j \in server.queue \ FirstOf(server.queue, k)
  PROVE  i < j
<1>1. PICK Q, n : Q = server.queue /\ n = Len(plan.wire)
  BY Zenon
<1>2. plan.wire \in Seq(Message) /\ Q \subseteq DOMAIN plan.wire
  BY <1>1, PlanFacts DEF IInv, TypeInv
<1>3. n \in Nat /\ Q \subseteq 1 .. n
  BY <1>1, <1>2, LenProperties
<1>4. i \in Q /\ j \in Q /\ i \in Nat /\ j \in Nat
  BY <1>1, <1>3 DEF FirstOf
<1> SUFFICES ASSUME j <= i PROVE FALSE
  BY <1>4
<1>5. PICK A, B : A = {m \in Q : m <= j} /\ B = {m \in Q : m <= i}
  BY Zenon
<1>6. A \subseteq B /\ B \subseteq 1 .. n
  <2>1. \A m \in Q : m \in Nat
    BY <1>3
  <2>2. ASSUME NEW m \in A PROVE m \in B
    <3>1. m \in Q /\ m \in Nat /\ m <= j
      BY <1>5, <2>1
    <3>2. m <= i
      BY <1>4, <3>1
    <3> QED BY <1>5, <3>1, <3>2
  <2> QED BY <1>3, <1>5, <2>2, Zenon
<1>7. IsFiniteSet(B)
  <2>1. IsFiniteSet(1 .. n)
    BY <1>3, FS_Interval
  <2> QED BY <1>6, <2>1, FS_Subset, Zenon
<1>8. Cardinality(A) <= Cardinality(B) /\ Cardinality(A) \in Nat /\ Cardinality(B) \in Nat
  BY <1>6, <1>7, FS_Subset, FS_CardinalityType, Zenon
<1>9. Cardinality(B) <= k /\ ~(Cardinality(A) <= k)
  BY <1>1, <1>4, <1>5 DEF FirstOf
<1> QED BY <1>8, <1>9

(* The kinds of a conversion.                                                *)
LEMMA KindFacts ==
  ASSUME NEW m
  PROVE  /\ Kind(m) = "MissingSchema" => IsRow(m)
         /\ Kind(m) = "MessageNotSupported" => ~IsRow(m) /\ ~IsEnd(m)
         /\ Kind(m) = "Ok" /\ IsRow(m) => loop.schemas[m.table] # 0
<1>1. Kind(m) = "MissingSchema" => IsRow(m)
  BY DEF Kind
<1>2. Kind(m) = "MessageNotSupported" => m.type = "Unsupported"
  BY DEF Kind
<1>3. Kind(m) = "Ok" /\ IsRow(m) => loop.schemas[m.table] # 0
  BY DEF Kind
<1> QED BY <1>1, <1>2, <1>3 DEF IsRow, RowTypes, IsEnd, IsCommit

(* The events of a wake follow the wire, and pass none of it.                *)
LEMMA NextBatchFollows ==
  ASSUME IInv, IInv', WInv, NEW k \in Int, NextBatch(k) PROVE WInv'
<1>1. PICK places : places = FirstOf(server.queue, k)
  OBVIOUS
<1>2. PICK events : events = [i \in places |-> Converted(i)]
  BY Zenon
<1>3. /\ loop.state = "up" /\ batch = <<>> /\ server' = [server EXCEPT !.queue = @ \ places]
      /\ UNCHANGED <<plan, snk, tabs>>
      /\ \/ Panic({<<"stale schema", None>>}) /\ UNCHANGED batch
         \/ /\ batch' = events /\ UNCHANGED loop
            /\ faults' = faults \cup (IF Stale(places) THEN {<<"stale schema", None>>} ELSE {})
  BY <1>1, <1>2 DEF NextBatch, Idle
<1>4. places \subseteq server.queue /\ server.queue \subseteq DOMAIN plan.wire /\ server'.queue = server.queue \ places
  BY <1>1, <1>3 DEF FirstOf, IInv, TypeInv
<1>5. FaultsStay
  BY <1>3 DEF FaultsStay, Panic
<1>6. WholeCommits'
  BY <1>3, <1>5, CommitsStay DEF WInv
<1>7. CASE Panic({<<"stale schema", None>>}) /\ UNCHANGED batch
  <2>1. loop'.state = "panicked"
    BY <1>7 DEF Panic, IInv, TypeInv, LoopInv
  <2>2. batch' = <<>>
    BY <1>3, <1>7
  <2>3. DOMAIN batch' = {}
    BY <2>2
  <2>4. BatchFollows'
    BY <2>3 DEF BatchFollows
  <2> QED BY <1>6, <2>1, <2>4 DEF WInv
<1>8. CASE /\ batch' = events /\ UNCHANGED loop
           /\ faults' = faults \cup (IF Stale(places) THEN {<<"stale schema", None>>} ELSE {})
  <2>1. DOMAIN batch' = places /\ \A i \in places : batch'[i] = Converted(i)
    BY <1>2, <1>8
  <2>2. DOMAIN batch = {}
    <3>1. batch = <<>>
      BY <1>3
    <3> QED BY <3>1
  <2>3. Pending' = Pending
    BY <1>4, <2>1, <2>2, SMTT(30) DEF Pending
  <2>4. BatchFollows'
    <3> SUFFICES ASSUME NEW i \in places
                 PROVE  /\ i \in DOMAIN plan.wire /\ batch'[i].msg = plan.wire[i] /\ batch'[i].place = i
                        /\ i \notin server'.queue /\ \A j \in server'.queue : i < j
                        /\ batch'[i].kind = "Ok" /\ IsRow(plan.wire[i]) /\ Undisturbed' => batch'[i].cols = plan.wire[i].cols
                        /\ batch'[i].kind = "MissingSchema" => IsRow(plan.wire[i])
                        /\ batch'[i].kind = "MessageNotSupported" => ~IsRow(plan.wire[i]) /\ ~IsEnd(plan.wire[i])
      BY <1>3, <1>8, <2>1 DEF BatchFollows
    <3>1. PICK m, b : m = plan.wire[i] /\ b = batch'[i]
      OBVIOUS
    <3>2. /\ b.msg = m /\ b.place = i /\ b.kind = Kind(m)
          /\ IsRow(m) => b.cols = loop.schemas[m.table]
      BY <2>1, <3>1 DEF Converted
    <3>3. i \in DOMAIN plan.wire /\ i \notin server'.queue /\ \A j \in server'.queue : i < j
      BY <1>1, <1>4, FirstComeFirst
    <3>4. b.kind = "Ok" /\ IsRow(m) /\ Undisturbed' => b.cols = m.cols
      <4>1. Undisturbed' => ~Stale(places)
        BY <1>8 DEF Undisturbed
      <4>2. ~Stale(places) /\ IsRow(m) => loop.schemas[m.table] \in {0, m.cols}
        BY <3>1 DEF Stale
      <4> QED BY <3>2, <4>1, <4>2, KindFacts, Zenon
    <3> QED BY <3>1, <3>2, <3>3, <3>4, KindFacts
  <2>5. SinkFollows' /\ KeepsTouched
    BY <1>3, SinkStays DEF WInv
  <2>6. SchemasFollow'
    BY <1>3, <1>8, SchemasStay
  <2>7. TablesFollow'
    <3>1. ASSUME Undisturbed'
          PROVE  \E s \in Nat : InOrder(s)' /\ \A t \in SrcTable : Spoilt(t)' \/ Follows(s, t)'
      <4>1. PICK s \in Nat : InOrder(s) /\ \A t \in SrcTable : Spoilt(t) \/ Follows(s, t)
        BY <1>3, <1>5, <3>1, SpoiltStays DEF WInv, TablesFollow
      <4>2. InOrder(s)'
        BY <1>3, <2>3, <4>1, OrderStays
      <4>3. ASSUME NEW t \in SrcTable, Follows(s, t) PROVE Follows(s, t)'
        <5>1. Got(t)' = Got(t)
          BY <1>3 DEF Got
        <5> QED BY <1>3, <2>3, <2>5, <4>3, <5>1, FollowsStays DEF KeepsTouched
      <4>4. \A t \in SrcTable : Spoilt(t) => Spoilt(t)'
        BY <1>5, SpoiltStays
      <4> QED BY <4>1, <4>2, <4>3, <4>4
    <3>2. loop'.state = "up"
      BY <1>3, <1>8
    <3> QED BY <3>1, <3>2 DEF TablesFollow
  <2> QED BY <1>6, <2>4, <2>5, <2>6, <2>7 DEF WInv
<1> QED BY <1>3, <1>7, <1>8
-----------------------------------------------------------------------------
(* A table is registered.                                                    *)
LEMMA AddKeepsCommits ==
  ASSUME IInv, WholeCommits, FaultsStay, UNCHANGED plan, NEW t \in SrcTable,
         tabs' = [tabs EXCEPT ![t] = Append(@, NewTab)]
  PROVE  /\ WholeCommits'
         /\ tabs'[t][Len(tabs[t]) + 1].got = <<>>
         /\ \A u \in SrcTable : u # t => tabs'[u] = tabs[u]
<1>1. PICK n, new : n = Len(tabs[t]) /\ new = Append(tabs[t], NewTab)
  BY ZenonT(60)
<1>2. tabs \in [SrcTable -> Seq(Tab)] /\ tabs[t] \in Seq(Tab) /\ n \in Nat
  BY <1>1, LenProperties DEF IInv, TypeInv
<1>3. NewTab \in Tab /\ NewTab.got = <<>>
  BY DEF NewTab, Tab, IInv, TypeInv
<1>4. /\ DOMAIN new = 1 .. n + 1 /\ new[n + 1] = NewTab /\ DOMAIN tabs[t] = 1 .. n
      /\ \A g \in 1 .. n : new[g] = tabs[t][g]
  BY <1>1, <1>2, <1>3, AppendProperties, LenProperties
<1>5. tabs'[t] = new /\ \A u \in SrcTable : u # t => tabs'[u] = tabs[u]
  BY <1>1, <1>2
<1>6. (\A u, k : RowsOf(u, k)' = RowsOf(u, k)) /\ \A u : ~Spoilt(u)' => ~Spoilt(u)
  BY SpoiltStays, SMTT(30) DEF RowsOf
<1>7. WholeCommits'
  <2> SUFFICES ASSUME NEW u \in SrcTable, NEW g \in DOMAIN tabs'[u], NEW j \in DOMAIN tabs'[u][g].got,
                      tabs'[u][g].got[j].type = "Commit", ~Spoilt(u), NEW got, got = tabs'[u][g].got
               PROVE  IsExactly(got, Since(got, j), RowsOf(u, got[j].msg.end))
    BY <1>6, ZenonT(60) DEF WholeCommits, IsWhole
  <2>1. CASE u = t /\ g = n + 1
    <3>1. got = <<>>
      BY <1>3, <1>4, <1>5, <2>1
    <3>2. DOMAIN got = {}
      BY <3>1, SMTT(30)
    <3> QED BY <3>2, Zenon
  <2>2. CASE ~(u = t /\ g = n + 1)
    <3>1. g \in DOMAIN tabs[u] /\ tabs'[u][g] = tabs[u][g]
      BY <1>2, <1>4, <1>5, <2>2, SMTT(30)
    <3> QED BY <3>1 DEF WholeCommits, IsWhole
  <2> QED BY <2>1, <2>2, ZenonT(60)
<1> QED BY <1>1, <1>3, <1>4, <1>5, <1>7

(* The sink with a table more.                                               *)
LEMMA AddToSinkFollows ==
  ASSUME SinkFollows, NEW t \in SrcTable, NEW n, NEW cols, snk.senders \in [SrcTable -> Nat], snk.senders[t] = 0,
         snk' = AddToSink(t, n, cols)
  PROVE  SinkFollows' /\ KeepsTouched /\ snk'.senders = [snk.senders EXCEPT ![t] = n]
<1>0. HasParts /\ SinkParts(snk.senders, snk.streaming, snk.main, snk.cached, snk.lastKey)
  BY DEF SinkFollows
<1>1. PICK senders : senders = [snk.senders EXCEPT ![t] = n]
  BY ZenonT(60)
<1>2. /\ DOMAIN snk' = DOMAIN snk /\ snk'.main = snk.main /\ snk'.lastKey = snk.lastKey
      /\ snk'.senders = senders /\ snk'.cached = snk.cached /\ snk'.streaming = snk.streaming
  BY <1>0, <1>1 DEF HasParts, AddToSink
<1>3. \A u \in SrcTable : snk.senders[u] # 0 => senders[u] = snk.senders[u]
  BY <1>1
<1>4. SinkParts(senders, snk.streaming, snk.main, snk.cached, snk.lastKey)
  BY <1>0, <1>3 DEF SinkParts
<1>5. KeepsTouched
  BY <1>2 DEF KeepsTouched, TouchedAt
<1> QED BY <1>0, <1>1, <1>2, <1>4, <1>5, SMTT(30) DEF SinkFollows, HasParts

(* The sink with one less: its sender is not cached any more.                *)
LEMMA DropFromSinkFollows ==
  ASSUME SinkFollows, NEW t \in SrcTable, snk.senders \in [SrcTable -> Nat], snk' = DropFromSink(t)
  PROVE  SinkFollows' /\ KeepsTouched /\ snk'.senders = [snk.senders EXCEPT ![t] = 0]
<1>0. HasParts /\ SinkParts(snk.senders, snk.streaming, snk.main, snk.cached, snk.lastKey)
  BY DEF SinkFollows
<1>1. PICK senders, cached : /\ senders = [snk.senders EXCEPT ![t] = 0]
                             /\ cached = IF snk.cached # None /\ snk.cached[1] = t THEN None ELSE snk.cached
  BY Zenon
<1>2. /\ DOMAIN snk' = DOMAIN snk /\ snk'.main = snk.main /\ snk'.lastKey = snk.lastKey
      /\ snk'.senders = senders /\ snk'.cached = cached /\ snk'.streaming = snk.streaming
  BY <1>0, <1>1 DEF HasParts, DropFromSink
<1>3. cached = None \/ \E u \in SrcTable : senders[u] # 0 /\ cached = <<u, senders[u]>>
  <2>1. CASE cached = None
    BY <2>1
  <2>2. CASE cached # None
    <3>1. cached = snk.cached /\ snk.cached # None /\ snk.cached[1] # t
      BY <1>1, <2>2
    <3>2. PICK u \in SrcTable : snk.senders[u] # 0 /\ snk.cached = <<u, snk.senders[u]>>
      BY <1>0, <3>1 DEF SinkParts
    <3>3. u # t
      BY <3>1, <3>2
    <3>4. senders[u] = snk.senders[u]
      BY <1>1, <3>3, SMTT(30)
    <3> QED BY <3>1, <3>2, <3>4
  <2> QED BY <2>1, <2>2
<1>4. SinkParts(senders, snk.streaming, snk.main, cached, snk.lastKey)
  BY <1>0, <1>3 DEF SinkParts
<1>5. KeepsTouched
  BY <1>2 DEF KeepsTouched, TouchedAt
<1> QED BY <1>0, <1>1, <1>2, <1>4, <1>5 DEF SinkFollows, HasParts

(* A table in no transaction is touched by none.                             *)
LEMMA OutOfTransaction ==
  ASSUME SinkFollows, NEW t, ~InTransaction(t), NEW x \in AnyXid PROVE t \notin TouchedAt(x)
<1>1. Range(<<>>) = {}
  BY DEF Range
<1> QED BY <1>1 DEF TouchedAt, TouchedIn, InTransaction, AnyXid

(* What a command leaves to show: the sink, the schemas, and each table.     *)
LEMMA CommandFollowed ==
  ASSUME WInv, loop.state = "up", loop'.state = "up", batch = <<>>, FaultsStay, UNCHANGED <<plan, server, batch>>,
         WholeCommits', SinkFollows', SchemasFollow',
         \A s, u : u \in SrcTable /\ ~Spoilt(u)' /\ Follows(s, u) => Follows(s, u)'
  PROVE  WInv'
<1>1. DOMAIN batch = {}
  <2>1. batch = <<>>
    OBVIOUS
  <2> QED BY ONLY <2>1
<1>2. BatchFollows'
  BY <1>1 DEF BatchFollows
<1>3. Pending' = Pending
  BY DEF Pending
<1>4. ASSUME Undisturbed'
      PROVE  \E s \in Nat : InOrder(s)' /\ \A u \in SrcTable : Spoilt(u)' \/ Follows(s, u)'
  <2>1. PICK s \in Nat : InOrder(s) /\ \A u \in SrcTable : Spoilt(u) \/ Follows(s, u)
    BY <1>4, SpoiltStays, Zenon DEF WInv, TablesFollow
  <2>2. InOrder(s)'
    BY <1>3, <2>1, OrderStays
  <2>3. \A u \in SrcTable : Spoilt(u) => Spoilt(u)'
    BY SpoiltStays
  <2> QED BY <2>1, <2>2, <2>3, SMTT(30)
<1>5. TablesFollow'
  BY <1>4 DEF TablesFollow
<1> QED BY <1>2, <1>5 DEF WInv

(* A command: a table that is added received nothing, and nothing of it is   *)
(* open, or rows of it were missed.                                          *)
LEMMA AddTableFollows ==
  ASSUME IInv, WInv, loop.state = "up", batch = <<>>, UNCHANGED <<plan, server, batch>>, NEW t \in SrcTable, NEW cols \in Nat,
         NEW rest, cols # 0,
         tabs' = [tabs EXCEPT ![t] = Append(@, NewTab)], snk' = AddToSink(t, Len(tabs[t]) + 1, cols),
         loop.schemas[t] = 0, loop' = [loop EXCEPT !.commands = rest, !.schemas[t] = cols],
         faults' = IF InTransaction(t) THEN faults \cup {<<"missed", t>>} ELSE faults
  PROVE  WInv'
<1>1. PICK n : n = Len(tabs[t]) + 1
  OBVIOUS
<1>2. /\ snk.senders \in [SrcTable -> Nat] /\ snk.senders[t] = 0 /\ SinkFollows /\ n \in Nat /\ n # 0
      /\ loop.schemas \in Schemas
  BY <1>1, GotIsSeq DEF IInv, TypeInv, SinkInv, LoopInv, WInv, SchemasFollow
<1>3. SinkFollows' /\ KeepsTouched /\ snk'.senders = [snk.senders EXCEPT ![t] = n]
  BY <1>1, <1>2, AddToSinkFollows
<1>4. snk'.senders[t] = n /\ \A u \in SrcTable : u # t => snk'.senders[u] = snk.senders[u]
  BY <1>2, <1>3
<1>5. FaultsStay
  BY DEF FaultsStay
<1>6. WholeCommits' /\ tabs'[t][n].got = <<>> /\ \A u \in SrcTable : u # t => tabs'[u] = tabs[u]
  BY <1>1, <1>5, AddKeepsCommits, Zenon DEF WInv
<1>7. loop'.state = "up" /\ loop'.schemas = [loop.schemas EXCEPT ![t] = cols]
  BY DEF IInv, TypeInv, LoopInv
<1>8. SchemasFollow'
  <2>1. \A u \in SrcTable : loop'.schemas[u] = IF u = t THEN cols ELSE loop.schemas[u]
    BY <1>2, <1>7 DEF Schemas
  <2> QED BY <1>4, <1>7, <2>1 DEF WInv, SchemasFollow
<1>9. Pending' = Pending
  BY DEF Pending
<1>10. ASSUME NEW s, NEW u \in SrcTable, ~Spoilt(u)', Follows(s, u) PROVE Follows(s, u)'
  <2>1. CASE u # t
    <3>1. snk'.senders[u] # 0 => snk.senders[u] # 0 /\ Got(u)' = Got(u)
      BY <1>4, <1>6, <2>1 DEF Got
    <3> QED BY <1>3, <1>9, <1>10, <3>1, FollowsStays DEF KeepsTouched
  <2>2. CASE u = t
    <3>1. ~InTransaction(t)
      BY <1>10, <2>2 DEF Spoilt
    <3>2. ASSUME NEW x \in AnyXid PROVE OpenAt(s, t, x)' = {}
      <4>1. OpenAt(s, t, x) = {}
        BY <1>2, <1>10, <2>2, <3>1, OutOfTransaction DEF Follows
      <4> QED BY <1>9, <4>1 DEF OpenAt, Passed
    <3>3. Got(t)' = <<>>
      BY <1>4, <1>6, Zenon DEF Got
    <3>4. ASSUME NEW x PROVE Unended(<<>>, x) = {}
      BY DEF Unended
    <3> QED BY <2>2, <3>2, <3>3, <3>4, ExactlyNothing, Zenon DEF Follows
  <2> QED BY <2>1, <2>2
<1> QED BY <1>3, <1>5, <1>6, <1>7, <1>8, <1>10, CommandFollowed

(* A table that is dropped receives nothing any more.                        *)
LEMMA DropTableFollows ==
  ASSUME IInv, WInv, loop.state = "up", batch = <<>>, UNCHANGED <<plan, server, batch, tabs, faults>>, NEW t \in SrcTable,
         NEW rest, snk' = DropFromSink(t), loop' = [loop EXCEPT !.commands = rest, !.schemas[t] = 0]
  PROVE  WInv'
<1>1. snk.senders \in [SrcTable -> Nat] /\ SinkFollows /\ loop.schemas \in Schemas /\ FaultsStay
  BY DEF IInv, TypeInv, SinkInv, LoopInv, WInv, FaultsStay
<1>2. SinkFollows' /\ KeepsTouched /\ snk'.senders = [snk.senders EXCEPT ![t] = 0]
  BY <1>1, DropFromSinkFollows
<1>3. snk'.senders[t] = 0 /\ \A u \in SrcTable : u # t => snk'.senders[u] = snk.senders[u]
  BY <1>1, <1>2
<1>4. loop'.state = "up" /\ loop'.schemas = [loop.schemas EXCEPT ![t] = 0]
  BY DEF IInv, TypeInv, LoopInv
<1>5. SchemasFollow'
  <2>1. \A u \in SrcTable : loop'.schemas[u] = IF u = t THEN 0 ELSE loop.schemas[u]
    BY <1>1, <1>4 DEF Schemas
  <2> QED BY <1>3, <1>4, <2>1 DEF WInv, SchemasFollow
<1>6. WholeCommits'
  BY <1>1, CommitsStay DEF WInv
<1>7. Pending' = Pending
  BY DEF Pending
<1>8. ASSUME NEW s, NEW u \in SrcTable, ~Spoilt(u)', Follows(s, u) PROVE Follows(s, u)'
  <2>1. snk'.senders[u] # 0 => snk.senders[u] # 0 /\ Got(u)' = Got(u)
    BY <1>3, SMTT(30) DEF Got
  <2> QED BY <1>2, <1>7, <1>8, <2>1, FollowsStays DEF KeepsTouched
<1> QED BY <1>1, <1>2, <1>4, <1>5, <1>6, <1>8, CommandFollowed

(* Every command keeps the tables in line.                                   *)
LEMMA CommandFollows ==
  ASSUME IInv, WInv, Command PROVE WInv'
<1>1. PICK c, t, rest : c = Head(loop.commands) /\ t = c.table /\ rest = Tail(loop.commands)
  BY Zenon
<1>2. loop.state = "up" /\ batch = <<>> /\ UNCHANGED <<plan, server, batch>> /\ loop.commands # <<>>
  BY DEF Command, Idle
<1>3. c \in CommandRec
  BY <1>1, <1>2, HeadOfCommands
<1>4. t \in SrcTable /\ c.cols \in Nat /\ (c.type = "AddTable" => c.cols # 0)
  BY <1>1, <1>3 DEF CommandRec
<1>5. CASE /\ c.type = "AddTable"
           /\ tabs' = [tabs EXCEPT ![t] = Append(@, NewTab)]
           /\ snk' = AddToSink(t, Len(tabs[t]) + 1, c.cols)
           /\ IF loop.schemas[t] # 0 THEN Panic({})
              ELSE /\ loop' = [loop EXCEPT !.commands = rest, !.schemas[t] = c.cols]
                   /\ faults' = IF InTransaction(t) THEN faults \cup {<<"missed", t>>} ELSE faults
  <2>1. CASE loop.schemas[t] # 0
    <3>1. loop'.state = "panicked" /\ UNCHANGED faults
      BY <1>5, <2>1 DEF Panic, IInv, TypeInv, LoopInv
    <3>2. FaultsStay
      BY <3>1 DEF FaultsStay
    <3>3. WholeCommits'
      BY <1>2, <1>4, <1>5, <3>2, AddKeepsCommits, ZenonT(60) DEF WInv
    <3>4. BatchFollows'
      BY <1>2, <3>1 DEF WInv, BatchFollows, Undisturbed
    <3> QED BY <3>1, <3>3, <3>4 DEF WInv
  <2>2. CASE loop.schemas[t] = 0
    BY <1>2, <1>4, <1>5, <2>2, AddTableFollows, ZenonT(60)
  <2> QED BY <2>1, <2>2
<1>6. CASE /\ snk' = DropFromSink(t) /\ UNCHANGED tabs
           /\ IF snk.senders[t] = 0 \/ loop.schemas[t] = 0 THEN Panic({})
              ELSE loop' = [loop EXCEPT !.commands = rest, !.schemas[t] = 0] /\ UNCHANGED faults
  <2>1. CASE snk.senders[t] = 0 \/ loop.schemas[t] = 0
    <3>1. loop'.state = "panicked" /\ FaultsStay
      BY <1>6, <2>1, SMTT(30) DEF Panic, IInv, TypeInv, LoopInv, FaultsStay
    <3> QED BY <1>2, <1>6, <3>1, EndedFollows
  <2>2. CASE ~(snk.senders[t] = 0 \/ loop.schemas[t] = 0)
    BY <1>2, <1>4, <1>6, <2>2, DropTableFollows, ZenonT(60)
  <2> QED BY <2>1, <2>2
<1>7. CASE loop' = [loop EXCEPT !.commands = rest, !.state = "stopped"] /\ UNCHANGED <<snk, tabs, faults>>
  <2>1. loop'.state = "stopped" /\ FaultsStay
    BY <1>7 DEF IInv, TypeInv, LoopInv, FaultsStay
  <2> QED BY <1>2, <1>7, <2>1, EndedFollows
<1> QED BY <1>1, <1>5, <1>6, <1>7, ZenonT(60) DEF Command
-----------------------------------------------------------------------------
(* Before the first connection no table is there.                            *)
LEMMA InitFollows == StreamInit => WInv
<1> SUFFICES ASSUME StreamInit PROVE WInv
  OBVIOUS
<1>1. DOMAIN batch = {}
  <2>1. batch = <<>>
    BY DEF StreamInit
  <2> QED BY <2>1
<1>2. loop.state = "down"
  BY DEF StreamInit
<1>3. BatchFollows
  BY <1>1 DEF BatchFollows
<1>4. \A t \in SrcTable : snk.senders[t] = 0
  BY DEF StreamInit, NewSink
<1>5. SinkFollows
  <2>1. NoTransaction \in Transaction /\ Remembers(NoTransaction)
    BY SMTT(30) DEF NoTransaction, Transaction, Remembers
  <2>2. /\ snk.main = NoTransaction /\ snk.streaming = [x \in Xid |-> None] /\ snk.lastKey = None
        /\ snk.cached = None /\ HasParts
    BY DEF StreamInit, NewSink, HasParts
  <2> QED BY <2>1, <2>2 DEF SinkFollows, SinkParts
<1>6. SchemasFollow /\ TablesFollow
  BY <1>2, <1>4 DEF SchemasFollow, TablesFollow
<1>7. WholeCommits
  <2>1. ASSUME NEW t \in SrcTable PROVE DOMAIN tabs[t] = {}
    <3>1. tabs[t] = <<>>
      BY DEF StreamInit
    <3> QED BY <3>1
  <2> QED BY <2>1 DEF WholeCommits
<1> QED BY <1>3, <1>5, <1>6, <1>7 DEF WInv

(* Every step keeps the tables in line with the wire.                        *)
LEMMA NextFollows == IInv /\ IInv' /\ WInv /\ [StreamNext]_streamVars => WInv'
<1> SUFFICES ASSUME IInv, IInv', WInv, [StreamNext]_streamVars PROVE WInv'
  OBVIOUS
<1>1. CASE UNCHANGED streamVars
  <2>1. /\ UNCHANGED <<plan, loop, batch, snk, faults, tabs>> /\ server'.queue = server.queue
    BY <1>1 DEF streamVars
  <2>2. Delivered({}, None)
    BY <2>1, NothingDelivered
  <2> QED BY <2>1, <2>2, Unmoved
<1>2. CASE StreamProgress
  <2>1. ASSUME NEW k \in 1 .. MaxEventsPerWake, NextBatch(k) PROVE WInv'
    <3>1. k \in Int
      OBVIOUS
    <3> QED BY <2>1, <3>1, NextBatchFollows
  <2> QED BY <1>2, <2>1, ConnectFollows, CommandFollows, ProcessEventFollows, SendStatusFollows, FlushFollows
          DEF StreamProgress
<1>3. CASE ConnectFails \/ FetchFails \/ Disconnect \/ \E t \in SrcTable : FlushTableWal(t)
  BY <1>3, ConnectFailsFollows, FetchFailsFollows, DisconnectFollows, FlushFollows
<1> QED BY <1>1, <1>2, <1>3 DEF StreamNext

(* A table commits whole transactions, every row the source wrote to it, in  *)
(* order, with every column (process_cdc_event, next_batch_msgs):            *)
(* WholeCommits, for any wire that Postgres may send, streamed transactions  *)
(* among others, any batches, commands, breaks of the connection and errors, *)
(* but for the faults that its statement names.                              *)
THEOREM TablesCommitWholeTransactions == StreamSpec => []WholeCommits
<1>1. StreamInit => IInv /\ WInv
  BY InitEstablishes, InitFollows
<1>2. IInv /\ WInv /\ [StreamNext]_streamVars => IInv' /\ WInv'
  BY NextPreserves, NextFollows
<1>3. WInv => WholeCommits
  BY DEF WInv
<1> QED BY <1>1, <1>2, <1>3, PTL DEF StreamSpec
=============================================================================
