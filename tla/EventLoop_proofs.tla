--------------------------- MODULE EventLoop_proofs ---------------------------
(***************************************************************************)
(* Proofs about EventLoop: whatever the wire, the commands, the batches of *)
(* a wake and the breaks of the connection, the slot is never confirmed    *)
(* past a transaction that a table was given and has not made durable.     *)
(* Then the lemmas on single events that WholeCommits_proofs rests on.     *)
(***************************************************************************)
EXTENDS EventLoop, WellFoundedInduction, TLAPS, SequenceTheorems

(* A set of naturals has a smallest element.                                 *)
LEMMA NatHasMin ==
  ASSUME NEW S \in SUBSET Nat, S # {}
  PROVE  \E x \in S : \A y \in S : x <= y
<1>1. PICK x \in S : \A y \in S : <<y, x>> \notin OpToRel(<, Nat)
  BY NatLessThanWellFounded, WFMin
<1>2. ASSUME NEW y \in S PROVE x <= y
  <2>1. <<y, x>> \in Nat \X Nat
    OBVIOUS
  <2>2. ~(y < x)
    BY <1>1, <2>1 DEF OpToRel
  <2> QED BY <2>2
<1> QED BY <1>2

(* Max picks the largest element of a set that has a bound.                  *)
LEMMA MaxOfBounded ==
  ASSUME NEW S \in SUBSET Nat, S # {}, NEW n \in Nat, \A y \in S : y <= n
  PROVE  Max(S) \in S /\ \A y \in S : y <= Max(S)
<1> DEFINE U == {b \in Nat : \A y \in S : y <= b}
<1>1. PICK b \in U : \A c \in U : b <= c
  <2>1. U # {} /\ U \in SUBSET Nat
    OBVIOUS
  <2> QED BY <2>1, NatHasMin, Zenon
<1>2. b \in S
  <2>1. SUFFICES ASSUME b \notin S PROVE FALSE
    OBVIOUS
  <2>2. PICK y \in S : TRUE
    BY Zenon
  <2>3. y <= b /\ y # b /\ y \in Nat
    BY <2>1
  <2>4. b - 1 \in U
    BY <2>1, <2>3
  <2> QED BY <1>1, <2>4
<1>3. \E x \in S : \A y \in S : x >= y
  BY <1>2
<1>4. Max(S) \in S /\ \A y \in S : Max(S) >= y
  BY <1>3, Zenon DEF Max
<1> QED BY <1>4

(* Min picks the smallest element.                                           *)
LEMMA MinOfNats ==
  ASSUME NEW S \in SUBSET Nat, S # {}
  PROVE  Min(S) \in S /\ \A y \in S : Min(S) <= y
BY NatHasMin, Zenon DEF Min

(* The larger of two.                                                        *)
LEMMA MaxOfTwo ==
  ASSUME NEW m \in Nat, NEW n \in Nat
  PROVE  /\ Max({m, n}) \in {m, n}
         /\ m <= Max({m, n}) /\ n <= Max({m, n})
<1>1. \E b \in Nat : \A y \in {m, n} : y <= b
  <2>1. CASE m <= n
    BY <2>1
  <2>2. CASE ~(m <= n)
    BY <2>2
  <2> QED BY <2>1, <2>2
<1> QED BY <1>1, MaxOfBounded
-----------------------------------------------------------------------------

EventType == {"Append", "Delete", "DeleteAppend", "Commit", "StreamAbort", "AlterTable"}

Event == [type : EventType, msg : Message, cols : Nat, place : Nat]

Tab == [got : Seq(Event), flush : Nat, wal : Nat, since : Nat]

Schemas == [SrcTable -> Nat]

CommandRec ==
  {c \in [type : STRING, table : SrcTable, cols : Nat] : c.type = "AddTable" => c.cols > 0}

(* A message of the wire, as it is converted *)
KnownTable(m) == m.type \in RowTypes \cup {"Relation"} => m.table \in SrcTable

EventKind == {"MissingSchema", "MessageNotSupported", "Panic", "Error", "Ok"}

IsConverted(e) == /\ e \in [kind : EventKind, msg : Message, cols : Nat, place : Nat]
                  /\ KnownTable(e.msg)

BatchInv ==
  /\ batch = [i \in DOMAIN batch |-> batch[i]]
  /\ DOMAIN batch \in SUBSET Nat
  /\ \A i \in DOMAIN batch : IsConverted(batch[i])

SinkInv ==
  /\ "senders" \in DOMAIN snk
  /\ snk.senders \in [SrcTable -> Nat]
  /\ \A t \in SrcTable : snk.senders[t] <= Len(tabs[t])

LoopInv ==
  loop \in [state : {"down", "up", "failed", "stopped", "panicked"},
           commands : Seq(CommandRec), schemas : Schemas, saved : Schemas]

TypeInv ==
  /\ plan \in StreamScenarios
  /\ server \in [confirmed : Nat, queue : SUBSET DOMAIN plan.wire]
  /\ tabs \in [SrcTable -> Seq(Tab)]
  /\ LoopInv
  /\ BatchInv
  /\ SinkInv

(* A table has received finitely many commits, so there is a last one *)
LsnsBounded(tb) == \E b \in Nat : \A i \in 1 .. Len(tb.got) : tb.got[i].msg.lsn <= b

Bounded == \A t \in SrcTable : \A g \in 1 .. Len(tabs[t]) : LsnsBounded(tabs[t][g])

(* A table is durable as far as the slot is confirmed, or was not there when *)
(* it was confirmed                                                          *)
DurableTo(tb, lsn) == lsn <= tb.since \/ lsn <= tb.flush \/ lsn <= tb.wal

Confirmed ==
  \A t \in Registered : DurableTo(tabs[t][snk.senders[t]], server.confirmed)

IInv == TypeInv /\ Bounded /\ Confirmed
-----------------------------------------------------------------------------
(* What the assumptions say of the scenario that is run.                     *)
LEMMA PlanFacts ==
  ASSUME plan \in StreamScenarios
  PROVE  /\ plan.wire \in Seq(Message) /\ DOMAIN plan.wire \in SUBSET Nat
         /\ \A i \in DOMAIN plan.wire : plan.wire[i] \in Message /\ KnownTable(plan.wire[i])
         /\ plan.commands \in Seq(CommandRec)
         /\ plan.columns \in Schemas
<1>1. /\ plan.wire \in Seq(Message) /\ plan.columns \in Schemas
      /\ plan.commands \in Seq([type : STRING, table : SrcTable, cols : Nat])
      /\ \A i \in DOMAIN plan.wire : KnownTable(plan.wire[i])
  BY StreamAssumption, Zenon DEF Schemas, KnownTable
<1>2. DOMAIN plan.wire = 1 .. Len(plan.wire) /\ Len(plan.wire) \in Nat
  BY <1>1
<1>3. plan.commands \in Seq(CommandRec)
  <2>1. PICK R : R = [type : STRING, table : SrcTable, cols : Nat]
    BY Zenon
  <2>2. PICK commands \in Seq(R) : commands = plan.commands
    BY <1>1, <2>1
  <2>3. /\ DOMAIN commands = 1 .. Len(commands) /\ Len(commands) \in Nat
        /\ commands = [i \in 1 .. Len(commands) |-> commands[i]]
    BY <2>2, LenProperties, SeqDef
  <2>4. \A i \in 1 .. Len(commands) : commands[i] \in CommandRec
    <3>1. \A i \in DOMAIN commands : commands[i].type = "AddTable" => commands[i].cols > 0
      BY <2>2, ColumnsAssumption
    <3>2. \A i \in 1 .. Len(commands) : commands[i] \in R
      BY <2>2, ElementOfSeq
    <3> QED BY <2>1, <2>3, <3>1, <3>2 DEF CommandRec
  <2>5. commands \in [1 .. Len(commands) -> CommandRec]
    BY <2>3, <2>4
  <2>6. commands \in Seq(CommandRec)
    BY <2>3, <2>5, SeqDef
  <2> QED BY <2>2, <2>6
<1> QED BY <1>1, <1>2, <1>3, ElementOfSeq

(* A batch that is not empty has a next event, the first of the wire.        *)
LEMMA NextOfBatch ==
  ASSUME BatchInv, batch # <<>>
  PROVE  Min(DOMAIN batch) \in DOMAIN batch /\ IsConverted(NextEvent)
<1>1. DOMAIN batch # {}
  <2>1. SUFFICES ASSUME DOMAIN batch = {} PROVE batch = <<>>
    OBVIOUS
  <2>2. batch \in [1 .. 0 -> Nat]
    BY <2>1 DEF BatchInv
  <2>3. batch \in Seq(Nat)
    BY <2>2, SeqDef
  <2>4. Len(batch) = 0
    BY <2>2, <2>3, LenProperties
  <2> QED BY <2>3, <2>4, EmptySeq
<1>2. Min(DOMAIN batch) \in DOMAIN batch
  BY <1>1, MinOfNats DEF BatchInv
<1> QED BY <1>2 DEF BatchInv, NextEvent

(* What is left of it is a batch.                                            *)
LEMMA RestIsBatch ==
  ASSUME BatchInv, batch' = <<>> \/ batch' = RestOfBatch
  PROVE  BatchInv'
<1>1. CASE batch' = <<>>
  <2>1. DOMAIN batch' = {}
    BY <1>1
  <2>2. batch' = [i \in DOMAIN batch' |-> batch'[i]]
    BY <1>1
  <2> QED BY <2>1, <2>2 DEF BatchInv
<1>2. CASE batch' = RestOfBatch
  <2>1. batch' = [i \in DOMAIN batch \ {Min(DOMAIN batch)} |-> batch[i]]
    BY <1>2 DEF RestOfBatch, Restrict
  <2>2. DOMAIN batch' = DOMAIN batch \ {Min(DOMAIN batch)}
    BY <2>1
  <2>3. \A i \in DOMAIN batch' : batch'[i] = batch[i]
    BY <2>1, <2>2
  <2> QED BY <2>1, <2>2, <2>3 DEF BatchInv, IsConverted
<1> QED BY <1>1, <1>2

(* A table that receives an event is still a table, as durable as it was.    *)
LEMMA ReceivedIsTab ==
  ASSUME NEW tb \in Tab, LsnsBounded(tb), NEW e \in Event
  PROVE  /\ Received(tb, e) \in Tab
         /\ Received(tb, e).got = Append(tb.got, e)
         /\ LsnsBounded(Received(tb, e))
         /\ Received(tb, e).flush = tb.flush /\ Received(tb, e).wal = tb.wal
         /\ Received(tb, e).since = tb.since
<1>1. tb.got \in Seq(Event) /\ Append(tb.got, e) \in Seq(Event)
  BY AppendProperties DEF Tab
<1>2. /\ Received(tb, e) \in Tab
      /\ Received(tb, e).got = Append(tb.got, e)
      /\ Received(tb, e).flush = tb.flush /\ Received(tb, e).wal = tb.wal
      /\ Received(tb, e).since = tb.since
  BY <1>1 DEF Received, Tab
<1>3. PICK c \in Nat : \A i \in 1 .. Len(tb.got) : tb.got[i].msg.lsn <= c
  BY Zenon DEF LsnsBounded
<1>4. e.msg.lsn \in Nat
  BY DEF Event, Message
<1>5. PICK m \in Nat : e.msg.lsn <= m /\ c <= m
  <2>1. CASE e.msg.lsn <= c
    BY <2>1
  <2>2. CASE ~(e.msg.lsn <= c)
    BY <1>4, <2>2
  <2> QED BY <2>1, <2>2
<1>6. ASSUME NEW i \in 1 .. Len(Append(tb.got, e))
      PROVE  Append(tb.got, e)[i].msg.lsn <= m
  <2>1. Len(tb.got) \in Nat /\ Len(Append(tb.got, e)) = Len(tb.got) + 1
    BY <1>1, AppendProperties, LenProperties
  <2>2. CASE i \in 1 .. Len(tb.got)
    <3>1. Append(tb.got, e)[i] = tb.got[i] /\ tb.got[i] \in Event
      BY <1>1, <2>2, AppendProperties, ElementOfSeq
    <3>2. tb.got[i].msg.lsn <= c /\ tb.got[i].msg.lsn \in Nat
      BY <2>2, <3>1, <1>3 DEF Event, Message
    <3> QED BY <3>1, <3>2, <1>5
  <2>3. CASE i = Len(tb.got) + 1
    <3>1. Append(tb.got, e)[i] = e
      BY <1>1, <2>3, AppendProperties
    <3> QED BY <3>1, <1>5
  <2> QED BY <2>1, <2>2, <2>3
<1> QED BY <1>2, <1>5, <1>6, Zenon DEF LsnsBounded

(* A table event made of a converted message is an event.                    *)
LEMMA TableEventIsEvent ==
  ASSUME NEW e, e.msg \in Message, e.cols \in Nat, e.place \in Nat, NEW type \in EventType
  PROVE  /\ TableEvent(type, e) \in Event
         /\ TableEvent(type, e).msg = e.msg /\ TableEvent(type, e).place = e.place
         /\ TableEvent(type, e).type = type /\ TableEvent(type, e).cols = e.cols
BY DEF TableEvent, Event

(* The event of a row.                                                       *)
LEMMA RowEventIsEvent ==
  ASSUME NEW e, IsConverted(e), IsRow(e.msg)
  PROVE  /\ RowEvent(e) \in Event
         /\ RowEvent(e).msg = e.msg /\ RowEvent(e).place = e.place
         /\ RowEvent(e).cols = e.cols /\ RowEvent(e).type \in {"Append", "Delete", "DeleteAppend"}
<1>1. PICK type \in {"Append", "Delete", "DeleteAppend"} : RowEvent(e) = TableEvent(type, e)
  BY DEF RowEvent, IsRow, RowTypes
<1>2. e.msg \in Message /\ e.cols \in Nat /\ e.place \in Nat /\ type \in EventType
  BY DEF IsConverted, EventType
<1> QED BY <1>1, <1>2, TableEventIsEvent

(* The step adds events to registrations of tables and makes more of them    *)
(* durable; it registers none.                                               *)
Grows(old, new) ==
  /\ Len(new) = Len(old)
  /\ \A g \in 1 .. Len(old) : /\ LsnsBounded(new[g])
                              /\ new[g].since = old[g].since
                              /\ old[g].flush <= new[g].flush /\ old[g].wal <= new[g].wal

TabsGrow == tabs' \in [SrcTable -> Seq(Tab)] /\ \A t \in SrcTable : Grows(tabs[t], tabs'[t])

(* It keeps the senders, or drops some.                                      *)
SendersKept ==
  /\ "senders" \in DOMAIN snk'
  /\ snk'.senders \in [SrcTable -> Nat]
  /\ \A t \in SrcTable : snk'.senders[t] \in {0, snk.senders[t]}

(* Such a step keeps the invariant, unless it moves the slot.                *)
LEMMA GrowingKeeps ==
  ASSUME IInv, TabsGrow, SendersKept, server'.confirmed = server.confirmed
  PROVE  tabs' \in [SrcTable -> Seq(Tab)] /\ SinkInv' /\ Bounded' /\ Confirmed'
<1>0. TypeInv /\ SinkInv /\ Confirmed
  BY DEF IInv, TypeInv
<1>1. SinkInv'
  <2> SUFFICES ASSUME NEW t \in SrcTable PROVE snk'.senders[t] <= Len(tabs'[t])
    BY DEF SendersKept, SinkInv
  <2>1. Len(tabs[t]) \in Nat /\ snk.senders[t] \in Nat
    BY <1>0, LenProperties DEF SinkInv, TypeInv
  <2>2. snk.senders[t] <= Len(tabs[t])
    BY <1>0 DEF SinkInv
  <2>3. snk'.senders[t] \in {0, snk.senders[t]} /\ Len(tabs'[t]) = Len(tabs[t])
    BY DEF SendersKept, TabsGrow, Grows
  <2> QED BY <2>1, <2>2, <2>3
<1>2. Bounded'
  BY DEF TabsGrow, Grows, Bounded
<1>3. Confirmed'
  <2> SUFFICES ASSUME NEW t \in SrcTable, snk'.senders[t] # 0
               PROVE  DurableTo(tabs'[t][snk'.senders[t]], server.confirmed)
    BY DEF Confirmed, Registered, DurableTo
  <2>1. snk'.senders[t] = snk.senders[t] /\ snk.senders[t] # 0
    BY DEF SendersKept
  <2> DEFINE g == snk.senders[t]
  <2>2. g \in 1 .. Len(tabs[t]) /\ Len(tabs[t]) \in Nat
    BY <1>0, <2>1, LenProperties DEF SinkInv, TypeInv
  <2>3. tabs[t][g] \in Tab /\ tabs'[t][g] \in Tab
    <3>1. Len(tabs'[t]) = Len(tabs[t]) /\ tabs'[t] \in Seq(Tab)
      BY DEF TabsGrow, Grows
    <3> QED BY <1>0, <2>2, <3>1, ElementOfSeq DEF TypeInv
  <2>4. DurableTo(tabs[t][g], server.confirmed)
    BY <1>0, <2>1 DEF Confirmed, Registered
  <2>5. /\ tabs'[t][g].since = tabs[t][g].since
        /\ tabs[t][g].flush <= tabs'[t][g].flush /\ tabs[t][g].wal <= tabs'[t][g].wal
    BY <2>2 DEF TabsGrow, Grows
  <2>6. server.confirmed \in Nat
    BY <1>0 DEF TypeInv
  <2> HIDE DEF g
  <2>7. /\ tabs[t][g].flush \in Nat /\ tabs'[t][g].flush \in Nat
        /\ tabs[t][g].wal \in Nat /\ tabs'[t][g].wal \in Nat
    BY <2>3 DEF Tab
  <2>8. DurableTo(tabs'[t][g], server.confirmed)
    BY <2>4, <2>5, <2>6, <2>7 DEF DurableTo
  <2> QED BY <2>1, <2>8 DEF g
<1> QED BY <1>1, <1>2, <1>3 DEF TabsGrow

(* Tables that stay as they are.                                             *)
LEMMA SameTabsGrow ==
  ASSUME IInv, UNCHANGED tabs
  PROVE  TabsGrow
<1> SUFFICES ASSUME NEW t \in SrcTable, NEW g \in 1 .. Len(tabs[t])
             PROVE  /\ LsnsBounded(tabs[t][g])
                    /\ tabs[t][g].flush <= tabs[t][g].flush /\ tabs[t][g].wal <= tabs[t][g].wal
  BY DEF TabsGrow, Grows, IInv, TypeInv
<1>1. tabs[t][g] \in Tab
  BY ElementOfSeq DEF IInv, TypeInv
<1> QED BY <1>1 DEF Tab, IInv, Bounded

(* One table changes.                                                        *)
LEMMA OthersGrow ==
  ASSUME IInv, NEW t \in SrcTable, NEW new, new \in Seq(Tab), Grows(tabs[t], new),
         tabs' = [tabs EXCEPT ![t] = new]
  PROVE  TabsGrow
<1>1. tabs \in [SrcTable -> Seq(Tab)]
  BY DEF IInv, TypeInv
<1>2. tabs' \in [SrcTable -> Seq(Tab)]
  BY <1>1
<1>3. ASSUME NEW u \in SrcTable PROVE Grows(tabs[u], tabs'[u])
  <2>1. CASE u = t
    BY <1>1, <2>1
  <2>2. CASE u # t
    <3>1. tabs'[u] = tabs[u]
      BY <1>1, <2>2
    <3>2. \A g \in 1 .. Len(tabs[u]) : tabs[u][g] \in Tab
      BY <1>1, ElementOfSeq
    <3> QED BY <3>1, <3>2 DEF Grows, Tab, IInv, Bounded
  <2> QED BY <2>1, <2>2
<1> QED BY <1>2, <1>3 DEF TabsGrow

(* One registration changes, to a table that has received more or is more    *)
(* durable.                                                                  *)
LEMMA OneTabGrows ==
  ASSUME IInv, NEW t \in SrcTable, NEW g, NEW tb,
         g \in 1 .. Len(tabs[t]) =>
           /\ tb \in Tab /\ LsnsBounded(tb) /\ tb.since = tabs[t][g].since
           /\ tabs[t][g].flush <= tb.flush /\ tabs[t][g].wal <= tb.wal
  PROVE  /\ [tabs[t] EXCEPT ![g] = tb] \in Seq(Tab)
         /\ Grows(tabs[t], [tabs[t] EXCEPT ![g] = tb])
<1>1. tabs[t] \in Seq(Tab) /\ Len(tabs[t]) \in Nat /\ DOMAIN tabs[t] = 1 .. Len(tabs[t])
  BY LenProperties DEF IInv, TypeInv
<1> DEFINE new == [tabs[t] EXCEPT ![g] = tb]
<1>2. \A h \in 1 .. Len(tabs[t]) :
         /\ tabs[t][h] \in Tab /\ LsnsBounded(tabs[t][h])
         /\ tabs[t][h].flush \in Nat /\ tabs[t][h].wal \in Nat
  <2> SUFFICES ASSUME NEW h \in 1 .. Len(tabs[t]) PROVE tabs[t][h] \in Tab /\ LsnsBounded(tabs[t][h])
    BY DEF Tab
  <2> QED BY <1>1, ElementOfSeq DEF IInv, Bounded
<1>3. new \in [1 .. Len(tabs[t]) -> Tab]
  BY <1>1, <1>2, Zenon
<1>4. new \in Seq(Tab)
  BY <1>1, <1>3, SeqDef
<1>5. Len(new) = Len(tabs[t])
  BY <1>1, <1>3, <1>4, LenProperties
<1>6. ASSUME NEW h \in 1 .. Len(tabs[t])
      PROVE  /\ LsnsBounded(new[h])
             /\ new[h].since = tabs[t][h].since
             /\ tabs[t][h].flush <= new[h].flush /\ tabs[t][h].wal <= new[h].wal
  <2>1. new[h] = IF h = g THEN tb ELSE tabs[t][h]
    BY <1>1
  <2> HIDE DEF new
  <2> QED BY <2>1, <1>2
<1> HIDE DEF new
<1>7. new \in Seq(Tab) /\ Grows(tabs[t], new)
  BY <1>4, <1>5, <1>6 DEF Grows
<1> QED BY <1>7 DEF new

(* An event for one registration.                                            *)
LEMMA ReceivingGrows ==
  ASSUME IInv, NEW t \in SrcTable, NEW g, NEW e \in Event
  PROVE  /\ [tabs[t] EXCEPT ![g] = Received(@, e)] \in Seq(Tab)
         /\ Grows(tabs[t], [tabs[t] EXCEPT ![g] = Received(@, e)])
<1> DEFINE tb == Received(tabs[t][g], e)
<1>1. ASSUME g \in 1 .. Len(tabs[t])
      PROVE  /\ tb \in Tab /\ LsnsBounded(tb) /\ tb.since = tabs[t][g].since
             /\ tabs[t][g].flush <= tb.flush /\ tabs[t][g].wal <= tb.wal
  <2>1. tabs[t][g] \in Tab /\ LsnsBounded(tabs[t][g])
    BY <1>1, ElementOfSeq DEF IInv, TypeInv, Bounded
  <2>2. /\ tb \in Tab /\ LsnsBounded(tb) /\ tb.since = tabs[t][g].since
        /\ tb.flush = tabs[t][g].flush /\ tb.wal = tabs[t][g].wal
    BY <2>1, ReceivedIsTab
  <2> HIDE DEF tb
  <2> QED BY <2>1, <2>2 DEF Tab
<1> HIDE DEF tb
<1>2. [tabs[t] EXCEPT ![g] = tb] \in Seq(Tab) /\ Grows(tabs[t], [tabs[t] EXCEPT ![g] = tb])
  BY <1>1, OneTabGrows, Zenon
<1> QED BY <1>2 DEF tb

(* A step of neither the server nor the set of registered tables.            *)
LEMMA QuietStep ==
  ASSUME IInv, TabsGrow, SendersKept, LoopInv', BatchInv', UNCHANGED <<plan, server>>
  PROVE  IInv'
BY GrowingKeeps DEF IInv, TypeInv

(* Nothing of the sink changes.                                              *)
LEMMA SameSenders ==
  ASSUME IInv, "senders" \in DOMAIN snk', snk'.senders = snk.senders
  PROVE  SendersKept
BY DEF IInv, TypeInv, SinkInv, SendersKept

(* An unchanged loop.                                                        *)
LEMMA SameLoop == ASSUME IInv, UNCHANGED loop PROVE LoopInv'
BY DEF IInv, TypeInv, LoopInv

(* An unchanged batch.                                                       *)
LEMMA SameBatch == ASSUME IInv, UNCHANGED batch PROVE BatchInv'
BY DEF IInv, TypeInv, BatchInv, IsConverted

(* An unchanged sink.                                                        *)
LEMMA SameSink == ASSUME IInv, UNCHANGED snk PROVE SendersKept
BY SameSenders DEF IInv, TypeInv, SinkInv

(* A panic leaves the schemas and commands as they are.                      *)
LEMMA PanicKeepsLoop == ASSUME IInv, NEW why, Panic(why) PROVE LoopInv'
BY DEF IInv, TypeInv, LoopInv, Panic
-----------------------------------------------------------------------------
(* The durable LSN of a table is a number, and the confirmed LSN is none     *)
(* that a registered table has not reached.                                  *)
LEMMA ConfirmedLsnFacts ==
  ASSUME IInv
  PROVE  /\ ConfirmedLsn \in Nat
         /\ \A t \in Registered :
              LET tb == tabs[t][snk.senders[t]] IN ConfirmedLsn <= tb.flush \/ ConfirmedLsn <= tb.wal
<1>1. ASSUME NEW t \in Registered
      PROVE  /\ tabs[t][snk.senders[t]] \in Tab
             /\ Durable(t) \in {tabs[t][snk.senders[t]].flush, tabs[t][snk.senders[t]].wal}
             /\ Durable(t) \in Nat
  <2>1. snk.senders[t] \in 1 .. Len(tabs[t]) /\ tabs[t] \in Seq(Tab)
    BY LenProperties DEF IInv, TypeInv, SinkInv, Registered
  <2>2. tabs[t][snk.senders[t]] \in Tab
    BY <2>1, ElementOfSeq
  <2> QED BY <2>2 DEF Durable, Tab
<1> DEFINE S == {Durable(t) : t \in Registered}
<1>2. CASE Registered = {}
  BY <1>2 DEF ConfirmedLsn
<1>3. CASE Registered # {}
  <2>1. S \in SUBSET Nat /\ S # {}
    BY <1>1, <1>3
  <2>2. ConfirmedLsn = Min(S)
    BY <1>3 DEF ConfirmedLsn
  <2>3. Min(S) \in S /\ \A y \in S : Min(S) <= y
    BY <2>1, MinOfNats, Zenon
  <2>4. \A t \in Registered : ConfirmedLsn <= Durable(t)
    BY <2>2, <2>3
  <2> QED BY <1>1, <2>1, <2>2, <2>3, <2>4
<1> QED BY <1>2, <1>3

(* The slot moves to the confirmed LSN, if at all.                           *)
LEMMA SlotMoves ==
  ASSUME IInv, UNCHANGED <<plan, tabs>>, snk'.senders = snk.senders,
         server'.confirmed \in {server.confirmed, ConfirmedLsn}
  PROVE  server'.confirmed \in Nat /\ Bounded' /\ Confirmed'
<1>1. server'.confirmed \in Nat
  BY ConfirmedLsnFacts DEF IInv, TypeInv
<1>2. Bounded'
  BY Zenon DEF IInv, Bounded, LsnsBounded
<1>3. ASSUME NEW t \in Registered
      PROVE  DurableTo(tabs[t][snk.senders[t]], server'.confirmed)
  <2>1. CASE server'.confirmed = server.confirmed
    BY <2>1 DEF IInv, Confirmed, DurableTo
  <2>2. CASE server'.confirmed = ConfirmedLsn
    BY <2>2, ConfirmedLsnFacts DEF DurableTo
  <2> QED BY <2>1, <2>2
<1>4. Registered' = Registered
  BY DEF Registered
<1>5. Confirmed'
  BY <1>3, <1>4 DEF Confirmed, DurableTo
<1> QED BY <1>1, <1>2, <1>5

(* A new connection moves the slot at most to the confirmed LSN.             *)
LEMMA ConnectStep == ASSUME IInv, Connect PROVE IInv'
<1> DEFINE start == Max({server.confirmed, ConfirmedLsn})
<1>0. TypeInv /\ server.confirmed \in Nat
  BY DEF IInv, TypeInv
<1>1. start \in {server.confirmed, ConfirmedLsn}
  BY <1>0, ConfirmedLsnFacts, MaxOfTwo
<1>2. /\ server' = [confirmed |-> start, queue |-> {i \in DOMAIN plan.wire : plan.wire[i].end > start}]
      /\ loop' = [loop EXCEPT !.state = "up", !.schemas = loop.saved]
      /\ snk' = [snk EXCEPT !.floor = 0]
      /\ UNCHANGED <<plan, batch, tabs>>
  BY DEF Connect
<1> HIDE DEF start
<1>3. "senders" \in DOMAIN snk' /\ snk'.senders = snk.senders
  BY <1>0, <1>2 DEF TypeInv, SinkInv
<1>4. server'.confirmed \in Nat /\ Bounded' /\ Confirmed'
  BY <1>1, <1>2, <1>3, SlotMoves
<1>5. SinkInv'
  BY <1>0, <1>2, <1>3 DEF TypeInv, SinkInv
<1>6. LoopInv'
  BY <1>0, <1>2, Zenon DEF TypeInv, LoopInv
<1>7. BatchInv'
  BY <1>2, SameBatch
<1>8. server' \in [confirmed : Nat, queue : SUBSET DOMAIN plan.wire]
  BY <1>2, <1>4
<1> QED BY <1>0, <1>2, <1>4, <1>5, <1>6, <1>7, <1>8 DEF IInv, TypeInv

(* The status tick moves the slot to the confirmed LSN.                      *)
LEMMA SendStatusStep == ASSUME IInv, SendStatus PROVE IInv'
<1>0. TypeInv
  BY DEF IInv
<1>1. /\ server' = [server EXCEPT !.confirmed = ConfirmedLsn]
      /\ UNCHANGED <<plan, loop, batch, snk, tabs>>
  BY DEF SendStatus
<1>2. server'.confirmed = ConfirmedLsn /\ server'.queue = server.queue
  BY <1>0, <1>1 DEF TypeInv
<1>3. server'.confirmed \in Nat /\ Bounded' /\ Confirmed'
  BY <1>1, <1>2, SlotMoves
<1>4. server' \in [confirmed : Nat, queue : SUBSET DOMAIN plan.wire]
  BY <1>0, <1>1, <1>2, <1>3 DEF TypeInv
<1> QED BY <1>0, <1>1, <1>3, <1>4, SameLoop, SameBatch DEF IInv, TypeInv, SinkInv
-----------------------------------------------------------------------------
(* A failed connection changes only the loop.                                *)
LEMMA ConnectFailsStep == ASSUME IInv, ConnectFails PROVE IInv'
<1>1. LoopInv'
  BY DEF ConnectFails, IInv, TypeInv, LoopInv
<1>2. UNCHANGED <<plan, server, batch, snk, tabs>>
  BY DEF ConnectFails
<1> QED BY <1>1, <1>2, SameTabsGrow, SameSink, SameBatch, QuietStep

(* A broken connection changes only the loop.                                *)
LEMMA DisconnectStep == ASSUME IInv, Disconnect PROVE IInv'
<1>1. LoopInv'
  BY DEF Disconnect, IInv, TypeInv, LoopInv
<1>2. UNCHANGED <<plan, server, batch, snk, tabs>>
  BY DEF Disconnect
<1> QED BY <1>1, <1>2, SameTabsGrow, SameSink, SameBatch, QuietStep

(* A schema that cannot be fetched ends the loop.                            *)
LEMMA FetchFailsStep == ASSUME IInv, FetchFails PROVE IInv'
<1>1. LoopInv'
  BY DEF FetchFails, IInv, TypeInv, LoopInv
<1>2. UNCHANGED <<plan, server, snk, tabs>> /\ batch' = RestOfBatch
  BY DEF FetchFails
<1>3. BatchInv'
  BY <1>2, RestIsBatch DEF IInv, TypeInv
<1> QED BY <1>1, <1>2, <1>3, SameTabsGrow, SameSink, QuietStep

(* The last commit a table received.                                         *)
LEMMA LastCommitIsNat ==
  ASSUME NEW tb \in Tab, LsnsBounded(tb)
  PROVE  LastCommit(tb) \in Nat
<1> DEFINE S == {0} \cup {e.msg.lsn : e \in Commits(tb)}
<1>1. PICK b \in Nat : \A i \in 1 .. Len(tb.got) : tb.got[i].msg.lsn <= b
  BY Zenon DEF LsnsBounded
<1>2. tb.got \in Seq(Event) /\ DOMAIN tb.got = 1 .. Len(tb.got)
  BY LenProperties DEF Tab
<1>3. ASSUME NEW e \in Commits(tb) PROVE e.msg.lsn \in Nat /\ e.msg.lsn <= b
  <2>1. PICK i \in 1 .. Len(tb.got) : e = tb.got[i]
    BY <1>2 DEF Commits, Range
  <2>2. e \in Event
    BY <1>2, <2>1, ElementOfSeq
  <2> QED BY <1>1, <2>1, <2>2 DEF Event, Message
<1>4. S \in SUBSET Nat /\ S # {} /\ \A y \in S : y <= b
  BY <1>1, <1>3
<1>5. Max(S) \in S
  BY <1>4, MaxOfBounded, Zenon
<1> QED BY <1>4, <1>5 DEF LastCommit

(* A table, or its log, becomes durable up to its last commit.               *)
LEMMA FlushTableStep == ASSUME IInv, NEW t \in SrcTable, FlushTable(t) \/ FlushTableWal(t) PROVE IInv'
<1> DEFINE g == snk.senders[t]
           last == LastCommit(tabs[t][g])
           old == tabs[t][g]
           new == [tabs[t][g] EXCEPT !.flush = last]
           newWal == [tabs[t][g] EXCEPT !.wal = last]
<1>1. UNCHANGED <<plan, server, loop, batch, snk>>
  BY DEF FlushTable, FlushTableWal
<1>2. g \in 1 .. Len(tabs[t]) /\ tabs[t] \in Seq(Tab)
  BY LenProperties DEF IInv, TypeInv, SinkInv, FlushTable, FlushTableWal
<1>3. old \in Tab /\ LsnsBounded(old)
  BY <1>2, ElementOfSeq DEF IInv, TypeInv, Bounded
<1>4. last \in Nat
  BY <1>3, LastCommitIsNat
<1>5. TabsGrow
  <2>1. CASE FlushTable(t)
    <3>1. old.flush < last /\ tabs' = [tabs EXCEPT ![t] = [tabs[t] EXCEPT ![g] = new]]
      BY <2>1 DEF FlushTable
    <3>2. /\ new \in Tab /\ LsnsBounded(new) /\ new.since = old.since
          /\ old.flush <= new.flush /\ old.wal <= new.wal
      <4>1. /\ new \in Tab /\ new.got = old.got /\ new.since = old.since
            /\ new.flush = last /\ new.wal = old.wal /\ old.flush \in Nat /\ old.wal \in Nat
        BY <1>3, <1>4 DEF Tab
      <4> HIDE DEF new, old, last
      <4>2. LsnsBounded(new)
        BY <1>3, <4>1, Zenon DEF LsnsBounded
      <4>3. old.flush <= new.flush /\ old.wal <= new.wal
        BY <1>4, <3>1, <4>1
      <4> QED BY <4>1, <4>2, <4>3
    <3> HIDE DEF new
    <3>3. [tabs[t] EXCEPT ![g] = new] \in Seq(Tab) /\ Grows(tabs[t], [tabs[t] EXCEPT ![g] = new])
      BY <3>2, OneTabGrows, Zenon
    <3> QED BY <3>1, <3>3, OthersGrow, Zenon
  <2>2. CASE FlushTableWal(t)
    <3>1. old.wal < last /\ tabs' = [tabs EXCEPT ![t] = [tabs[t] EXCEPT ![g] = newWal]]
      BY <2>2 DEF FlushTableWal
    <3>2. /\ newWal \in Tab /\ LsnsBounded(newWal) /\ newWal.since = old.since
          /\ old.flush <= newWal.flush /\ old.wal <= newWal.wal
      <4>1. /\ newWal \in Tab /\ newWal.got = old.got /\ newWal.since = old.since
            /\ newWal.wal = last /\ newWal.flush = old.flush /\ old.wal \in Nat /\ old.flush \in Nat
        BY <1>3, <1>4 DEF Tab
      <4> HIDE DEF newWal, old, last
      <4>2. LsnsBounded(newWal)
        BY <1>3, <4>1, Zenon DEF LsnsBounded
      <4>3. old.flush <= newWal.flush /\ old.wal <= newWal.wal
        BY <1>4, <3>1, <4>1
      <4> QED BY <4>1, <4>2, <4>3
    <3> HIDE DEF newWal
    <3>3. [tabs[t] EXCEPT ![g] = newWal] \in Seq(Tab) /\ Grows(tabs[t], [tabs[t] EXCEPT ![g] = newWal])
      BY <3>2, OneTabGrows
    <3> QED BY <3>1, <3>3, OthersGrow, Zenon
  <2> QED BY <2>1, <2>2
<1> QED BY <1>1, <1>5, SameLoop, SameBatch, SameSink, QuietStep
-----------------------------------------------------------------------------
(* A wake converts messages of the wire.                                     *)
LEMMA NextBatchStep == ASSUME IInv, NEW k, NextBatch(k) PROVE IInv'
<1> DEFINE places == FirstOf(server.queue, k)
           events == [i \in places |-> Converted(i)]
<1>0. TypeInv /\ LoopInv
  BY DEF IInv, TypeInv
<1>1. /\ server' = [server EXCEPT !.queue = @ \ places]
      /\ UNCHANGED <<plan, snk, tabs>>
      /\ \/ Panic({<<"stale schema", None>>}) /\ UNCHANGED batch
         \/ batch' = events /\ UNCHANGED loop
  BY DEF NextBatch
<1>2. places \in SUBSET DOMAIN plan.wire
  BY <1>0 DEF TypeInv, FirstOf
<1>3. \A i \in places : IsConverted(Converted(i))
  <2> SUFFICES ASSUME NEW i \in places PROVE IsConverted(Converted(i))
    OBVIOUS
  <2>1. plan.wire[i] \in Message /\ KnownTable(plan.wire[i])
    BY <1>0, <1>2, PlanFacts DEF TypeInv
  <2>2. loop.schemas \in [SrcTable -> Nat]
    BY <1>0 DEF LoopInv, Schemas
  <2>3. IsRow(plan.wire[i]) => loop.schemas[plan.wire[i].table] \in Nat
    BY <2>1, <2>2 DEF KnownTable, IsRow
  <2>4. i \in Nat
    BY <1>0, <1>2, PlanFacts DEF TypeInv
  <2>5. Kind(plan.wire[i]) \in EventKind
    BY DEF Kind, EventKind
  <2> HIDE DEF places
  <2> QED BY <2>1, <2>3, <2>4, <2>5 DEF Converted, IsConverted
<1>4. BatchInv'
  <2>1. CASE UNCHANGED batch
    BY <2>1, SameBatch
  <2>2. CASE batch' = events
    <3>1. DOMAIN batch' = places /\ \A i \in places : batch'[i] = Converted(i)
      BY <2>2
    <3>2. batch' = [i \in DOMAIN batch' |-> batch'[i]]
      BY <2>2
    <3>3. DOMAIN plan.wire \in SUBSET Nat
      BY <1>0, PlanFacts DEF TypeInv
    <3> HIDE DEF places, events
    <3> QED BY <1>2, <1>3, <3>1, <3>2, <3>3 DEF BatchInv, IsConverted
  <2> QED BY <1>1, <2>1, <2>2
<1>5. LoopInv'
  BY <1>1, PanicKeepsLoop, SameLoop
<1>6. /\ server' \in [confirmed : Nat, queue : SUBSET DOMAIN plan.wire]
      /\ server'.confirmed = server.confirmed
  BY <1>0, <1>1 DEF TypeInv
<1>7. tabs' \in [SrcTable -> Seq(Tab)] /\ SinkInv' /\ Bounded' /\ Confirmed'
  BY <1>1, <1>6, SameTabsGrow, SameSink, GrowingKeeps
<1> QED BY <1>0, <1>1, <1>4, <1>5, <1>6, <1>7 DEF IInv, TypeInv

(* A command is for a table of the source.                                   *)
LEMMA HeadOfCommands ==
  ASSUME IInv, loop.commands # <<>>
  PROVE  /\ Head(loop.commands) \in CommandRec
         /\ Tail(loop.commands) \in Seq(CommandRec)
BY HeadTailProperties DEF IInv, TypeInv, LoopInv

(* A table is registered: what was confirmed before is not its concern.      *)
LEMMA AddTableStep ==
  ASSUME IInv, NEW t \in SrcTable, NEW cols,
         tabs' = [tabs EXCEPT ![t] = Append(@, NewTab)],
         snk' = AddToSink(t, Len(tabs[t]) + 1, cols),
         LoopInv', UNCHANGED <<plan, server, batch>>
  PROVE  IInv'
<1>0. /\ TypeInv /\ SinkInv /\ server.confirmed \in Nat
      /\ tabs \in [SrcTable -> Seq(Tab)] /\ tabs[t] \in Seq(Tab) /\ Len(tabs[t]) \in Nat
  BY LenProperties DEF IInv, TypeInv
<1> DEFINE n == Len(tabs[t]) + 1
           new == Append(tabs[t], NewTab)
<1>1. NewTab \in Tab /\ LsnsBounded(NewTab) /\ NewTab.since = server.confirmed
  <2>1. NewTab \in Tab /\ NewTab.got = <<>> /\ NewTab.since = server.confirmed
    BY <1>0 DEF NewTab, Tab
  <2> QED BY <2>1 DEF LsnsBounded
<1>2. /\ new \in Seq(Tab) /\ Len(new) = n /\ new[n] = NewTab
      /\ \A g \in 1 .. Len(tabs[t]) : new[g] = tabs[t][g]
  BY <1>0, <1>1, AppendProperties
<1> HIDE DEF new
<1>3. tabs' = [tabs EXCEPT ![t] = new]
  BY DEF new
<1>4. /\ tabs' \in [SrcTable -> Seq(Tab)] /\ tabs'[t] = new
      /\ \A u \in SrcTable : u # t => tabs'[u] = tabs[u]
  BY <1>0, <1>2, <1>3
<1>5. /\ "senders" \in DOMAIN snk' /\ snk'.senders = [snk.senders EXCEPT ![t] = n]
  BY <1>0 DEF AddToSink, SinkInv
<1>6. /\ snk'.senders \in [SrcTable -> Nat] /\ snk'.senders[t] = n
      /\ \A u \in SrcTable : u # t => snk'.senders[u] = snk.senders[u]
  BY <1>0, <1>5 DEF SinkInv
<1>7. SinkInv'
  <2> SUFFICES ASSUME NEW u \in SrcTable PROVE snk'.senders[u] <= Len(tabs'[u])
    BY <1>5, <1>6 DEF SinkInv
  <2>1. CASE u = t
    BY <1>0, <1>2, <1>4, <1>6, <2>1
  <2>2. CASE u # t
    BY <1>0, <1>4, <1>6, <2>2 DEF SinkInv
  <2> QED BY <2>1, <2>2
<1>8. Bounded'
  <2> SUFFICES ASSUME NEW u \in SrcTable, NEW g \in 1 .. Len(tabs'[u]) PROVE LsnsBounded(tabs'[u][g])
    BY DEF Bounded, LsnsBounded
  <2>1. CASE u = t
    <3>1. g \in 1 .. Len(tabs[t]) \/ g = n
      BY <1>0, <1>2, <1>4, <2>1
    <3> QED BY <1>1, <1>2, <1>4, <2>1, <3>1 DEF IInv, Bounded
  <2>2. CASE u # t
    BY <1>4, <2>2 DEF IInv, Bounded
  <2> QED BY <2>1, <2>2
<1>9. Confirmed'
  <2> SUFFICES ASSUME NEW u \in SrcTable, snk'.senders[u] # 0
               PROVE  DurableTo(tabs'[u][snk'.senders[u]], server.confirmed)
    BY Zenon DEF Confirmed, Registered, DurableTo
  <2>1. CASE u = t
    BY <1>0, <1>1, <1>2, <1>4, <1>6, <2>1 DEF DurableTo
  <2>2. CASE u # t
    BY <1>4, <1>6, <2>2 DEF IInv, Confirmed, Registered
  <2> QED BY <2>1, <2>2, Zenon
<1> QED BY <1>0, <1>4, <1>7, <1>8, <1>9, SameBatch DEF IInv, TypeInv

(* A table is dropped: the other senders stay.                               *)
LEMMA DropKeepsSenders ==
  ASSUME IInv, NEW t \in SrcTable, snk' = DropFromSink(t)
  PROVE  SendersKept
<1>0. "senders" \in DOMAIN snk /\ snk.senders \in [SrcTable -> Nat]
  BY DEF IInv, TypeInv, SinkInv
<1>1. "senders" \in DOMAIN snk' /\ snk'.senders = [snk.senders EXCEPT ![t] = 0]
  BY <1>0 DEF DropFromSink
<1>2. snk'.senders \in [SrcTable -> Nat]
  BY <1>0, <1>1
<1>3. ASSUME NEW u \in SrcTable PROVE snk'.senders[u] \in {0, snk.senders[u]}
  BY <1>0, <1>1, SMTT(30)
<1> QED BY <1>1, <1>2, <1>3 DEF SendersKept

(* A command of the channel.                                                 *)
LEMMA CommandStep == ASSUME IInv, Command PROVE IInv'
<1> DEFINE c == Head(loop.commands)
           t == c.table
<1>0. TypeInv /\ LoopInv /\ SinkInv
  BY DEF IInv, TypeInv
<1>1. c \in CommandRec /\ Tail(loop.commands) \in Seq(CommandRec)
  BY HeadOfCommands DEF Command
<1>2. t \in SrcTable /\ c.cols \in Nat
  BY <1>1 DEF CommandRec
<1>3. UNCHANGED <<plan, server, batch>>
  BY DEF Command
<1>4. CASE /\ tabs' = [tabs EXCEPT ![t] = Append(@, NewTab)]
           /\ snk' = AddToSink(t, Len(tabs[t]) + 1, c.cols)
           /\ \/ Panic({})
              \/ loop' = [loop EXCEPT !.commands = Tail(@), !.schemas[t] = c.cols]
  <2>1. LoopInv'
    <3>1. CASE Panic({})
      BY <3>1, PanicKeepsLoop
    <3>2. CASE loop' = [loop EXCEPT !.commands = Tail(@), !.schemas[t] = c.cols]
      BY <1>0, <1>1, <1>2, <3>2, Zenon DEF LoopInv, Schemas
    <3> QED BY <1>4, <3>1, <3>2
  <2> QED BY <1>2, <1>3, <1>4, <2>1, AddTableStep, Zenon
<1>5. CASE /\ snk' = DropFromSink(t) /\ UNCHANGED tabs
           /\ \/ Panic({})
              \/ loop' = [loop EXCEPT !.commands = Tail(@), !.schemas[t] = 0]
  <2>1. LoopInv'
    <3>1. CASE Panic({})
      BY <3>1, PanicKeepsLoop
    <3>2. CASE loop' = [loop EXCEPT !.commands = Tail(@), !.schemas[t] = 0]
      BY <1>0, <1>1, <1>2, <3>2, Zenon DEF LoopInv, Schemas
    <3> QED BY <1>5, <3>1, <3>2
  <2>3. SendersKept
    BY <1>2, <1>5, DropKeepsSenders
  <2> QED BY <1>3, <1>5, <2>1, <2>3, SameTabsGrow, SameBatch, QuietStep
<1>6. CASE /\ loop' = [loop EXCEPT !.commands = Tail(@), !.state = "stopped"]
           /\ UNCHANGED <<snk, tabs>>
  <2>1. LoopInv'
    BY <1>0, <1>1, <1>6, Zenon DEF LoopInv
  <2> QED BY <1>3, <1>6, <2>1, SameTabsGrow, SameBatch, SameSink, QuietStep
<1> QED BY <1>4, <1>5, <1>6, Zenon DEF Command
-----------------------------------------------------------------------------
(* What a row does to the sink leaves the senders alone.                     *)
LEMMA TouchedKeepsSenders ==
  ASSUME NEW s, NEW m, "senders" \in DOMAIN s
  PROVE  "senders" \in DOMAIN Touched(s, m) /\ Touched(s, m).senders = s.senders
BY DEF Touched, TouchedStream

(* A row goes to the sender of its table.                                    *)
LEMMA RowStep ==
  ASSUME IInv, NEW e, IsConverted(e), IsRow(e.msg), ProcessRowEvent(e)
  PROVE  TabsGrow /\ SendersKept
<1> DEFINE s == Touched(snk, e.msg)
           t == e.msg.table
           g == Sender(s, t)
<1>0. "senders" \in DOMAIN snk
  BY DEF IInv, TypeInv, SinkInv
<1>1. t \in SrcTable
  BY DEF IsConverted, KnownTable, IsRow
<1>2. "senders" \in DOMAIN s /\ s.senders = snk.senders
  BY <1>0, TouchedKeepsSenders
<1>3. "senders" \in DOMAIN snk' /\ snk'.senders = snk.senders
  <2>1. snk' = [s EXCEPT !.cached = IF g # 0 THEN <<t, g>> ELSE @]
    BY DEF ProcessRowEvent
  <2> HIDE DEF s, g, t
  <2> QED BY <1>2, <2>1
<1>4. tabs' = IF g = 0 THEN tabs ELSE [tabs EXCEPT ![t][g] = Received(@, RowEvent(e))]
  BY DEF ProcessRowEvent
<1> HIDE DEF s, t, g
<1>5. TabsGrow
  <2>1. CASE g = 0
    BY <1>4, <2>1, SameTabsGrow
  <2>2. CASE g # 0
    <3> DEFINE new == [tabs[t] EXCEPT ![g] = Received(@, RowEvent(e))]
    <3>1. RowEvent(e) \in Event
      BY RowEventIsEvent
    <3>3. tabs' = [tabs EXCEPT ![t] = new]
      BY <1>4, <2>2
    <3>4. new \in Seq(Tab) /\ Grows(tabs[t], new)
      BY <1>1, <3>1, ReceivingGrows, Zenon
    <3> HIDE DEF new
    <3> QED BY <1>1, <3>3, <3>4, OthersGrow, Zenon
  <2> QED BY <2>1, <2>2
<1> QED BY <1>3, <1>5, SameSenders

(* The end of a transaction, sent to the tables it touched.                  *)
LEMMA SendEndGrows ==
  ASSUME IInv, NEW touched, NEW e, IsConverted(e), NEW type \in EventType, SendEnd(touched, e, type)
  PROVE  TabsGrow
<1> DEFINE x == TableEvent(type, e)
           New(t) == [tabs[t] EXCEPT ![snk.senders[t]] = Received(@, x)]
<1>1. x \in Event
  <2>1. e.msg \in Message /\ e.cols \in Nat /\ e.place \in Nat
    BY DEF IsConverted
  <2> QED BY <2>1, TableEventIsEvent
<1>2. tabs' = [t \in SrcTable |-> IF t \in Range(touched) /\ snk.senders[t] # 0 THEN New(t) ELSE tabs[t]]
  BY DEF SendEnd
<1> HIDE DEF x
<1>3. ASSUME NEW t \in SrcTable PROVE New(t) \in Seq(Tab) /\ Grows(tabs[t], New(t))
  BY <1>1, ReceivingGrows, Zenon
<1>4. ASSUME NEW t \in SrcTable PROVE tabs[t] \in Seq(Tab) /\ Grows(tabs[t], tabs[t])
  <2>1. tabs[t] \in Seq(Tab) /\ \A g \in 1 .. Len(tabs[t]) : tabs[t][g] \in Tab
    BY ElementOfSeq DEF IInv, TypeInv
  <2> QED BY <2>1, SMTT(30) DEF Grows, Tab, IInv, Bounded
<1> HIDE DEF New
<1>5. tabs' \in [SrcTable -> Seq(Tab)]
  BY <1>2, <1>3, <1>4
<1>6. ASSUME NEW t \in SrcTable PROVE Grows(tabs[t], tabs'[t])
  <2>1. tabs'[t] = New(t) \/ tabs'[t] = tabs[t]
    BY <1>2
  <2> QED BY <1>3, <1>4, <2>1
<1> QED BY <1>5, <1>6 DEF TabsGrow

(* A change of schema is one more event of its table.                        *)
LEMMA ChangeSchemaStep ==
  ASSUME IInv, NEW e, IsConverted(e), e.msg.table \in SrcTable, ChangeSchema(e)
  PROVE  TabsGrow /\ SendersKept /\ LoopInv'
<1> DEFINE t == e.msg.table
           now == plan.columns[t]
           g == snk.senders[t]
           x == TableEvent("AlterTable", [e EXCEPT !.cols = now])
           new == [tabs[t] EXCEPT ![g] = Received(@, x)]
<1>0. TypeInv /\ SinkInv /\ LoopInv
  BY DEF IInv, TypeInv
<1>1. now \in Nat
  BY <1>0, PlanFacts DEF TypeInv, Schemas
<1>2. SendersKept
  BY <1>0, SameSenders DEF ChangeSchema, SinkInv
<1>3. LoopInv'
  <2>1. CASE Panic({<<"dropped table", None>>})
    BY <2>1, PanicKeepsLoop
  <2>2. CASE loop' = [loop EXCEPT !.schemas[t] = now]
    BY <1>0, <1>1, <2>2, Zenon DEF LoopInv, Schemas
  <2> QED BY <2>1, <2>2 DEF ChangeSchema
<1>4. tabs' = tabs \/ tabs' = [tabs EXCEPT ![t] = new]
  BY DEF ChangeSchema
<1>5. x \in Event
  <2> DEFINE f == [e EXCEPT !.cols = now]
  <2>1. f.msg \in Message /\ f.cols \in Nat /\ f.place \in Nat /\ "AlterTable" \in EventType
    BY <1>1 DEF EventType, IsConverted
  <2> HIDE DEF f
  <2>2. TableEvent("AlterTable", f) \in Event
    BY <2>1, TableEventIsEvent
  <2> QED BY <2>2 DEF f
<1> HIDE DEF x, g, t, now
<1>6. t \in SrcTable
  BY DEF t
<1>7. new \in Seq(Tab) /\ Grows(tabs[t], new)
  BY <1>5, <1>6, ReceivingGrows, Zenon
<1> HIDE DEF new
<1> QED BY <1>2, <1>3, <1>4, <1>6, <1>7, SameTabsGrow, OthersGrow

(* Every kind of event keeps what tables have and who is registered.         *)
LEMMA CdcEventStep ==
  ASSUME IInv, NEW e, IsConverted(e), ProcessCdcEvent(e)
  PROVE  TabsGrow /\ SendersKept /\ LoopInv'
<1> DEFINE m == e.msg
<1>0. /\ "senders" \in DOMAIN snk
      /\ {"Commit", "StreamAbort"} \subseteq EventType
  BY DEF IInv, TypeInv, SinkInv, EventType
<1>1. CASE IsRow(m) /\ ProcessRowEvent(e) /\ UNCHANGED loop
  BY <1>1, RowStep, SameLoop
<1>2. CASE /\ snk' = [snk EXCEPT !.main.final = m.lsn, !.main.last = None, !.lastKey = None]
           /\ UNCHANGED <<loop, tabs>>
  <2>1. "senders" \in DOMAIN snk' /\ snk'.senders = snk.senders
    BY <1>0, <1>2
  <2> QED BY <1>2, <2>1, SameSenders, SameTabsGrow, SameLoop
<1>3. CASE /\ SendEnd(snk.main.touched, e, "Commit") /\ snk' = AfterCommit(m.lsn)
           /\ UNCHANGED loop
  <2>1. "senders" \in DOMAIN snk' /\ snk'.senders = snk.senders
    BY <1>0, <1>3 DEF AfterCommit, Marked
  <2>2. TabsGrow
    BY <1>0, <1>3, SendEndGrows
  <2> QED BY <1>3, <2>1, <2>2, SameSenders, SameLoop
<1>4. CASE /\ SendEnd(StreamTouched(m.xid), e, "Commit")
           /\ snk' = [Marked(snk, StreamTouched(m.xid), m.lsn) EXCEPT !.streaming[m.xid] = None]
           /\ UNCHANGED loop
  <2>1. "senders" \in DOMAIN snk' /\ snk'.senders = snk.senders
    BY <1>0, <1>4 DEF Marked
  <2>2. TabsGrow
    BY <1>0, <1>4, SendEndGrows
  <2> QED BY <1>4, <2>1, <2>2, SameSenders, SameLoop
<1>5. CASE /\ SendEnd(StreamTouched(m.xid), e, "StreamAbort")
           /\ snk' = [snk EXCEPT !.streaming[m.xid] = None, !.lastKey = None]
           /\ UNCHANGED loop
  <2>1. "senders" \in DOMAIN snk' /\ snk'.senders = snk.senders
    BY <1>0, <1>5
  <2>2. TabsGrow
    BY <1>0, <1>5, SendEndGrows
  <2> QED BY <1>5, <2>1, <2>2, SameSenders, SameLoop
<1>6. CASE /\ snk' = [snk EXCEPT !.floor = Max({@, m.lsn}), !.replicated = Max({@, m.lsn})]
           /\ UNCHANGED <<loop, tabs>>
  <2>1. "senders" \in DOMAIN snk' /\ snk'.senders = snk.senders
    BY <1>0, <1>6
  <2> QED BY <1>6, <2>1, SameSenders, SameTabsGrow, SameLoop
<1>7. CASE m.type = "Relation" /\ ChangeSchema(e)
  <2>1. m.table \in SrcTable
    BY <1>7 DEF IsConverted, KnownTable
  <2> QED BY <1>7, <2>1, ChangeSchemaStep
<1>8. CASE UNCHANGED <<loop, snk, tabs>>
  BY <1>8, SameSink, SameTabsGrow, SameLoop
<1> QED BY <1>1, <1>2, <1>3, <1>4, <1>5, <1>6, <1>7, <1>8 DEF ProcessCdcEvent

(* One event of the batch.                                                   *)
LEMMA ProcessEventStep == ASSUME IInv, ProcessEvent PROVE IInv'
<1> DEFINE e == NextEvent
<1>0. BatchInv /\ LoopInv
  BY DEF IInv, TypeInv
<1>1. IsConverted(e)
  BY <1>0, NextOfBatch DEF ProcessEvent
<1>2. BatchInv'
  BY <1>0, RestIsBatch DEF ProcessEvent
<1>3. UNCHANGED <<plan, server>>
  BY DEF ProcessEvent
<1>4. TabsGrow /\ SendersKept /\ LoopInv'
  <2>1. CASE UNCHANGED <<loop, snk, tabs>>
    BY <2>1, SameLoop, SameSink, SameTabsGrow
  <2>2. CASE loop' = [loop EXCEPT !.saved = loop.schemas] /\ UNCHANGED <<snk, tabs>>
    <3>1. LoopInv'
      BY <1>0, <2>2 DEF LoopInv
    <3> QED BY <2>2, <3>1, SameSink, SameTabsGrow
  <2>3. CASE Panic({}) /\ UNCHANGED <<snk, tabs>>
    BY <2>3, PanicKeepsLoop, SameSink, SameTabsGrow
  <2>4. CASE ProcessCdcEvent(e)
    BY <1>1, <2>4, CdcEventStep
  <2> QED BY <2>1, <2>2, <2>3, <2>4 DEF ProcessEvent
<1> QED BY <1>2, <1>3, <1>4, QuietStep
-----------------------------------------------------------------------------
(* Before the first connection nothing is confirmed and no table registered. *)
LEMMA InitEstablishes == StreamInit => IInv
<1> SUFFICES ASSUME StreamInit PROVE IInv
  OBVIOUS
<1>1. plan \in StreamScenarios /\ plan.commands \in Seq(CommandRec)
  BY PlanFacts DEF StreamInit
<1>2. server \in [confirmed : Nat, queue : SUBSET DOMAIN plan.wire]
  BY DEF StreamInit
<1>3. /\ tabs \in [SrcTable -> Seq(Tab)]
      /\ \A t \in SrcTable : Len(tabs[t]) = 0
  BY DEF StreamInit
<1>4. LoopInv
  BY <1>1 DEF StreamInit, LoopInv, Schemas
<1>5. BatchInv
  BY DEF StreamInit, BatchInv
<1>6. SinkInv /\ Registered = {}
  BY <1>3 DEF StreamInit, NewSink, SinkInv, Registered
<1>7. Bounded
  BY <1>3 DEF Bounded
<1>8. Confirmed
  BY <1>6 DEF Confirmed
<1> QED BY <1>1, <1>2, <1>3, <1>4, <1>5, <1>6, <1>7, <1>8 DEF IInv, TypeInv

(* Every step keeps the invariant.                                           *)
LEMMA NextPreserves == IInv /\ [StreamNext]_streamVars => IInv'
<1> SUFFICES ASSUME IInv, [StreamNext]_streamVars PROVE IInv'
  OBVIOUS
<1>1. CASE UNCHANGED streamVars
  BY <1>1, SameLoop, SameSink, SameTabsGrow, SameBatch, QuietStep DEF streamVars
<1>2. CASE StreamNext
  BY <1>2, ConnectStep, CommandStep, ProcessEventStep, SendStatusStep, NextBatchStep, FlushTableStep,
     ConnectFailsStep, FetchFailsStep, DisconnectStep DEF StreamNext, StreamProgress
<1> QED BY <1>1, <1>2

(* The inductive invariant holds throughout.                                 *)
THEOREM StreamInvariant == StreamSpec => []IInv
BY InitEstablishes, NextPreserves, PTL DEF StreamSpec

(* The slot is never confirmed past a transaction that a registered table    *)
(* was given after its registration and has made durable nowhere             *)
(* (compute_confirmed_wal_flush_lsn, update_applied_lsn): SlotIsSafe, for    *)
(* any tables, wire, commands, batches, breaks and order of flushes.         *)
THEOREM TheSlotIsSafe == StreamSpec => []SlotIsSafe
<1>1. IInv => SlotIsSafe
  <2> SUFFICES ASSUME IInv, NEW t \in Registered, NEW e \in Commits(tabs[t][snk.senders[t]]),
                      tabs[t][snk.senders[t]].since < e.msg.lsn, e.msg.lsn <= server.confirmed
               PROVE  e.msg.lsn <= Max({tabs[t][snk.senders[t]].flush, tabs[t][snk.senders[t]].wal})
    BY DEF SlotIsSafe
  <2> DEFINE tb == tabs[t][snk.senders[t]]
  <2>1. snk.senders[t] \in 1 .. Len(tabs[t]) /\ tabs[t] \in Seq(Tab) /\ server.confirmed \in Nat
    BY LenProperties DEF IInv, TypeInv, SinkInv, Registered
  <2>2. tb \in Tab
    BY <2>1, ElementOfSeq
  <2>3. tb.got \in Seq(Event) /\ tb.flush \in Nat /\ tb.wal \in Nat /\ tb.since \in Nat
    BY <2>2 DEF Tab
  <2>4. e \in Event
    <3>1. PICK i \in DOMAIN tb.got : e = tb.got[i]
      BY DEF Commits, Range
    <3> QED BY <2>3, <3>1, ElementOfSeq, LenProperties
  <2>5. e.msg.lsn \in Nat
    BY <2>4 DEF Event, Message
  <2>6. DurableTo(tb, server.confirmed)
    BY DEF IInv, Confirmed
  <2>7. /\ tb.flush <= Max({tb.flush, tb.wal}) /\ tb.wal <= Max({tb.flush, tb.wal})
        /\ Max({tb.flush, tb.wal}) \in Nat
    BY <2>3, MaxOfTwo
  <2>8. tb.since < e.msg.lsn
    OBVIOUS
  <2> HIDE DEF tb
  <2>9. e.msg.lsn <= tb.flush \/ e.msg.lsn <= tb.wal
    BY <2>1, <2>3, <2>5, <2>6, <2>8 DEF DurableTo
  <2>10. e.msg.lsn <= Max({tb.flush, tb.wal})
    BY <2>3, <2>5, <2>7, <2>9
  <2> QED BY <2>10 DEF tb
<1> QED BY <1>1, StreamInvariant, PTL
-----------------------------------------------------------------------------
(***************************************************************************)
(* Whole transactions (WholeCommits_proofs): the invariant, and what the   *)
(* places of the wire, the sink's memory of a transaction and the rows a   *)
(* table received become with one more event.                              *)
(***************************************************************************)
Transaction == [final : Nat, touched : Seq(SrcTable), last : SrcTable \cup {None}]

AnyXid == Xid \cup {None}

Pending == server.queue \cup DOMAIN batch

(* What was sent and dealt with on a connection that was started from start *)
Passed(start) == {i \in DOMAIN plan.wire : plan.wire[i].end > start /\ i \notin Pending}

(* Its rows for a table whose transaction has not ended *)
OpenAt(start, t, x) ==
  {i \in Passed(start) : /\ IsRow(plan.wire[i]) /\ plan.wire[i].table = t /\ plan.wire[i].xid = x
                         /\ \A j \in Passed(start) : i < j => ~EndOf(plan.wire[j], x)}

(* What a transaction, streamed or not, has touched *)
TouchedIn(streaming, main, x) ==
  Range(IF x = None THEN main.touched ELSE IF streaming[x] = None THEN <<>> ELSE streaming[x].touched)

TouchedAt(x) == TouchedIn(snk.streaming, snk.main, x)

Got(t) == tabs[t][snk.senders[t]].got

(* What a table received of a transaction that has not ended *)
Unended(got, x) ==
  {k \in 1 .. Len(got) : /\ IsRow(got[k].msg) /\ got[k].msg.xid = x
                         /\ \A l \in 1 .. Len(got) : k < l => ~EndOf(got[l].msg, x)}

(* No fault that concerns every table *)
Undisturbed == faults \cap {<<"cut", None>>, <<"sent again", None>>, <<"stale schema", None>>} = {}

(* The converted events are those of the next places *)
BatchFollows ==
  /\ \A i \in DOMAIN batch :
       /\ i \in DOMAIN plan.wire /\ batch[i].msg = plan.wire[i] /\ batch[i].place = i
       /\ i \notin server.queue /\ \A j \in server.queue : i < j
       /\ batch[i].kind = "Ok" /\ IsRow(plan.wire[i]) /\ Undisturbed => batch[i].cols = plan.wire[i].cols
       /\ batch[i].kind = "MissingSchema" => IsRow(plan.wire[i])
       /\ batch[i].kind = "MessageNotSupported" => ~IsRow(plan.wire[i]) /\ ~IsEnd(plan.wire[i])
  /\ loop.state = "down" => DOMAIN batch = {}

(* The sink knows whom it sends to, and what is touched *)
Remembers(tx) == tx.last = None \/ tx.last \in Range(tx.touched)

SinkParts(senders, streaming, main, cached, lastKey) ==
  /\ main \in Transaction /\ Remembers(main)
  /\ streaming \in [Xid -> Transaction \cup {None}]
  /\ \A x \in Xid : streaming[x] # None => Remembers(streaming[x])
  /\ \/ lastKey = None
     \/ /\ lastKey \in Xid \X SrcTable
        /\ streaming[lastKey[1]] # None
        /\ lastKey[2] \in Range(streaming[lastKey[1]].touched)
  /\ \/ cached = None
     \/ \E t \in SrcTable : senders[t] # 0 /\ cached = <<t, senders[t]>>

HasParts == {"senders", "streaming", "main", "cached", "lastKey"} \subseteq DOMAIN snk

SinkFollows == HasParts /\ SinkParts(snk.senders, snk.streaming, snk.main, snk.cached, snk.lastKey)

(* A table has a schema as long as it is registered *)
SchemasFollow ==
  /\ loop.state = "up"   => \A t \in SrcTable : loop.schemas[t] = 0 => snk.senders[t] = 0
  /\ loop.state = "down" => \A t \in SrcTable : loop.saved[t] = 0 => snk.senders[t] = 0

Follows(start, t) ==
  \A x \in AnyXid :
    /\ OpenAt(start, t, x) # {} => t \in TouchedAt(x)
    /\ snk.senders[t] # 0 => IsExactly(Got(t), Unended(Got(t), x), OpenAt(start, t, x))

(* The rest of what the connection sends comes in the order of the wire *)
InOrder(start) ==
  /\ \A i \in Pending : plan.wire[i].end > start
  /\ \A i \in Passed(start), j \in Pending : i < j

TablesFollow ==
  /\ loop.state = "up" /\ Undisturbed =>
       \E start \in Nat : InOrder(start) /\ \A t \in SrcTable : Spoilt(t) \/ Follows(start, t)
  /\ loop.state = "down" =>
       \A t \in SrcTable : Spoilt(t) \/ snk.senders[t] = 0 \/ \A x \in AnyXid : Unended(Got(t), x) = {}

WInv ==
  /\ BatchFollows
  /\ loop.state \in {"up", "down"} => SinkFollows /\ SchemasFollow /\ TablesFollow
  /\ WholeCommits
-----------------------------------------------------------------------------
(* A row is not the end of a transaction.                                    *)
LEMMA RowsEndNothing == ASSUME NEW m, IsRow(m) PROVE ~IsEnd(m)
BY DEF IsRow, RowTypes, IsEnd, IsCommit

(* What an event adds to what a table received of an open transaction.       *)
LEMMA UnendedOfAppend ==
  ASSUME NEW got \in Seq(Event), NEW e \in Event, NEW x
  PROVE  /\ IsRow(e.msg) /\ e.msg.xid = x =>
              Unended(Append(got, e), x) = Unended(got, x) \cup {Len(got) + 1}
         /\ EndOf(e.msg, x) => Unended(Append(got, e), x) = {}
         /\ ~EndOf(e.msg, x) /\ ~(IsRow(e.msg) /\ e.msg.xid = x) =>
              Unended(Append(got, e), x) = Unended(got, x)
<1>1. PICK new : new = Append(got, e)
  BY Zenon
<1>2. PICK n : n = Len(got)
  OBVIOUS
<1>3. /\ n \in Nat /\ Len(new) = n + 1 /\ new[n + 1] = e
      /\ \A k \in 1 .. n : new[k] = got[k]
  BY <1>1, <1>2, AppendProperties, LenProperties
<1>4. 1 .. n + 1 = (1 .. n) \cup {n + 1} /\ n + 1 \notin 1 .. n
  BY <1>3
<1>5. Unended(new, x) =
        {k \in (1 .. n) \cup {n + 1} : /\ IsRow(new[k].msg) /\ new[k].msg.xid = x
                                       /\ \A l \in (1 .. n) \cup {n + 1} : k < l => ~EndOf(new[l].msg, x)}
  BY <1>3, <1>4 DEF Unended
<1>6. Unended(got, x) = {k \in 1 .. n : /\ IsRow(got[k].msg) /\ got[k].msg.xid = x
                                        /\ \A l \in 1 .. n : k < l => ~EndOf(got[l].msg, x)}
  BY <1>2 DEF Unended
<1>7. \A k \in 1 .. n : k < n + 1 /\ ~(n + 1 < k)
  BY <1>3
<1>8. IsRow(e.msg) => ~EndOf(e.msg, x)
  BY RowsEndNothing DEF EndOf
<1>9. \A k \in 1 .. n : k \in Unended(new, x) <=> (k \in Unended(got, x) /\ ~EndOf(e.msg, x))
  BY <1>3, <1>5, <1>6, <1>7
<1>10. n + 1 \in Unended(new, x) <=> IsRow(e.msg) /\ e.msg.xid = x
  BY <1>3, <1>5, <1>7
<1>11. Unended(new, x) \subseteq (1 .. n) \cup {n + 1} /\ Unended(got, x) \subseteq 1 .. n
  BY <1>5, <1>6
<1>12. EndOf(e.msg, x) => ~IsRow(e.msg)
  BY RowsEndNothing DEF EndOf
<1> QED
  BY <1>1, <1>2, <1>8, <1>9, <1>10, <1>11, <1>12, Zenon

(* Of what was there before, everything stays.                               *)
LEMMA ExactlyOfAppend ==
  ASSUME NEW got \in Seq(Event), NEW e \in Event, NEW rows, NEW ks \in SUBSET (1 .. Len(got)),
         IsExactly(got, ks, rows)
  PROVE  IsExactly(Append(got, e), ks, rows)
<1>1. PICK new : new = Append(got, e)
  BY Zenon
<1>2. \A k \in ks : new[k] = got[k]
  BY <1>1, AppendProperties
<1>3. {new[k].place : k \in ks} = {got[k].place : k \in ks}
  BY <1>2, Zenon
<1> QED BY <1>1, <1>2, <1>3 DEF IsExactly

(* A row more.                                                               *)
LEMMA OneRowMore ==
  ASSUME NEW got \in Seq(Event), NEW e \in Event, NEW x, NEW rows, IsRow(e.msg), e.msg.xid = x,
         e.cols = e.msg.cols, \A i \in rows : i < e.place,
         IsExactly(got, Unended(got, x), rows)
  PROVE  IsExactly(Append(got, e), Unended(Append(got, e), x), rows \cup {e.place})
<1>1. PICK new : new = Append(got, e)
  BY Zenon
<1>2. PICK n : n = Len(got)
  OBVIOUS
<1>3. PICK ks : ks = Unended(got, x)
  OBVIOUS
<1>4. Unended(new, x) = ks \cup {n + 1}
  BY <1>1, <1>2, <1>3, UnendedOfAppend
<1>5. n \in Nat /\ new[n + 1] = e /\ \A k \in 1 .. n : new[k] = got[k]
  BY <1>1, <1>2, AppendProperties, LenProperties
<1>6. ks \subseteq 1 .. n
  BY <1>2, <1>3 DEF Unended
<1>7. {new[k].place : k \in ks \cup {n + 1}} = rows \cup {e.place}
  <2>1. {new[k].place : k \in ks} = {got[k].place : k \in ks}
    BY <1>5, <1>6
  <2>2. {got[k].place : k \in ks} = rows
    BY <1>3 DEF IsExactly
  <2> QED BY <1>5, <2>1, <2>2
<1>8. ASSUME NEW k \in ks \cup {n + 1}, NEW l \in ks \cup {n + 1}, k < l
      PROVE  new[k].place < new[l].place
  <2>1. k \in ks
    BY <1>5, <1>6, <1>8
  <2>2. CASE l \in ks
    BY <1>3, <1>5, <1>6, <1>8, <2>1, <2>2 DEF IsExactly
  <2>3. CASE l = n + 1
    <3>1. got[k].place \in rows
      BY <1>3, <2>1 DEF IsExactly
    <3> QED BY <1>5, <1>6, <2>1, <2>3, <3>1, Zenon
  <2> QED BY <2>2, <2>3
<1>9. \A k \in ks \cup {n + 1} : new[k].cols = new[k].msg.cols
  BY <1>3, <1>5, <1>6 DEF IsExactly
<1>10. IsExactly(new, ks \cup {n + 1}, rows \cup {e.place})
  BY <1>7, <1>8, <1>9 DEF IsExactly
<1> QED BY <1>1, <1>4, <1>10

(* The commits that were whole stay so.                                      *)
LEMMA SinceOfAppend ==
  ASSUME NEW got \in Seq(Event), NEW e \in Event
  PROVE  /\ \A j \in 1 .. Len(got) : Since(Append(got, e), j) = Since(got, j)
         /\ Since(Append(got, e), Len(got) + 1) = Unended(got, e.msg.xid)
<1>1. PICK new : new = Append(got, e)
  OBVIOUS
<1>2. PICK n : n = Len(got)
  OBVIOUS
<1>3. n \in Nat /\ new[n + 1] = e /\ \A k \in 1 .. n : new[k] = got[k]
  BY <1>1, <1>2, AppendProperties, LenProperties
<1>4. ASSUME NEW j \in 1 .. n PROVE Since(new, j) = Since(got, j)
  <2>1. 1 .. j - 1 \subseteq 1 .. n /\ \A k \in 1 .. j - 1 : k + 1 .. j - 1 \subseteq 1 .. n
    BY <1>3
  <2> QED BY <1>3, <2>1 DEF Since
<1>5. Since(new, n + 1) = Unended(got, e.msg.xid)
  <2>1. (n + 1) - 1 = n
    BY <1>3
  <2>2. Since(new, n + 1) = {k \in 1 .. n : /\ IsRow(new[k].msg) /\ new[k].msg.xid = e.msg.xid
                                            /\ \A l \in k + 1 .. n : ~EndOf(new[l].msg, e.msg.xid)}
    BY <1>3, <2>1 DEF Since
  <2>3. ASSUME NEW k \in 1 .. n
        PROVE  (\A l \in k + 1 .. n : ~EndOf(new[l].msg, e.msg.xid))
                 <=> (\A l \in 1 .. n : k < l => ~EndOf(got[l].msg, e.msg.xid))
    <3>1. \A l \in 1 .. n : k < l <=> l \in k + 1 .. n
      BY <1>3
    <3>2. k + 1 .. n \subseteq 1 .. n
      BY <1>3
    <3> QED BY <1>3, <3>1, <3>2
  <2> QED BY <1>2, <1>3, <2>2, <2>3 DEF Unended
<1> QED BY <1>1, <1>2, <1>4, <1>5
-----------------------------------------------------------------------------
(* A place of the wire is passed: what that does to the open rows.           *)
LEMMA OnePlaceMore ==
  ASSUME plan \in StreamScenarios, UNCHANGED plan, NEW s \in Nat, NEW p \in DOMAIN plan.wire,
         p \in Pending, Pending' = Pending \ {p}, plan.wire[p].end > s,
         \A i \in Passed(s) : i < p, NEW t, NEW x
  PROVE  /\ IsRow(plan.wire[p]) /\ plan.wire[p].table = t /\ plan.wire[p].xid = x =>
              OpenAt(s, t, x)' = OpenAt(s, t, x) \cup {p}
         /\ EndOf(plan.wire[p], x) => OpenAt(s, t, x)' = {}
         /\ ~EndOf(plan.wire[p], x) /\ ~(IsRow(plan.wire[p]) /\ plan.wire[p].table = t /\ plan.wire[p].xid = x) =>
              OpenAt(s, t, x)' = OpenAt(s, t, x)
<1>1. PICK P : P = Passed(s)
  OBVIOUS
<1>2. Passed(s)' = P \cup {p}
  BY <1>1 DEF Passed
<1>3. DOMAIN plan.wire \subseteq Nat /\ P \subseteq Nat /\ p \in Nat
  BY <1>1, PlanFacts DEF Passed
<1>4. \A i \in P : i < p /\ ~(p < i) /\ i # p
  BY <1>1, <1>3
<1>5. ~(p < p)
  BY <1>3
<1>6. OpenAt(s, t, x) =
        {i \in P : /\ IsRow(plan.wire[i]) /\ plan.wire[i].table = t /\ plan.wire[i].xid = x
                   /\ \A j \in P : i < j => ~EndOf(plan.wire[j], x)}
  BY <1>1 DEF OpenAt
<1>7. OpenAt(s, t, x)' =
        {i \in P \cup {p} : /\ IsRow(plan.wire[i]) /\ plan.wire[i].table = t /\ plan.wire[i].xid = x
                            /\ \A j \in P \cup {p} : i < j => ~EndOf(plan.wire[j], x)}
  BY <1>2 DEF OpenAt
<1>8. \A i \in P : i \in OpenAt(s, t, x)' <=> i \in OpenAt(s, t, x) /\ ~EndOf(plan.wire[p], x)
  BY <1>4, <1>6, <1>7
<1>9. p \in OpenAt(s, t, x)' <=> IsRow(plan.wire[p]) /\ plan.wire[p].table = t /\ plan.wire[p].xid = x
  BY <1>4, <1>5, <1>7
<1>10. OpenAt(s, t, x) \subseteq P /\ OpenAt(s, t, x)' \subseteq P \cup {p}
  BY <1>6, <1>7
<1>11. ~(IsRow(plan.wire[p]) /\ EndOf(plan.wire[p], x))
  BY RowsEndNothing DEF EndOf
<1> QED BY <1>8, <1>9, <1>10, <1>11

(* At a commit the open rows of its transaction are all its rows: Postgres   *)
(* sent them before, and no other end of the xid came in between.            *)
LEMMA OpenRowsAtCommit ==
  ASSUME plan \in StreamScenarios, NEW s \in Nat, NEW p \in DOMAIN plan.wire,
         p \in Pending, plan.wire[p].end > s, \A i \in Passed(s) : i < p, \A i \in Pending : p <= i,
         IsCommit(plan.wire[p]), NEW t
  PROVE  OpenAt(s, t, plan.wire[p].xid) = RowsOf(t, plan.wire[p].end)
<1>1. PICK wire, x : wire = plan.wire /\ x = plan.wire[p].xid
  OBVIOUS
<1>2. /\ DOMAIN wire \subseteq Nat /\ p \in DOMAIN wire
      /\ wire \in Seq(Message) /\ DOMAIN wire = 1 .. Len(wire) /\ Len(wire) \in Nat
  BY <1>1, PlanFacts, LenProperties
<1>3. \A i \in DOMAIN wire : wire[i].end \in Nat
  BY <1>1, PlanFacts DEF Message
<1>4. \A i, j \in DOMAIN wire :
        IsRow(wire[i]) =>
          /\ EndedBy(wire, i, j) => wire[i].end = wire[j].end
          /\ IsCommit(wire[j]) /\ wire[i].end = wire[j].end => EndedBy(wire, i, j)
  BY <1>1, WireAssumption
<1>5. ASSUME NEW i \in RowsOf(t, wire[p].end) PROVE i \in OpenAt(s, t, x)
  <2>1. i \in DOMAIN wire /\ IsRow(wire[i]) /\ wire[i].table = t /\ wire[i].end = wire[p].end
    BY <1>1 DEF RowsOf
  <2>2. EndedBy(wire, i, p)
    BY <1>1, <1>2, <1>4, <2>1
  <2>3. i < p /\ wire[i].xid = x /\ \A k \in i + 1 .. p - 1 : ~EndOf(wire[k], x)
    BY <1>1, <2>2 DEF EndedBy, EndOf
  <2>4. i \in Passed(s)
    BY <1>1, <1>2, <2>1, <2>3 DEF Passed
  <2>5. ASSUME NEW j \in Passed(s), i < j PROVE ~EndOf(wire[j], x)
    <3>1. j < p /\ j \in Nat /\ i \in Nat /\ p \in Nat
      BY <1>1, <1>2, <2>1 DEF Passed
    <3>2. j \in i + 1 .. p - 1
      BY <2>5, <3>1
    <3> QED BY <2>3, <3>2
  <2> QED BY <1>1, <2>1, <2>3, <2>4, <2>5 DEF OpenAt
<1>6. ASSUME NEW i \in OpenAt(s, t, x) PROVE i \in RowsOf(t, wire[p].end)
  <2>1. /\ i \in Passed(s) /\ IsRow(wire[i]) /\ wire[i].table = t /\ wire[i].xid = x
        /\ \A j \in Passed(s) : i < j => ~EndOf(wire[j], x)
    BY <1>1 DEF OpenAt
  <2>2. i \in DOMAIN wire /\ wire[i].end > s /\ i < p
    BY <1>1, <2>1 DEF Passed
  <2>3. EndOf(wire[p], x)
    BY <1>1 DEF EndOf, IsEnd
  <2> DEFINE E == {k \in i + 1 .. p : EndOf(wire[k], x)}
  <2>4. i \in Nat /\ p \in Nat /\ E \in SUBSET Nat /\ E # {} /\ E \subseteq DOMAIN wire
    BY <1>2, <2>2, <2>3
  <2>5. PICK k \in E : \A l \in E : k <= l
    BY <2>4, NatHasMin, Zenon
  <2>6. k \in Nat /\ i < k /\ k <= p /\ k \in DOMAIN wire /\ EndOf(wire[k], x)
    BY <2>4
  <2>7. ASSUME NEW l \in i + 1 .. k - 1 PROVE ~EndOf(wire[l], x)
    <3>1. l \in i + 1 .. p /\ ~(k <= l)
      BY <2>4, <2>6
    <3> QED BY <2>5, <3>1
  <2>8. EndedBy(wire, i, k)
    BY <2>1, <2>6, <2>7 DEF EndedBy
  <2>9. wire[i].end = wire[k].end
    BY <1>4, <2>1, <2>2, <2>6, <2>8
  <2>10. k = p
    <3>1. SUFFICES ASSUME k # p PROVE FALSE
      OBVIOUS
    <3>2. k < p /\ ~(p <= k)
      BY <2>4, <2>6, <3>1
    <3>3. k \notin Pending
      BY <3>2
    <3>4. k \in Passed(s)
      BY <1>1, <2>2, <2>6, <2>9, <3>3 DEF Passed
    <3> QED BY <2>1, <2>6, <3>4
  <2> QED BY <1>1, <2>1, <2>2, <2>9, <2>10 DEF RowsOf
<1> QED BY <1>1, <1>5, <1>6
-----------------------------------------------------------------------------
(* The elements of a list that gets one more.                                *)
LEMMA RangeOfAppend ==
  ASSUME NEW S, NEW q \in Seq(S), NEW t \in S
  PROVE  Range(Append(q, t)) = Range(q) \cup {t}
<1>1. PICK r, n : r = Append(q, t) /\ n = Len(q)
  BY Zenon
<1>2. /\ n \in Nat /\ DOMAIN q = 1 .. n /\ r \in Seq(S) /\ Len(r) = n + 1 /\ r[n + 1] = t
      /\ \A k \in 1 .. n : r[k] = q[k]
  BY <1>1, AppendProperties, LenProperties
<1>3. DOMAIN r = (1 .. n) \cup {n + 1}
  BY <1>2, LenProperties
<1> QED BY <1>1, <1>2, <1>3 DEF Range

(* A row touches its table, whether the table is remembered or not.          *)
LEMMA TouchTouches ==
  ASSUME NEW tx \in Transaction, Remembers(tx), NEW t \in SrcTable
  PROVE  /\ Touch(tx, t) \in Transaction /\ Remembers(Touch(tx, t))
         /\ Range(Touch(tx, t).touched) = Range(tx.touched) \cup {t}
<1>1. tx.touched \in Seq(SrcTable) /\ t # None
  BY NoneAssumption DEF Transaction
<1>2. PICK q : q = IF tx.last # t /\ t \notin Range(tx.touched) THEN Append(tx.touched, t) ELSE tx.touched
  BY Zenon
<1>3. q \in Seq(SrcTable) /\ Range(q) = Range(tx.touched) \cup {t}
  <2>1. CASE tx.last # t /\ t \notin Range(tx.touched)
    BY <1>1, <1>2, <2>1, RangeOfAppend, AppendProperties
  <2>2. CASE ~(tx.last # t /\ t \notin Range(tx.touched))
    <3>1. t \in Range(tx.touched)
      BY <1>1, <2>2 DEF Remembers
    <3> QED BY <1>1, <1>2, <2>2, <3>1
  <2> QED BY <2>1, <2>2
<1>4. Touch(tx, t) = [tx EXCEPT !.touched = q, !.last = t]
  BY <1>2 DEF Touch
<1>5. /\ Touch(tx, t) \in Transaction /\ Touch(tx, t).touched = q /\ Touch(tx, t).last = t
  BY <1>3, <1>4, Zenon DEF Transaction
<1> QED BY <1>3, <1>5 DEF Remembers

(* A transaction of nothing.                                                 *)
LEMMA NothingTouched ==
  NoTransaction \in Transaction /\ Remembers(NoTransaction) /\ Range(NoTransaction.touched) = {}
<1>1. NoTransaction \in Transaction /\ NoTransaction.touched = <<>> /\ NoTransaction.last = None
  BY DEF NoTransaction, Transaction
<1>2. Range(<<>>) = {}
  BY DEF Range
<1> QED BY <1>1, <1>2 DEF Remembers

(* A row of the stream that is not streamed.                                 *)
LEMMA RowTouchesMain ==
  ASSUME NEW senders, NEW streaming, NEW main, NEW cached, NEW lastKey, NEW t \in SrcTable,
         SinkParts(senders, streaming, main, cached, lastKey)
  PROVE  /\ SinkParts(senders, streaming, Touch(main, t), cached, lastKey)
         /\ TouchedIn(streaming, Touch(main, t), None) = TouchedIn(streaming, main, None) \cup {t}
         /\ \A x \in Xid : TouchedIn(streaming, Touch(main, t), x) = TouchedIn(streaming, main, x)
<1>1. /\ Touch(main, t) \in Transaction /\ Remembers(Touch(main, t))
      /\ Range(Touch(main, t).touched) = Range(main.touched) \cup {t}
  BY TouchTouches DEF SinkParts
<1>2. SinkParts(senders, streaming, Touch(main, t), cached, lastKey)
  BY <1>1 DEF SinkParts
<1>3. \A x \in Xid : x # None
  BY NoneAssumption
<1> QED BY <1>1, <1>2, <1>3 DEF TouchedIn

(* A row of a streamed transaction, which is not the one met last.           *)
LEMMA RowTouchesStream ==
  ASSUME NEW senders, NEW streaming, NEW main, NEW cached, NEW lastKey, NEW t \in SrcTable, NEW x \in Xid,
         SinkParts(senders, streaming, main, cached, lastKey), NEW after,
         after = [streaming EXCEPT ![x] = Touch(IF @ = None THEN NoTransaction ELSE @, t)]
  PROVE  /\ SinkParts(senders, after, main, cached, <<x, t>>)
         /\ TouchedIn(after, main, x) = TouchedIn(streaming, main, x) \cup {t}
         /\ \A y \in AnyXid : y # x => TouchedIn(after, main, y) = TouchedIn(streaming, main, y)
<1>1. PICK tx : tx = IF streaming[x] = None THEN NoTransaction ELSE streaming[x]
  OBVIOUS
<1>2. streaming \in [Xid -> Transaction \cup {None}]
  BY DEF SinkParts
<1>3. tx \in Transaction /\ Remembers(tx) /\ TouchedIn(streaming, main, x) = Range(tx.touched)
  <2>1. CASE streaming[x] = None
    <3>1. Range(<<>>) = {} /\ x # None
      BY NoneAssumption DEF Range
    <3> QED BY <1>1, <2>1, <3>1, NothingTouched, Zenon DEF TouchedIn
  <2>2. CASE streaming[x] # None
    BY <1>1, <1>2, <2>2, NoneAssumption DEF SinkParts, TouchedIn
  <2> QED BY <2>1, <2>2
<1>4. PICK new : new = Touch(tx, t)
  OBVIOUS
<1>5. new \in Transaction /\ Remembers(new) /\ Range(new.touched) = Range(tx.touched) \cup {t}
  BY <1>3, <1>4, TouchTouches
<1>6. new # None /\ x # None
  BY <1>5, NoneAssumption DEF Transaction
<1>7. after = [streaming EXCEPT ![x] = new]
  BY <1>1, <1>4
<1>8. /\ after \in [Xid -> Transaction \cup {None}] /\ after[x] = new
      /\ \A y \in Xid : y # x => after[y] = streaming[y]
  BY <1>2, <1>5, <1>7
<1>9. \A y \in Xid : after[y] # None => Remembers(after[y])
  BY <1>5, <1>8 DEF SinkParts
<1>10. t \in Range(new.touched)
  BY <1>5
<1>11. PICK key : key = <<x, t>>
  BY Zenon
<1>12. key \in Xid \X SrcTable /\ key[1] = x /\ key[2] = t
  BY <1>11
<1>13. SinkParts(senders, after, main, cached, key)
  BY <1>6, <1>8, <1>9, <1>10, <1>12 DEF SinkParts
<1>14. TouchedIn(after, main, x) = TouchedIn(streaming, main, x) \cup {t}
  BY <1>3, <1>5, <1>6, <1>8 DEF TouchedIn
<1>15. ASSUME NEW y \in AnyXid, y # x PROVE TouchedIn(after, main, y) = TouchedIn(streaming, main, y)
  BY <1>8, <1>15 DEF TouchedIn, AnyXid
<1> QED BY <1>11, <1>13, <1>14, <1>15, Zenon
-----------------------------------------------------------------------------
(* What a step does to the tables a transaction has touched.                 *)
Touches(x, t) == \A y \in AnyXid : TouchedAt(y)' = IF y = x THEN TouchedAt(y) \cup {t} ELSE TouchedAt(y)

Forgets(x) == \A y \in AnyXid : TouchedAt(y)' = IF y = x THEN {} ELSE TouchedAt(y)

KeepsTouched == \A y \in AnyXid : TouchedAt(y)' = TouchedAt(y)

(* Known to the sink: the registered table, by its cached sender or not.     *)
LEMMA SenderIsRegistered ==
  ASSUME SinkFollows, NEW t \in SrcTable PROVE Sender(snk, t) = snk.senders[t]
BY DEF SinkFollows, SinkParts, Sender

(* What a row leaves in the sink.                                            *)
LEMMA TouchedSink ==
  ASSUME SinkFollows, NEW m, m.table \in SrcTable, m.xid \in AnyXid, NEW s, s = Touched(snk, m)
  PROVE  /\ DOMAIN s = DOMAIN snk /\ s.senders = snk.senders /\ s.cached = snk.cached
         /\ SinkParts(s.senders, s.streaming, s.main, s.cached, s.lastKey)
         /\ \A y \in AnyXid : TouchedIn(s.streaming, s.main, y) =
                                IF y = m.xid THEN TouchedAt(y) \cup {m.table} ELSE TouchedAt(y)
<1>0. HasParts /\ SinkParts(snk.senders, snk.streaming, snk.main, snk.cached, snk.lastKey)
  BY DEF SinkFollows
<1>1. CASE m.xid = None
  <2>1. s = [snk EXCEPT !.main = Touch(@, m.table)]
    BY <1>1 DEF Touched
  <2>2. /\ DOMAIN s = DOMAIN snk /\ s.senders = snk.senders /\ s.cached = snk.cached
        /\ s.streaming = snk.streaming /\ s.lastKey = snk.lastKey /\ s.main = Touch(snk.main, m.table)
    BY <1>0, <2>1 DEF HasParts
  <2>3. \A y \in Xid : y # None
    BY NoneAssumption
  <2>4. PICK main : main = Touch(snk.main, m.table)
    OBVIOUS
  <2>5. /\ SinkParts(snk.senders, snk.streaming, main, snk.cached, snk.lastKey)
        /\ TouchedIn(snk.streaming, main, None) = TouchedAt(None) \cup {m.table}
        /\ \A y \in Xid : TouchedIn(snk.streaming, main, y) = TouchedAt(y)
    BY <1>0, <2>4, RowTouchesMain DEF TouchedAt
  <2> QED BY <1>1, <2>2, <2>3, <2>4, <2>5 DEF AnyXid
<1>2. CASE m.xid # None
  <2>1. m.xid \in Xid /\ s = TouchedStream(snk, m.xid, m.table)
    BY <1>2 DEF Touched, AnyXid
  <2>2. PICK x, t : x = m.xid /\ t = m.table
    OBVIOUS
  <2>3. CASE snk.lastKey = <<x, t>>
    <3>1. s = snk
      BY <2>1, <2>2, <2>3 DEF TouchedStream
    <3>2. PICK key : key = snk.lastKey
      OBVIOUS
    <3>3. key # None
      <4>1. <<x, t>> \in Xid \X SrcTable
        BY <2>1, <2>2
      <4> QED BY <2>3, <3>2, <4>1, NoneAssumption
    <3>4. snk.streaming[key[1]] # None /\ key[2] \in Range(snk.streaming[key[1]].touched)
      BY <1>0, <3>2, <3>3 DEF SinkParts
    <3>5. key[1] = x /\ key[2] = t
      BY <2>3, <3>2
    <3>6. t \in TouchedAt(x)
      BY <1>2, <2>2, <3>4, <3>5 DEF TouchedAt, TouchedIn
    <3> QED BY <1>0, <2>2, <3>1, <3>6 DEF TouchedAt
  <2>4. CASE snk.lastKey # <<x, t>>
    <3>1. PICK after : after = [snk.streaming EXCEPT ![x] = Touch(IF @ = None THEN NoTransaction ELSE @, t)]
      BY Zenon
    <3>2. s = [snk EXCEPT !.streaming = after, !.lastKey = <<x, t>>]
      BY <2>1, <2>2, <2>4, <3>1 DEF TouchedStream
    <3>3. /\ DOMAIN s = DOMAIN snk /\ s.senders = snk.senders /\ s.cached = snk.cached
          /\ s.streaming = after /\ s.lastKey = <<x, t>> /\ s.main = snk.main
      BY <1>0, <3>2 DEF HasParts
    <3>4. /\ SinkParts(snk.senders, after, snk.main, snk.cached, <<x, t>>)
          /\ TouchedIn(after, snk.main, x) = TouchedIn(snk.streaming, snk.main, x) \cup {t}
          /\ \A y \in AnyXid : y # x => TouchedIn(after, snk.main, y) = TouchedIn(snk.streaming, snk.main, y)
      BY <1>0, <2>1, <2>2, <3>1, RowTouchesStream
    <3> QED BY <2>2, <3>3, <3>4 DEF TouchedAt
  <2> QED BY <2>3, <2>4
<1> QED BY <1>1, <1>2

(* A row touches its table and goes to its registration.                     *)
LEMMA RowOnSink ==
  ASSUME SinkFollows, NEW e, e.msg.table \in SrcTable, e.msg.xid \in AnyXid, ProcessRowEvent(e), NEW t, t = e.msg.table
  PROVE  /\ SinkFollows' /\ snk'.senders = snk.senders /\ Touches(e.msg.xid, t)
         /\ tabs' = IF snk.senders[t] = 0 THEN tabs
                    ELSE [tabs EXCEPT ![t][snk.senders[t]] = Received(@, RowEvent(e))]
<1>1. PICK s : s = Touched(snk, e.msg)
  OBVIOUS
<1>2. /\ DOMAIN s = DOMAIN snk /\ s.senders = snk.senders /\ s.cached = snk.cached
      /\ SinkParts(s.senders, s.streaming, s.main, s.cached, s.lastKey)
      /\ \A y \in AnyXid : TouchedIn(s.streaming, s.main, y) =
                             IF y = e.msg.xid THEN TouchedAt(y) \cup {t} ELSE TouchedAt(y)
  BY <1>1, TouchedSink
<1>3. Sender(s, t) = snk.senders[t]
  <2>1. Sender(s, t) = Sender(snk, t)
    BY <1>2 DEF Sender
  <2> QED BY <2>1, SenderIsRegistered
<1>4. PICK g : g = snk.senders[t]
  OBVIOUS
<1>5. /\ snk' = [s EXCEPT !.cached = IF g # 0 THEN <<t, g>> ELSE @]
      /\ tabs' = IF g = 0 THEN tabs ELSE [tabs EXCEPT ![t][g] = Received(@, RowEvent(e))]
  BY <1>1, <1>3, <1>4 DEF ProcessRowEvent
<1>6. HasParts
  BY DEF SinkFollows
<1>7. /\ DOMAIN snk' = DOMAIN snk /\ snk'.senders = snk.senders /\ snk'.streaming = s.streaming
      /\ snk'.main = s.main /\ snk'.lastKey = s.lastKey
      /\ snk'.cached = IF g # 0 THEN <<t, g>> ELSE s.cached
  BY <1>2, <1>5, <1>6 DEF HasParts
<1>8. SinkFollows'
  BY <1>2, <1>4, <1>6, <1>7 DEF SinkFollows, SinkParts, HasParts
<1>9. Touches(e.msg.xid, t)
  BY <1>2, <1>7 DEF Touches, TouchedAt
<1> QED BY <1>4, <1>5, <1>7, <1>8, <1>9

(* The end of a transaction: it has touched nothing any more.                *)
LEMMA EndOnSink ==
  ASSUME SinkFollows, HasParts', snk'.senders = snk.senders, snk'.cached = snk.cached,
         snk'.lastKey = None, NEW x \in AnyXid,
         x = None => /\ snk'.main = [snk.main EXCEPT !.touched = <<>>, !.last = None]
                     /\ snk'.streaming = snk.streaming,
         x # None => /\ snk'.main = snk.main
                     /\ snk'.streaming = [snk.streaming EXCEPT ![x] = None]
  PROVE  SinkFollows' /\ Forgets(x)
<1>0. /\ SinkParts(snk.senders, snk.streaming, snk.main, snk.cached, snk.lastKey)
      /\ snk.main \in Transaction /\ snk.streaming \in [Xid -> Transaction \cup {None}]
  BY DEF SinkFollows, SinkParts
<1>1. Range(<<>>) = {}
  BY DEF Range
<1>2. CASE x = None
  <2>1. snk'.main \in Transaction /\ snk'.main.touched = <<>> /\ snk'.main.last = None
    <3>1. PICK m : m = snk.main
      OBVIOUS
    <3>2. PICK S, T : S = Seq(SrcTable) /\ T = SrcTable \cup {None}
      BY Zenon
    <3>3. PICK none : none = <<>>
      OBVIOUS
    <3>4. m \in [final : Nat, touched : S, last : T] /\ none \in S /\ None \in T
      BY <1>0, <3>1, <3>2, <3>3 DEF Transaction
    <3>5. PICK n : n = [m EXCEPT !.touched = none, !.last = None]
      OBVIOUS
    <3>6. n \in [final : Nat, touched : S, last : T] /\ n.touched = none /\ n.last = None
      BY <3>4, <3>5, Zenon
    <3>7. snk'.main = n
      BY <1>2, <3>1, <3>3, <3>5
    <3> QED BY <3>2, <3>3, <3>6, <3>7 DEF Transaction
  <2>2. SinkParts(snk'.senders, snk'.streaming, snk'.main, snk'.cached, snk'.lastKey)
    BY <1>0, <1>2, <2>1 DEF SinkParts, Remembers
  <2>3. Forgets(x)
    BY <1>1, <1>2, <2>1, Zenon DEF Forgets, TouchedAt, TouchedIn
  <2> QED BY <2>2, <2>3 DEF SinkFollows
<1>3. CASE x # None
  <2>1. x \in Xid
    BY <1>3 DEF AnyXid
  <2>2. /\ snk'.streaming \in [Xid -> Transaction \cup {None}] /\ snk'.streaming[x] = None
        /\ \A y \in Xid : y # x => snk'.streaming[y] = snk.streaming[y]
    BY <1>0, <1>3, <2>1
  <2>3. SinkParts(snk'.senders, snk'.streaming, snk'.main, snk'.cached, snk'.lastKey)
    BY <1>0, <1>3, <2>2 DEF SinkParts
  <2>4. ASSUME NEW y \in AnyXid PROVE TouchedAt(y)' = IF y = x THEN {} ELSE TouchedAt(y)
    BY <1>1, <1>3, <2>2, Zenon DEF TouchedAt, TouchedIn, AnyXid
  <2> QED BY <2>3, <2>4 DEF SinkFollows, Forgets
<1> QED BY <1>2, <1>3

(* A step that leaves all this alone, or only forgets what was met last.     *)
LEMMA QuietSink ==
  ASSUME SinkFollows, HasParts', snk'.senders = snk.senders, snk'.cached = snk.cached,
         snk'.streaming = snk.streaming, snk'.lastKey \in {snk.lastKey, None},
         snk'.main \in Transaction, snk'.main.touched = snk.main.touched, snk'.main.last \in {snk.main.last, None}
  PROVE  SinkFollows' /\ KeepsTouched
<1>1. SinkParts(snk.senders, snk.streaming, snk.main, snk.cached, snk.lastKey)
  BY DEF SinkFollows
<1>2. SinkParts(snk'.senders, snk'.streaming, snk'.main, snk'.cached, snk'.lastKey)
  BY <1>1 DEF SinkParts, Remembers
<1>3. KeepsTouched
  BY DEF KeepsTouched, TouchedAt, TouchedIn
<1> QED BY <1>2, <1>3 DEF SinkFollows
-----------------------------------------------------------------------------
(* What a step gives the tables: an event, to the registrations of some.     *)
Delivered(T, ev) ==
  /\ T \subseteq Registered
  /\ \A t \in SrcTable :
       /\ Len(tabs'[t]) = Len(tabs[t])
       /\ \A g \in 1 .. Len(tabs[t]) :
            tabs'[t][g].got = IF t \in T /\ g = snk.senders[t] THEN Append(tabs[t][g].got, ev) ELSE tabs[t][g].got

(* What a registration received is a sequence of events.                     *)
LEMMA GotIsSeq ==
  ASSUME IInv, NEW t \in SrcTable
  PROVE  /\ Len(tabs[t]) \in Nat /\ DOMAIN tabs[t] = 1 .. Len(tabs[t])
         /\ \A g \in 1 .. Len(tabs[t]) : tabs[t][g].got \in Seq(Event)
         /\ snk.senders[t] # 0 => snk.senders[t] \in 1 .. Len(tabs[t]) /\ Got(t) \in Seq(Event)
<1>1. tabs[t] \in Seq(Tab) /\ snk.senders[t] \in Nat /\ snk.senders[t] <= Len(tabs[t])
  BY DEF IInv, TypeInv, SinkInv
<1>2. Len(tabs[t]) \in Nat /\ DOMAIN tabs[t] = 1 .. Len(tabs[t])
  BY <1>1, LenProperties
<1>3. ASSUME NEW g \in 1 .. Len(tabs[t]) PROVE tabs[t][g].got \in Seq(Event)
  <2>1. tabs[t][g] \in Tab
    BY <1>1, ElementOfSeq
  <2> QED BY <2>1 DEF Tab
<1> QED BY <1>1, <1>2, <1>3 DEF Got

(* The same, for the registrations that receive the events.                  *)
LEMMA GotAfter ==
  ASSUME IInv, NEW T, NEW ev, Delivered(T, ev), snk'.senders = snk.senders, NEW t \in SrcTable,
         snk.senders[t] # 0
  PROVE  Got(t)' = IF t \in T THEN Append(Got(t), ev) ELSE Got(t)
<1>1. snk.senders[t] \in 1 .. Len(tabs[t])
  BY GotIsSeq
<1> QED BY <1>1 DEF Delivered, Got

(* A step that changes nothing of what tables received gives them nothing.   *)
LEMMA NothingDelivered ==
  ASSUME UNCHANGED tabs, NEW ev PROVE Delivered({}, ev)
BY DEF Delivered

(* An event for one registration is delivered to its table.                  *)
LEMMA OneDelivered ==
  ASSUME IInv, NEW t \in SrcTable, snk.senders[t] # 0, NEW ev \in Event,
         tabs' = [tabs EXCEPT ![t][snk.senders[t]] = Received(@, ev)]
  PROVE  Delivered({t}, ev)
<1>1. PICK g : g = snk.senders[t]
  OBVIOUS
<1>2. tabs \in [SrcTable -> Seq(Tab)] /\ g \in 1 .. Len(tabs[t]) /\ tabs[t] \in Seq(Tab)
  BY <1>1, GotIsSeq DEF IInv, TypeInv
<1>3. PICK new : new = [tabs[t] EXCEPT ![g] = Received(tabs[t][g], ev)]
  BY Zenon
<1>4. tabs' = [tabs EXCEPT ![t] = new]
  BY <1>1, <1>2, <1>3
<1>5. tabs[t][g] \in Tab /\ LsnsBounded(tabs[t][g])
  BY <1>2, ElementOfSeq DEF IInv, Bounded
<1>6. Received(tabs[t][g], ev).got = Append(tabs[t][g].got, ev)
  BY <1>5, ReceivedIsTab
<1>7. Len(new) = Len(tabs[t])
  <2>1. Grows(tabs[t], [tabs[t] EXCEPT ![g] = Received(@, ev)])
    BY ReceivingGrows, Zenon
  <2>2. new = [tabs[t] EXCEPT ![g] = Received(@, ev)]
    BY <1>3
  <2> QED BY <2>1, <2>2 DEF Grows
<1>8. DOMAIN tabs[t] = 1 .. Len(tabs[t])
  BY GotIsSeq
<1>9. \A h \in 1 .. Len(tabs[t]) : new[h].got = IF h = g THEN Append(tabs[t][h].got, ev) ELSE tabs[t][h].got
  BY <1>3, <1>6, <1>8, Zenon
<1>10. tabs'[t] = new /\ \A u \in SrcTable : u # t => tabs'[u] = tabs[u]
  BY <1>2, <1>4
<1>11. t \in Registered
  BY DEF Registered
<1> QED BY <1>1, <1>7, <1>9, <1>10, <1>11 DEF Delivered

(* The end of a transaction goes to every registered table it touched.       *)
LEMMA EndDelivered ==
  ASSUME IInv, NEW touched, NEW e, NEW type \in EventType, e.msg \in Message, e.cols \in Nat, e.place \in Nat,
         SendEnd(touched, e, type)
  PROVE  Delivered(Range(touched) \cap Registered, TableEvent(type, e))
<1>1. PICK ev, T : ev = TableEvent(type, e) /\ T = Range(touched) \cap Registered
  BY Zenon
<1>2. ev \in Event
  BY <1>1, TableEventIsEvent
<1>3. ASSUME NEW t \in SrcTable
      PROVE  /\ Len(tabs'[t]) = Len(tabs[t])
             /\ \A g \in 1 .. Len(tabs[t]) :
                  tabs'[t][g].got = IF t \in T /\ g = snk.senders[t] THEN Append(tabs[t][g].got, ev) ELSE tabs[t][g].got
  <2>1. CASE t \in T
    <3>1. PICK s : s = snk.senders[t]
      OBVIOUS
    <3>2. tabs'[t] = [tabs[t] EXCEPT ![s] = Received(tabs[t][s], ev)]
      BY <1>1, <2>1, <3>1 DEF SendEnd, Registered
    <3>3. s \in 1 .. Len(tabs[t]) /\ DOMAIN tabs[t] = 1 .. Len(tabs[t])
      BY <1>1, <2>1, <3>1, GotIsSeq DEF Registered
    <3>4. Len(tabs'[t]) = Len(tabs[t])
      BY <1>2, <3>2, ReceivingGrows DEF Grows
    <3>5. tabs[t][s] \in Tab /\ LsnsBounded(tabs[t][s])
      BY <3>3, ElementOfSeq DEF IInv, TypeInv, Bounded
    <3>6. Received(tabs[t][s], ev).got = Append(tabs[t][s].got, ev)
      BY <1>2, <3>5, ReceivedIsTab
    <3> QED BY <2>1, <3>1, <3>2, <3>3, <3>4, <3>6, Zenon
  <2>2. CASE t \notin T
    <3>1. tabs'[t] = tabs[t]
      BY <1>1, <2>2 DEF SendEnd, Registered
    <3> QED BY <2>2, <3>1
  <2> QED BY <2>1, <2>2
<1> QED BY <1>1, <1>3 DEF Delivered

(* Faults stay.                                                              *)
FaultsStay == faults \subseteq faults'

(* What is spoilt stays so.                                                  *)
LEMMA SpoiltStays ==
  ASSUME FaultsStay
  PROVE  /\ \A t : Spoilt(t) => Spoilt(t)'
         /\ Undisturbed' => Undisturbed
BY DEF FaultsStay, Spoilt, Undisturbed

(* Commits stay whole, if a commit that is delivered makes a whole one.      *)
CommitIsWhole(T, ev) ==
  ev.type = "Commit" => \A t \in T : Spoilt(t)' \/ IsExactly(Got(t), Unended(Got(t), ev.msg.xid), RowsOf(t, ev.msg.end))

LEMMA DeliveryKeepsCommits ==
  ASSUME IInv, WholeCommits, FaultsStay, UNCHANGED plan, NEW T, NEW ev \in Event, Delivered(T, ev), IInv',
         CommitIsWhole(T, ev)
  PROVE  WholeCommits'
<1>0. \A u, k : RowsOf(u, k)' = RowsOf(u, k)
  BY DEF RowsOf
<1> SUFFICES ASSUME NEW t \in SrcTable, NEW g \in DOMAIN tabs'[t], NEW j \in DOMAIN tabs'[t][g].got,
                    tabs'[t][g].got[j].type = "Commit", ~Spoilt(t)', NEW new, new = tabs'[t][g].got
             PROVE  IsExactly(new, Since(new, j), RowsOf(t, new[j].msg.end))
  BY <1>0 DEF WholeCommits, IsWhole
<1>1. ~Spoilt(t)
  BY SpoiltStays
<1>2. g \in 1 .. Len(tabs[t]) /\ tabs[t][g].got \in Seq(Event) /\ g \in DOMAIN tabs[t]
  <2>1. DOMAIN tabs'[t] = 1 .. Len(tabs'[t])
    <3>1. tabs'[t] \in Seq(Tab)
      BY DEF IInv, TypeInv
    <3> QED BY <3>1, LenProperties
  <2> QED BY <2>1, GotIsSeq DEF Delivered
<1>3. PICK got : got = tabs[t][g].got
  OBVIOUS
<1>4. got \in Seq(Event) /\ DOMAIN got = 1 .. Len(got) /\ Len(got) \in Nat
  BY <1>2, <1>3, LenProperties
<1>6. \A k \in 1 .. Len(got) : got[k].type = "Commit" => IsExactly(got, Since(got, k), RowsOf(t, got[k].msg.end))
  BY <1>1, <1>2, <1>3, <1>4 DEF WholeCommits, IsWhole
<1>7. CASE new = got
  BY <1>4, <1>6, <1>7
<1>8. CASE new = Append(got, ev) /\ t \in T /\ g = snk.senders[t]
  <2>1. /\ new \in Seq(Event) /\ Len(new) = Len(got) + 1 /\ DOMAIN new = 1 .. Len(got) + 1
        /\ new[Len(got) + 1] = ev /\ \A k \in 1 .. Len(got) : new[k] = got[k]
    BY <1>4, <1>8, AppendProperties, LenProperties
  <2>2. CASE j \in 1 .. Len(got)
    <3>1. Since(new, j) = Since(got, j) /\ Since(got, j) \subseteq 1 .. Len(got)
      BY <1>4, <1>8, <2>2, SinceOfAppend, SMTT(30) DEF Since
    <3>2. IsExactly(got, Since(got, j), RowsOf(t, got[j].msg.end))
      BY <1>3, <1>6, <2>1, <2>2, Zenon
    <3>3. IsExactly(new, Since(got, j), RowsOf(t, got[j].msg.end))
      BY <1>4, <1>8, <3>1, <3>2, ExactlyOfAppend
    <3> QED BY <2>1, <2>2, <3>1, <3>3
  <2>3. CASE j = Len(got) + 1
    <3>1. Since(new, j) = Unended(got, ev.msg.xid) /\ Unended(got, ev.msg.xid) \subseteq 1 .. Len(got)
      BY <1>4, <1>8, <2>3, SinceOfAppend, SMTT(30) DEF Unended
    <3>2. got = Got(t) /\ ev.type = "Commit"
      BY <1>3, <1>8, <2>1, <2>3, Zenon DEF Got
    <3>3. IsExactly(got, Unended(got, ev.msg.xid), RowsOf(t, ev.msg.end))
      BY <1>8, <3>2 DEF CommitIsWhole
    <3>4. IsExactly(new, Unended(got, ev.msg.xid), RowsOf(t, ev.msg.end))
      BY <1>4, <1>8, <3>1, <3>3, ExactlyOfAppend
    <3> QED BY <2>1, <2>3, <3>1, <3>4
  <2> QED BY <1>4, <2>1, <2>2, <2>3
<1>9. new = got \/ (new = Append(got, ev) /\ t \in T /\ g = snk.senders[t])
  BY <1>2, <1>3, Zenon DEF Delivered
<1> QED BY <1>7, <1>8, <1>9
=============================================================================
