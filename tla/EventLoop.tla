------------------------------ MODULE EventLoop ------------------------------
(***************************************************************************)
(* The replication event loop of one Postgres connection                   *)
(* (pg_replicate.rs: run_event_loop), with the logical stream it reads     *)
(* (postgres_source.rs, conversions/cdc_event.rs) and the sink that routes *)
(* events to the tables (moonlink_sink.rs).  A row is its place in the     *)
(* stream and the number of its columns; a table is what it received and   *)
(* how far it is durable (TableHandler models the rest of it).             *)
(*                                                                         *)
(* The server is external: it sends the messages of every transaction that *)
(* ends after the LSN the stream was started from, in one order.           *)
(***************************************************************************)
EXTENDS Integers, Sequences, FiniteSets, FiniteSetsExt, Functions

CONSTANTS
  SrcTable,       \* source tables
  Xid,            \* streamed transactions
  None,
  MaxEventsPerWake,
  StreamScenarios \* see MCReplication

VARIABLES
  plan,           \* the scenario: the wire, the commands, the source's columns, budgets
  server,         \* the slot's confirmed LSN and the places of the wire still to be sent
  loop,           \* where the loop is, the commands it has not read, its schemas
  batch,          \* converted events of the last wake, not yet processed, by their places
  snk,            \* Sink
  tabs,           \* per table and registration: the events received, the durable LSNs
  budget,
  faults          \* what happened that the code does not allow for (history)

streamVars == <<plan, server, loop, batch, snk, tabs, budget, faults>>
-----------------------------------------------------------------------------
(* The wire: [type, table, xid, lsn, end, cols, bad].  lsn is the final LSN  *)
(* of a Begin, the end LSN of a commit and the position of a keepalive; end  *)
(* is the end LSN of the transaction the message belongs to.                 *)
RowTypes == {"Insert", "Update", "Delete"}

Message == [type : STRING, table : SrcTable \cup {None}, xid : Xid \cup {None}, lsn : Nat, end : Nat,
            cols : Nat, bad : BOOLEAN, aborted : BOOLEAN]

ASSUME StreamAssumption ==
  /\ StreamScenarios \subseteq
       [wire : Seq(Message), commands : Seq([type : STRING, table : SrcTable, cols : Nat]),
        columns : [SrcTable -> Nat], budget : [disconnect : Nat, fail : Nat, wal : Nat]]
  /\ \A s \in StreamScenarios : \A i \in DOMAIN s.wire :
       s.wire[i].type \in RowTypes \cup {"Relation"} => s.wire[i].table \in SrcTable

IsRow(m) == m.type \in RowTypes

IsCommit(m) == m.type \in {"Commit", "StreamCommit"}

IsEnd(m) == IsCommit(m) \/ m.type = "StreamAbort"

EndOf(m, x) == IsEnd(m) /\ m.xid = x

(* The message at j is the first after i to end a transaction of its xid, or *)
(* one that is not streamed                                                  *)
EndedBy(wire, i, j) ==
  i < j /\ EndOf(wire[j], wire[i].xid) /\ \A k \in i + 1 .. j - 1 : ~EndOf(wire[k], wire[i].xid)

(* How Postgres sends transactions: the rows of one come before its end and  *)
(* after the end of the one before, that of the same xid where transactions  *)
(* are streamed; each ends at an LSN of its own                              *)
ASSUME WireAssumption ==
  \A s \in StreamScenarios : \A i, j \in DOMAIN s.wire :
    /\ IsRow(s.wire[i]) =>
         /\ EndedBy(s.wire, i, j) => s.wire[i].end = s.wire[j].end
         /\ IsCommit(s.wire[j]) /\ s.wire[i].end = s.wire[j].end => EndedBy(s.wire, i, j)
    /\ s.wire[i].type = "Commit" => s.wire[i].xid = None
    /\ s.wire[i].type \in {"StreamCommit", "StreamAbort"} => s.wire[i].xid \in Xid

(* A replicated table has columns *)
ASSUME ColumnsAssumption ==
  \A s \in StreamScenarios :
    /\ \A t \in SrcTable : s.columns[t] > 0
    /\ \A i \in DOMAIN s.commands : s.commands[i].type = "AddTable" => s.commands[i].cols > 0

(* since: the position of the slot when the table was registered (history) *)
NewTab == [got |-> <<>>, flush |-> 0, wal |-> 0, since |-> server.confirmed]

NoTransaction == [final |-> 0, touched |-> <<>>, last |-> None]

ASSUME NoneAssumption ==
  /\ None \notin SrcTable /\ None \notin Xid
  /\ None \notin Xid \X SrcTable
  /\ None \notin [final : Nat, touched : Seq(SrcTable), last : SrcTable \cup {None}]

NewSink ==
  [senders   |-> [t \in SrcTable |-> 0],       \* event_senders: the registration it sends to
   commit    |-> [t \in SrcTable |-> 0],       \* commit_lsn_txs
   streaming |-> [x \in Xid |-> None],         \* streaming_transactions_state
   main      |-> NoTransaction,                \* transaction_state
   relation  |-> [t \in SrcTable |-> 0],       \* relation_cache: the number of columns
   cached    |-> None,                         \* cached_event_sender
   lastKey   |-> None,                         \* streaming_last_key
   floor     |-> 0,                            \* max_keepalive_lsn_seen
   replicated |-> 0]                           \* ReplicationState

StreamInit ==
  /\ plan \in StreamScenarios
  /\ server = [confirmed |-> 0, queue |-> {}]
  /\ loop = [state |-> "down", commands |-> plan.commands,
             schemas |-> [t \in SrcTable |-> 0], saved |-> [t \in SrcTable |-> 0]]
  /\ batch = <<>>
  /\ snk = NewSink
  /\ tabs = [t \in SrcTable |-> <<>>]
  /\ budget = plan.budget
  /\ faults = {}

Registered == {t \in SrcTable : snk.senders[t] # 0}

Panic(why) == loop' = [loop EXCEPT !.state = "panicked"] /\ faults' = faults \cup why
-----------------------------------------------------------------------------
(* compute_confirmed_wal_flush_lsn: the smallest durable LSN of the tables;  *)
(* that of the log where it has one                                          *)
Durable(t) == LET tb == tabs[t][snk.senders[t]] IN IF tb.wal > 0 THEN tb.wal ELSE tb.flush

(* Mutant: tables that have persisted nothing yet do not count *)
ConfirmedLsnOfDurable ==
  LET lsns == {Durable(t) : t \in Registered} \ {0} IN IF lsns = {} THEN 0 ELSE Min(lsns)

ConfirmedLsn == IF Registered = {} THEN 0 ELSE Min({Durable(t) : t \in Registered})

(* The next connection: the stream is started from the confirmed LSN, the   *)
(* keepalive floor forgotten, the schemas of the last stream put back       *)
Connect ==
  LET start == Max({server.confirmed, ConfirmedLsn})
  IN  /\ loop.state = "down"
      /\ server' = [confirmed |-> start, queue |-> {i \in DOMAIN plan.wire : plan.wire[i].end > start}]
      /\ loop' = [loop EXCEPT !.state = "up", !.schemas = loop.saved]
      /\ snk' = [snk EXCEPT !.floor = 0]
      /\ UNCHANGED <<plan, batch, tabs, budget, faults>>

(* connect_replication or create_cdc_stream fails: the loop returns the error *)
ConnectFails ==
  /\ loop.state = "down"
  /\ budget.fail > 0
  /\ budget' = [budget EXCEPT !.fail = @ - 1]
  /\ loop' = [loop EXCEPT !.state = "failed"]
  /\ UNCHANGED <<plan, server, batch, snk, tabs, faults>>

Idle == loop.state = "up" /\ batch = <<>>

(* The status tick; Postgres never moves a slot back *)
SendStatus ==
  /\ Idle
  /\ ConfirmedLsn > server.confirmed
  /\ server' = [server EXCEPT !.confirmed = ConfirmedLsn]
  /\ UNCHANGED <<plan, loop, batch, snk, tabs, budget, faults>>

(* Rows already handed to a table whose transaction is still open *)
OpenRows == snk.main.touched # <<>> \/ \E x \in Xid : snk.streaming[x] # None

(* The stream ends, or the connection closes: the schemas are kept, the     *)
(* sink keeps everything                                                    *)
Disconnect ==
  /\ Idle
  /\ budget.disconnect > 0
  /\ budget' = [budget EXCEPT !.disconnect = @ - 1]
  /\ loop' = [loop EXCEPT !.state = "down", !.saved = loop.schemas]
  /\ faults' = IF OpenRows THEN faults \cup {<<"sent again", None>>} ELSE faults
  /\ UNCHANGED <<plan, server, batch, snk, tabs>>
-----------------------------------------------------------------------------
(* Sink::add_table and drop_table; the stream's schemas follow *)
AddToSink(t, g, cols) ==
  [snk EXCEPT !.senders[t] = g, !.commit[t] = 0, !.relation[t] = cols]

(* Mutant: the cached sender outlives its table *)
DropFromSinkCached(t) == [snk EXCEPT !.senders[t] = 0, !.commit[t] = 0]

DropFromSink(t) ==
  [snk EXCEPT !.senders[t] = 0, !.commit[t] = 0,
              !.cached = IF @ # None /\ @[1] = t THEN None ELSE @]

(* A table that is added again in the middle of a transaction gets its end  *)
InTransaction(t) ==
  t \in Range(snk.main.touched) \/ \E x \in Xid : snk.streaming[x] # None /\ t \in Range(snk.streaming[x].touched)

Command ==
  LET c == Head(loop.commands)
      t == c.table
  IN  /\ Idle
      /\ loop.commands # <<>>
      /\ \/ /\ c.type = "AddTable"
            /\ tabs' = [tabs EXCEPT ![t] = Append(@, NewTab)]
            /\ snk' = AddToSink(t, Len(tabs[t]) + 1, c.cols)
            /\ IF loop.schemas[t] # 0 THEN Panic({})
               ELSE /\ loop' = [loop EXCEPT !.commands = Tail(@), !.schemas[t] = c.cols]
                    /\ faults' = IF InTransaction(t) THEN faults \cup {<<"missed", t>>} ELSE faults
         \/ /\ c.type = "DropTable"
            /\ snk' = DropFromSink(t)
            /\ IF snk.senders[t] = 0 \/ loop.schemas[t] = 0 THEN Panic({})
               ELSE /\ loop' = [loop EXCEPT !.commands = Tail(@), !.schemas[t] = 0]
                    /\ UNCHANGED faults
            /\ UNCHANGED tabs
         \/ /\ c.type = "Shutdown"
            /\ loop' = [loop EXCEPT !.commands = Tail(@), !.state = "stopped"]
            /\ UNCHANGED <<snk, tabs, faults>>
      /\ UNCHANGED <<plan, server, batch, budget>>
-----------------------------------------------------------------------------
(* CdcEventConverter::try_from: with the schemas the stream has now, before *)
(* any event of the batch is processed.  A row with fewer columns than the  *)
(* schema is an index out of bounds; one with more loses the others         *)
Kind(m) ==
  CASE IsRow(m) /\ loop.schemas[m.table] = 0     -> "MissingSchema"
    [] m.type = "Unsupported"                    -> "MessageNotSupported"
    [] IsRow(m) /\ loop.schemas[m.table] > m.cols -> "Panic"
    [] m.bad                                     -> "Error"
    [] OTHER                                     -> "Ok"

Converted(i) ==
  LET m == plan.wire[i]
  IN  [kind |-> Kind(m), msg |-> m, cols |-> IF IsRow(m) THEN loop.schemas[m.table] ELSE 0, place |-> i]

(* The relation message of a change of schema is in the same batch *)
Stale(places) ==
  \E i \in places : LET m == plan.wire[i]
                    IN  IsRow(m) /\ loop.schemas[m.table] \notin {0, m.cols}

FirstOf(places, k) == {i \in places : Cardinality({j \in places : j <= i}) <= k}

(* next_batch_msgs *)
NextBatch(k) ==
  LET places == FirstOf(server.queue, k)
      events == [i \in places |-> Converted(i)]
  IN  /\ Idle
      /\ k <= Cardinality(server.queue)
      /\ server' = [server EXCEPT !.queue = @ \ places]
      /\ IF \E i \in places : events[i].kind = "Panic"
         THEN Panic({<<"stale schema", None>>}) /\ UNCHANGED batch
         ELSE /\ batch' = events
              /\ UNCHANGED loop
              /\ faults' = faults \cup (IF Stale(places) THEN {<<"stale schema", None>>} ELSE {})
      /\ UNCHANGED <<plan, snk, tabs, budget>>
-----------------------------------------------------------------------------
(* get_final_lsn: a row touches its table in its transaction.  The last     *)
(* streamed transaction and table are remembered, and then known touched    *)
Touch(x, t) == [x EXCEPT !.touched = IF x.last # t /\ t \notin Range(@) THEN Append(@, t) ELSE @,
                         !.last = t]

(* Mutant: a transaction is only touched by its first table *)
TouchedStreamFirst(s, x, t) ==
  IF s.lastKey # None /\ s.lastKey[1] = x THEN s
  ELSE [s EXCEPT !.streaming[x] = Touch(IF @ = None THEN NoTransaction ELSE @, t), !.lastKey = <<x, t>>]

TouchedStream(s, x, t) ==
  IF s.lastKey = <<x, t>> THEN s
  ELSE [s EXCEPT !.streaming[x] = Touch(IF @ = None THEN NoTransaction ELSE @, t), !.lastKey = <<x, t>>]

Touched(s, m) ==
  IF m.xid # None THEN TouchedStream(s, m.xid, m.table) ELSE [s EXCEPT !.main = Touch(@, m.table)]

(* get_event_sender_for *)
Sender(s, t) == IF s.cached # None /\ s.cached[1] = t THEN s.cached[2] ELSE s.senders[t]

Received(tb, e) == [tb EXCEPT !.got = Append(@, e)]

TableEvent(type, e) == [type |-> type, msg |-> e.msg, cols |-> e.cols, place |-> e.place]

(* An update is sent as a deletion and an insertion, one right after the other *)
RowEvent(e) ==
  CASE e.msg.type = "Insert" -> TableEvent("Append", e)
    [] e.msg.type = "Delete" -> TableEvent("Delete", e)
    [] e.msg.type = "Update" -> TableEvent("DeleteAppend", e)

ProcessRowEvent(e) ==
  LET s == Touched(snk, e.msg)
      t == e.msg.table
      g == Sender(s, t)
  IN  /\ snk' = [s EXCEPT !.cached = IF g # 0 THEN <<t, g>> ELSE @]
      /\ tabs' = IF g = 0 THEN tabs ELSE [tabs EXCEPT ![t][g] = Received(@, RowEvent(e))]

(* The end of a transaction, for the tables it touched *)
SendEnd(touched, e, type) ==
  tabs' = [t \in SrcTable |->
             IF t \in Range(touched) /\ snk.senders[t] # 0
             THEN [tabs[t] EXCEPT ![snk.senders[t]] = Received(@, TableEvent(type, e))]
             ELSE tabs[t]]

Marked(s, touched, lsn) ==
  [s EXCEPT !.commit = [t \in SrcTable |-> IF t \in Range(touched) /\ s.senders[t] # 0
                                           THEN Max({s.commit[t], lsn}) ELSE s.commit[t]],
            !.replicated = Max({@, lsn}),
            !.lastKey = None]

AfterCommit(lsn) == [Marked(snk, snk.main.touched, lsn) EXCEPT !.main.touched = <<>>, !.main.last = None]

StreamTouched(x) == IF snk.streaming[x] = None THEN <<>> ELSE snk.streaming[x].touched

(* No transaction ends, and none begins, before a position the server       *)
(* announced on this connection                                             *)
BelowFloor(m) == m.type \in {"Begin", "Commit", "StreamCommit", "KeepAlive"} /\ m.lsn < snk.floor

(* A relation with another number of columns than the cache has: the schema *)
(* the source has now is fetched, and the table altered.  A dropped table   *)
(* stays in the cache, but its schema is gone from the stream               *)
NeedsSchema(m) == snk.relation[m.table] # 0 /\ snk.relation[m.table] # m.cols

ChangeSchema(e) ==
  LET t == e.msg.table
      now == plan.columns[t]
      g == snk.senders[t]
  IN  /\ snk' = [snk EXCEPT !.relation[t] = now]
      /\ tabs' = IF g = 0 THEN tabs
                 ELSE [tabs EXCEPT ![t][g] =
                         Received(@, TableEvent("AlterTable", [e EXCEPT !.cols = now]))]
      /\ IF loop.schemas[t] = 0 THEN Panic({<<"dropped table", None>>})
         ELSE loop' = [loop EXCEPT !.schemas[t] = now] /\ UNCHANGED faults

(* process_cdc_event *)
ProcessCdcEvent(e) ==
  LET m == e.msg
  IN  \/ /\ IsRow(m) /\ ProcessRowEvent(e)
         /\ UNCHANGED <<loop, faults>>
      \/ /\ m.type = "Begin"
         /\ snk' = [snk EXCEPT !.main.final = m.lsn, !.main.last = None, !.lastKey = None]
         /\ UNCHANGED <<loop, tabs, faults>>
      \/ /\ m.type = "Commit"
         /\ SendEnd(snk.main.touched, e, "Commit")
         /\ snk' = AfterCommit(m.lsn)
         /\ UNCHANGED <<loop, faults>>
      \/ /\ m.type = "StreamCommit"
         /\ SendEnd(StreamTouched(m.xid), e, "Commit")
         /\ snk' = [Marked(snk, StreamTouched(m.xid), m.lsn) EXCEPT !.streaming[m.xid] = None]
         /\ UNCHANGED <<loop, faults>>
      \/ /\ m.type = "StreamAbort"
         /\ SendEnd(StreamTouched(m.xid), e, "StreamAbort")
         /\ snk' = [snk EXCEPT !.streaming[m.xid] = None, !.lastKey = None]
         /\ UNCHANGED <<loop, faults>>
      \/ /\ m.type = "KeepAlive"
         /\ snk' = [snk EXCEPT !.floor = Max({@, m.lsn}), !.replicated = Max({@, m.lsn})]
         /\ UNCHANGED <<loop, tabs, faults>>
      \/ /\ m.type = "Relation"
         /\ IF NeedsSchema(m) THEN ChangeSchema(e) ELSE UNCHANGED <<loop, snk, tabs, faults>>
      \/ /\ m.type \in {"StreamStart", "StreamStop", "Type"}
         /\ UNCHANGED <<loop, snk, tabs, faults>>

NextEvent == batch[Min(DOMAIN batch)]

RestOfBatch == Restrict(batch, DOMAIN batch \ {Min(DOMAIN batch)})

(* One event of the batch.  A row of an unknown table and a message that is *)
(* not supported are passed over.  On another error the schemas are saved   *)
(* and the rest of the batch is dropped; the stream goes on                 *)
ProcessEvent ==
  LET e == NextEvent
  IN  /\ loop.state = "up"
      /\ batch # <<>>
      /\ batch' = IF e.kind = "Error" THEN <<>> ELSE RestOfBatch
      /\ \/ /\ e.kind \in {"MissingSchema", "MessageNotSupported"}
            /\ faults' = IF e.kind = "MissingSchema" THEN faults \cup {<<"missed", e.msg.table>>} ELSE faults
            /\ UNCHANGED <<loop, snk, tabs>>
         \/ /\ e.kind = "Error"
            /\ loop' = [loop EXCEPT !.saved = loop.schemas]
            /\ faults' = faults \cup {<<"cut", None>>}
            /\ UNCHANGED <<snk, tabs>>
         \/ /\ e.kind = "Ok"
            /\ IF BelowFloor(e.msg) THEN Panic({}) /\ UNCHANGED <<snk, tabs>> ELSE ProcessCdcEvent(e)
      /\ UNCHANGED <<plan, server, budget>>

(* fetch_table_schema fails: the loop returns the error *)
FetchFails ==
  LET e == NextEvent
  IN  /\ loop.state = "up"
      /\ batch # <<>> /\ budget.fail > 0
      /\ e.kind = "Ok" /\ e.msg.type = "Relation" /\ NeedsSchema(e.msg)
      /\ budget' = [budget EXCEPT !.fail = @ - 1]
      /\ loop' = [loop EXCEPT !.state = "failed"]
      /\ batch' = RestOfBatch
      /\ UNCHANGED <<plan, server, snk, tabs, faults>>
-----------------------------------------------------------------------------
(* The table's side: what it has committed becomes durable, in Iceberg or   *)
(* in its log                                                               *)
Commits(tb) == {e \in Range(tb.got) : e.type = "Commit"}

LastCommit(tb) == Max({0} \cup {e.msg.lsn : e \in Commits(tb)})

FlushTable(t) ==
  LET g == snk.senders[t]
  IN  /\ g # 0
      /\ tabs[t][g].flush < LastCommit(tabs[t][g])
      /\ tabs' = [tabs EXCEPT ![t][g].flush = LastCommit(tabs[t][g])]
      /\ UNCHANGED <<plan, server, loop, batch, snk, budget, faults>>

FlushTableWal(t) ==
  LET g == snk.senders[t]
  IN  /\ g # 0
      /\ budget.wal > 0
      /\ tabs[t][g].wal < LastCommit(tabs[t][g])
      /\ tabs' = [tabs EXCEPT ![t][g].wal = LastCommit(tabs[t][g])]
      /\ budget' = [budget EXCEPT !.wal = @ - 1]
      /\ UNCHANGED <<plan, server, loop, batch, snk, faults>>

StreamProgress ==
  \/ Connect \/ Command \/ ProcessEvent \/ SendStatus
  \/ \E k \in 1 .. MaxEventsPerWake : NextBatch(k)
  \/ \E t \in SrcTable : FlushTable(t)

StreamNext ==
  \/ StreamProgress
  \/ ConnectFails \/ FetchFails \/ Disconnect
  \/ \E t \in SrcTable : FlushTableWal(t)

StreamSpec == StreamInit /\ [][StreamNext]_streamVars
-----------------------------------------------------------------------------
(* The rows of a transaction for a table, by their places on the wire *)
RowsOf(t, end) ==
  {i \in DOMAIN plan.wire : IsRow(plan.wire[i]) /\ plan.wire[i].table = t /\ plan.wire[i].end = end}

Spoilt(t) ==
  faults \cap {<<"cut", None>>, <<"sent again", None>>, <<"stale schema", None>>, <<"missed", t>>} # {}

(* The rows a table received before j for the transaction j is about *)
Since(got, j) ==
  {k \in 1 .. j - 1 : /\ IsRow(got[k].msg) /\ got[k].msg.xid = got[j].msg.xid
                      /\ \A l \in k + 1 .. j - 1 : ~EndOf(got[l].msg, got[j].msg.xid)}

(* Events that are these rows of the wire, in order, with all their columns *)
IsExactly(got, ks, rows) ==
  /\ {got[k].place : k \in ks} = rows
  /\ \A k, l \in ks : k < l => got[k].place < got[l].place
  /\ \A k \in ks : got[k].cols = got[k].msg.cols

IsWhole(got, j, t) == IsExactly(got, Since(got, j), RowsOf(t, got[j].msg.end))

(* A table commits whole transactions: what it received for a transaction    *)
(* before the commit is every row the source wrote to it, in order, with     *)
(* every column, and no row of another transaction.  Not if the loop dropped *)
(* the rest of a batch, started a stream again in the middle of a            *)
(* transaction, decoded rows before the change of their schema was seen, or  *)
(* passed over rows of a table it did not know yet                           *)
(* (process_cdc_event, next_batch_msgs).                                     *)
WholeCommits ==
  \A t \in SrcTable : \A g \in DOMAIN tabs[t] : \A j \in DOMAIN tabs[t][g].got :
    LET got == tabs[t][g].got
    IN  got[j].type = "Commit" /\ ~Spoilt(t)
          => IsWhole(got, j, t)

(* What the comment of the loop says: after an error the stream is started   *)
(* again, so no table commits part of a transaction.                         *)
CutBatchIsResent ==
  \A t \in SrcTable : \A g \in DOMAIN tabs[t] : \A j \in DOMAIN tabs[t][g].got :
    LET got == tabs[t][g].got
    IN  got[j].type = "Commit" /\ faults \subseteq {<<"cut", None>>} => IsWhole(got, j, t)

(* The server may forget what the slot confirms: every transaction a table   *)
(* was given after it was registered is durable there by then, in Iceberg or *)
(* in its log.  What was confirmed before is left to the initial copy        *)
(* (compute_confirmed_wal_flush_lsn, update_applied_lsn).                    *)
SlotIsSafe ==
  \A t \in Registered :
    LET tb == tabs[t][snk.senders[t]]
    IN  \A e \in Commits(tb) :
          tb.since < e.msg.lsn /\ e.msg.lsn <= server.confirmed => e.msg.lsn <= Max({tb.flush, tb.wal})

Given(t) == \A i \in DOMAIN plan.wire :
              IsRow(plan.wire[i]) /\ plan.wire[i].table = t /\ ~plan.wire[i].aborted =>
                \E e \in Commits(tabs[t][snk.senders[t]]) : e.msg.lsn = plan.wire[i].end

(* However often the connection breaks, every registered table is given      *)
(* every transaction the source committed, unless the loop ended, the rest   *)
(* of a batch was dropped or rows came before the table was known.  A table  *)
(* added again is brought up to date by its initial copy.  The loop panics   *)
(* only on a row decoded with the schema before a change, or of a table it   *)
(* just dropped.                                                             *)
StreamCatchesUp ==
  <>[](\/ loop.state \in {"failed", "stopped"}
       \/ loop.state = "panicked" /\ faults \cap {<<"stale schema", None>>, <<"dropped table", None>>} # {}
       \/ faults \cap {<<"cut", None>>} # {}
       \/ \A t \in Registered : snk.senders[t] > 1 \/ <<"missed", t>> \in faults \/ Given(t))
=============================================================================
