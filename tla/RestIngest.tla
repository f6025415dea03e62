----------------------------- MODULE RestIngest -----------------------------
(***************************************************************************)
(* Ingestion over REST: the HTTP handlers of moonlink_service/rest_api.rs, *)
(* the request stream of rest_source.rs, the sink of moonlink_rest_sink.rs *)
(* and the event loop of rest_ingest.rs that joins them.                   *)
(*                                                                         *)
(* Rows have no source LSN: one generator, shared by all tables, numbers   *)
(* them.  Inserting files is done by tasks of their own, which draw LSNs   *)
(* while the loop goes on with other requests.  What a table does with its *)
(* events is modelled in TableHandler and Wal; here a table is the events  *)
(* it received, how far its log and its Iceberg table are durable, and the *)
(* log's demand that commits never go back.                                *)
(***************************************************************************)
EXTENDS Integers, Sequences, SequencesExt, FiniteSets, FiniteSetsExt

CONSTANTS
  Client,
  Table,          \* table names; a name is routed to the table of that name
  Null,
  MaxHeavyOps,    \* max_concurrent_heavy_ops
  RestScenarios       \* [Client -> Seq(Request)] with budgets, see MCReplication

VARIABLES
  restScenario,
  source,         \* RestSource: its generator, the names it routes, the file request that
                  \* waits for a permit, and its lock: read by the suspended stream, or
                  \* awaited for writing by the loop
  queue,          \* the bounded channel of EventRequests
  heavy,          \* the file insertions under way, by request
  sink,           \* RestSink: its tables, the table whose rows are not committed, and the
                  \* replication LSN
  tables,         \* the tables behind the sink
  client,         \* the HTTP handlers
  left,           \* how often a table may still be dropped, and the service restarted
  crossed           \* what happened that the code does not allow for (history)

restVars == <<restScenario, source, queue, heavy, sink, tables, client, left, crossed>>
-----------------------------------------------------------------------------
(* EventRequest.  files: the number of rows of each file, Unreadable for a   *)
(* file that cannot be read; valid: the payload converts to a row            *)
Unreadable == 0 - 1

Request(id) == restScenario.requests[id[1]][id[2]]

(* RestEvent, and the TableEvents the sink makes of it *)
Event(kind, id, lsn) == [kind |-> kind, req |-> id, lsn |-> lsn]

(* highest: of the log's commits; flushed: of those in a file; announced: the *)
(* LSN of wal_flush_lsn_rx; initial: initial_persistence_lsn, 0 for none;     *)
(* dropped: the requests of which an event was discarded (history)            *)
NewRestTable ==
  [events |-> <<>>, commit |-> 0, highest |-> 0, flushed |-> 0, announced |-> 0, persisted |-> 0,
   initial |-> 0, dropped |-> {}, dead |-> FALSE]

RestInit ==
  /\ restScenario \in RestScenarios
  /\ source = [lsn |-> 1, names |-> Table, waiting |-> Null, lock |-> "free"]
  /\ queue = <<>>
  /\ heavy = [id \in {} |-> Null]
  /\ sink = [tables |-> Table, progress |-> Null, replicated |-> 0, dead |-> FALSE]
  /\ tables = [t \in Table |-> NewRestTable]
  /\ client = [c \in Client |-> [next |-> 1, wait |-> Null, lsn |-> 0, told |-> {}, safe |-> {}]]
  /\ left = restScenario.budget
  /\ crossed = {}
-----------------------------------------------------------------------------
(* The handlers: a request is put into the channel; a synchronous one, a    *)
(* snapshot and a flush wait for the answer of the loop                     *)
Mode(r) == IF r.op \in {"snapshot", "flush"} THEN "sync" ELSE r.mode

Send(c) ==
  LET me == client[c]
      r  == restScenario.requests[c][me.next]
  IN  /\ ~sink.dead
      /\ me.wait = Null
      /\ me.next <= Len(restScenario.requests[c])
      /\ queue' = Append(queue, <<c, me.next>>)
      /\ client' = [client EXCEPT ![c].wait = IF Mode(r) = "sync" THEN "answer" ELSE Null,
                                  ![c].next = @ + 1]
      /\ UNCHANGED <<restScenario, source, heavy, sink, tables, left, crossed>>

(* What the LSN in a snapshot or flush request is: the last one it was told *)
AskedLsn(id) == client[id[1]].lsn

(* send_event_request fails when the loop is gone, and recv() returns Null *)
Abandon(c) ==
  /\ sink.dead
  /\ client[c].wait \in {"answer"} \/ (client[c].wait = Null /\ client[c].next <= Len(restScenario.requests[c]))
  /\ client' = [client EXCEPT ![c].wait = Null, ![c].next = Len(restScenario.requests[c]) + 1]
  /\ UNCHANGED <<restScenario, source, queue, heavy, sink, tables, left, crossed>>

(* wait_for_wal_flush and create_snapshot return once the watched LSN is    *)
(* there: everything this client was told of, up to it, should be safe      *)
(* Mutant: the request waits for the commit to be seen *)
WatchedCommit(id) == tables[Request(id).table].commit

Watched(id) == LET tb == tables[Request(id).table]
               IN  IF Request(id).op = "flush" THEN tb.announced ELSE tb.persisted

Returned(c) ==
  LET id == <<c, client[c].next - 1>>
  IN  /\ client[c].wait = "durable"
      /\ Watched(id) >= AskedLsn(id)
      /\ client' = [client EXCEPT ![c].wait = Null,
                                  ![c].safe = @ \cup {a \in client[c].told :
                                                        Request(a[1]).table = Request(id).table}]
      /\ UNCHANGED <<restScenario, source, queue, heavy, sink, tables, left, crossed>>

(* The table was dropped, or its loop died: the watch channel closes *)
GivenUp(c) ==
  LET t == Request(<<c, client[c].next - 1>>).table
  IN  /\ client[c].wait = "durable"
      /\ t \notin sink.tables \/ tables[t].dead
      /\ client' = [client EXCEPT ![c].wait = Null]
      /\ UNCHANGED <<restScenario, source, queue, heavy, sink, tables, left, crossed>>
-----------------------------------------------------------------------------
(* should_discard_event: a recovered table takes an LSN it was loaded at, or *)
(* that its log had reached, for one it already has; loads are not looked at *)
ShouldDiscard(tb, e) == e.kind \in {"Append", "Delete", "Commit"} /\ e.lsn <= tb.initial

(* The table's side of a TableEvent.  Its log refuses a commit older than   *)
(* the last one: WalManager::push asserts, and the table's loop is gone     *)
Receive(tb, e) ==
  IF tb.dead THEN tb
  ELSE IF ShouldDiscard(tb, e) THEN [tb EXCEPT !.dropped = @ \cup {e.req}]
  ELSE [tb EXCEPT !.events  = Append(@, e),
                  !.highest = IF e.kind = "Commit" THEN Max({@, e.lsn}) ELSE @,
                  !.dead    = e.kind = "Commit" /\ e.lsn < tb.highest]

(* send_table_event: fails when the sink does not know the table *)
CanSend(w, t) == t \in w.sink.tables /\ ~w.tables[t].dead

SendEvent(w, t, e) == IF CanSend(w, t) THEN [w EXCEPT !.tables[t] = Receive(@, e)] ELSE w

MarkCommit(w, t, lsn) ==
  IF t \notin w.sink.tables THEN w
  ELSE [w EXCEPT !.tables[t].commit = Max({@, lsn}), !.sink.replicated = Max({@, lsn})]

(* process_row_event: an upsert is a deletion, then an insertion *)
ProcessRow(w, t, e) ==
  LET op   == Request(e.req).operation
      gone == IF op = "insert" THEN w ELSE SendEvent(w, t, [e EXCEPT !.kind = "Delete"])
  IN  IF op = "delete" \/ ~CanSend(gone, t) THEN gone
      ELSE SendEvent(gone, t, [e EXCEPT !.kind = "Append"])

(* A commit is for the table of the rows before it; there must be one *)
ProcessCommit(w, e) ==
  LET t     == w.sink.progress
      taken == [w EXCEPT !.sink.progress = Null]
  IN  IF t = Null THEN [w EXCEPT !.sink.dead = TRUE]
      ELSE IF ~CanSend(w, t) THEN taken
      ELSE MarkCommit(SendEvent(taken, t, e), t, e.lsn)

(* process_rest_event *)
Dispatch(w, e) ==
  LET t == Request(e.req).table
  IN  CASE e.kind = "Row"    -> ProcessRow([w EXCEPT !.sink.progress = t], t, e)
        [] e.kind = "Commit" -> ProcessCommit(w, e)
        [] e.kind = "Load"   -> IF CanSend(w, t) THEN MarkCommit(SendEvent(w, t, e), t, e.lsn) ELSE w
        [] e.kind \in {"Snapshot", "Flush"} -> SendEvent(w, t, e)

(* One event of a result; the loop asserts that their LSNs increase.  (The   *)
(* CHOOSE only makes TLC evaluate the result at once.)                       *)
ProcessRestEvent(w, e) ==
  CHOOSE r \in {IF w.sink.dead THEN w
                ELSE IF e.lsn = Null THEN Dispatch(w, e)
                ELSE IF e.lsn <= w.lsn THEN [w EXCEPT !.sink.dead = TRUE]
                ELSE [Dispatch(w, e) EXCEPT !.lsn = e.lsn]} : TRUE

(* The loop's answer: to a snapshot or flush request the handler then waits  *)
(* for the table; whatever else failed, the last LSN drawn is the answer     *)
Answered(cl, id, lsn) ==
  IF Mode(Request(id)) # "sync" \/ cl[id[1]].wait # "answer" THEN cl
  ELSE IF Request(id).op \in {"snapshot", "flush"} THEN [cl EXCEPT ![id[1]].wait = "durable"]
  ELSE [cl EXCEPT ![id[1]].wait = Null, ![id[1]].lsn = IF lsn = Null THEN @ ELSE lsn,
                  ![id[1]].told = IF lsn = Null THEN @ ELSE @ \cup {<<id, lsn>>}]

(* The loop's handling of one result of the stream, all its events in a row *)
Process(id, events) ==
  \E w \in {FoldLeft(ProcessRestEvent, [sink |-> sink, tables |-> tables, lsn |-> 0], events)} :
    /\ sink' = w.sink
    /\ tables' = w.tables
    /\ client' = IF w.sink.dead THEN client ELSE Answered(client, id, w.lsn)

Refuse(id) == client' = Answered(client, id, Null) /\ UNCHANGED <<sink, tables>>
-----------------------------------------------------------------------------
Running  == {id \in DOMAIN heavy : heavy[id].state = "running"}
Finished == DOMAIN heavy \ Running

LoopRuns == ~sink.dead /\ source.lock # "write"

(* The stream looks at finished insertions first, then at the next request *)
Ready == LoopRuns /\ source.waiting = Null /\ Finished = {} /\ queue # <<>>

Taken(op) == Ready /\ Request(Head(queue)).op = op /\ queue' = Tail(queue)

Known(id) == Request(id).table \in source.names

RestRowEvents(id) == <<Event("Row", id, source.lsn), Event("Commit", id, source.lsn + 1)>>

(* The stream yields a result with the read lock still held, and lets go of  *)
(* it when it is polled for the next one                                     *)
PollStream ==
  /\ LoopRuns
  /\ source.lock = "read"
  /\ source' = [source EXCEPT !.lock = "free"]
  /\ UNCHANGED <<restScenario, queue, heavy, sink, tables, client, left, crossed>>

(* process_row_request_sync *)
TakeRow ==
  LET id == Head(queue)
      ok == Known(id) /\ Request(id).valid
  IN  /\ Taken("row")
      /\ source' = [source EXCEPT !.lsn = IF ok THEN @ + 2 ELSE @, !.lock = "read"]
      /\ IF ok THEN Process(id, RestRowEvents(id)) ELSE Refuse(id)
      /\ UNCHANGED <<restScenario, heavy, left, crossed>>

(* process_file_upload_sync: the files become files of the table *)
TakeUpload ==
  LET id == Head(queue)
  IN  /\ Taken("upload")
      /\ source' = [source EXCEPT !.lsn = IF Known(id) THEN @ + 1 ELSE @, !.lock = "read"]
      /\ IF Known(id) THEN Process(id, <<Event("Load", id, source.lsn)>>) ELSE Refuse(id)
      /\ UNCHANGED <<restScenario, heavy, left, crossed>>

(* process_snapshot_request and process_flush_request *)
TakeBarrier ==
  LET id   == Head(queue)
      kind == IF Request(id).op = "snapshot" THEN "Snapshot" ELSE "Flush"
  IN  /\ Taken("snapshot") \/ Taken("flush")
      /\ source' = [source EXCEPT !.lock = "read"]
      /\ IF Known(id) THEN Process(id, <<Event(kind, id, Null)>>) ELSE Refuse(id)
      /\ UNCHANGED <<restScenario, heavy, left, crossed>>

(* A file insertion waits for one of the permits, and the stream with it *)
TakeInsert ==
  LET id == Head(queue)
  IN  /\ Taken("insert")
      /\ source' = [source EXCEPT !.waiting = IF Known(id) THEN id ELSE Null,
                                   !.lock = IF Known(id) THEN "free" ELSE "read"]
      /\ IF Known(id) THEN UNCHANGED <<sink, tables, client>> ELSE Refuse(id)
      /\ UNCHANGED <<restScenario, heavy, left, crossed>>

StartInsert ==
  LET id == source.waiting
  IN  /\ LoopRuns
      /\ id # Null
      /\ Cardinality(Running) < MaxHeavyOps
      /\ heavy' = [i \in DOMAIN heavy \cup {id} |->
                     IF i = id THEN [file |-> 1, row |-> 1, events |-> <<>>, state |-> "running"]
                     ELSE heavy[i]]
      /\ source' = [source EXCEPT !.waiting = Null]
      /\ UNCHANGED <<restScenario, queue, sink, tables, client, left, crossed>>
-----------------------------------------------------------------------------
(* generate_table_events_for_file_upload, one LSN at a time: the rows of a  *)
(* file and its commit; the first file that cannot be read ends it          *)
InsertRow(id) ==
  LET h == heavy[id]
      n == Request(id).files[h.file]
  IN  /\ h.state = "running"
      /\ h.row <= n
      /\ heavy' = [heavy EXCEPT ![id].row = @ + 1, ![id].events = Append(@, Event("Row", id, source.lsn))]
      /\ source' = [source EXCEPT !.lsn = @ + 1]
      /\ UNCHANGED <<restScenario, queue, sink, tables, client, left, crossed>>

InsertCommit(id) ==
  LET h == heavy[id]
  IN  /\ h.state = "running"
      /\ h.row = Request(id).files[h.file] + 1
      /\ heavy' = [heavy EXCEPT ![id] =
                     [file |-> h.file + 1, row |-> 1,
                      events |-> Append(h.events, Event("Commit", id, source.lsn)),
                      state |-> IF h.file = Len(Request(id).files) THEN "done" ELSE "running"]]
      /\ source' = [source EXCEPT !.lsn = @ + 1]
      /\ UNCHANGED <<restScenario, queue, sink, tables, client, left, crossed>>

InsertFails(id) ==
  /\ heavy[id].state = "running"
  /\ Request(id).files[heavy[id].file] = Unreadable
  /\ heavy' = [heavy EXCEPT ![id].state = "failed"]
  /\ UNCHANGED <<restScenario, source, queue, sink, tables, client, left, crossed>>

(* A commit older than what the table already has: the insertion was overtaken *)
Overtaken(id) ==
  /\ heavy[id].state = "done"
  /\ \E e \in Range(heavy[id].events), f \in Range(tables[Request(id).table].events) :
       e.kind = "Commit" /\ f.kind \in {"Commit", "Load"} /\ f.lsn > e.lsn

YieldInsert(id) ==
  /\ LoopRuns
  /\ source.waiting = Null
  /\ id \in Finished
  /\ heavy' = [i \in DOMAIN heavy \ {id} |-> heavy[i]]
  /\ IF heavy[id].state = "failed" THEN Refuse(id) ELSE Process(id, heavy[id].events)
  /\ source' = [source EXCEPT !.lock = "free"]
  /\ crossed' = IF Overtaken(id) THEN crossed \cup {"overtaken"} ELSE crossed
  /\ UNCHANGED <<restScenario, queue, left>>
-----------------------------------------------------------------------------
(* The table's log and Iceberg table catch up (Wal, TableHandler) *)
FlushWal(t) ==
  /\ ~tables[t].dead
  /\ tables[t].flushed < tables[t].highest
  /\ tables' = [tables EXCEPT ![t].flushed = tables[t].highest, ![t].announced = tables[t].highest]
  /\ UNCHANGED <<restScenario, source, queue, heavy, sink, client, left, crossed>>

(* The last commit or load the table took *)
Reached(tb) == Max({tb.persisted} \cup {e.lsn : e \in {f \in Range(tb.events) : f.kind \in {"Commit", "Load"}}})

PersistSnapshot(t) ==
  /\ ~tables[t].dead
  /\ tables[t].persisted < Reached(tables[t])
  /\ tables' = [tables EXCEPT ![t].persisted = Reached(tables[t])]
  /\ UNCHANGED <<restScenario, source, queue, heavy, sink, client, left, crossed>>

(* RestCommand::DropTable: first the sink forgets the table, then the loop   *)
(* awaits the write lock.  A stream suspended with its read lock is polled   *)
(* by this loop only: both wait for good.                                    *)
DropTable(t) ==
  /\ LoopRuns
  /\ left.drop > 0
  /\ t \in sink.tables
  /\ sink' = [sink EXCEPT !.tables = @ \ {t}]
  /\ source' = IF source.lock = "read" THEN [source EXCEPT !.lock = "write"]
                ELSE [source EXCEPT !.names = @ \ {t}]
  /\ left' = [left EXCEPT !.drop = @ - 1]
  /\ UNCHANGED <<restScenario, queue, heavy, tables, client, crossed>>

(* The service starts again.  A table comes back with its Iceberg snapshot, *)
(* if it has one; the generator goes on from the largest of their LSNs; the *)
(* log goes on from its metadata, but its rows are not replayed             *)
Recovered(tb) ==
  [NewRestTable EXCEPT !.events = SelectSeq(tb.events, LAMBDA e : e.lsn # Null /\ e.lsn <= tb.persisted),
                   !.commit = tb.persisted, !.persisted = tb.persisted,
                   !.highest = tb.flushed, !.flushed = tb.flushed, !.initial = Max({tb.persisted, tb.flushed})]

Restart ==
  LET back == {t \in sink.tables : tables[t].persisted > 0}
  IN  /\ left.restart > 0
      /\ queue' = <<>>
      /\ heavy' = [id \in {} |-> Null]
      /\ source' = [lsn |-> Max({1} \cup {tables[t].persisted : t \in back}), names |-> back, waiting |-> Null,
                    lock |-> "free"]
      /\ sink' = [tables |-> back, progress |-> Null, dead |-> FALSE,
                  replicated |-> Max({0} \cup {tables[t].persisted : t \in back})]
      /\ tables' = [t \in Table |-> IF t \in back THEN Recovered(tables[t]) ELSE NewRestTable]
      /\ client' = [c \in Client |-> [client[c] EXCEPT !.wait = Null]]
      /\ left' = [left EXCEPT !.restart = @ - 1]
      /\ crossed' = IF \E t \in sink.tables : tables[t].flushed > tables[t].persisted
                  THEN crossed \cup {"log lost"} ELSE crossed
      /\ UNCHANGED restScenario
-----------------------------------------------------------------------------
(* Tasks are scheduled: whatever is under way goes on.  New requests, drops  *)
(* and restarts need not come.                                               *)
RestProgress ==
  \/ \E c \in Client : Abandon(c) \/ Returned(c) \/ GivenUp(c)
  \/ PollStream \/ TakeRow \/ TakeUpload \/ TakeBarrier \/ TakeInsert \/ StartInsert
  \/ \E id \in DOMAIN heavy : InsertRow(id) \/ InsertCommit(id) \/ InsertFails(id) \/ YieldInsert(id)
  \/ \E t \in Table : FlushWal(t) \/ PersistSnapshot(t)

RestNext ==
  \/ RestProgress
  \/ \E c \in Client : Send(c)
  \/ \E t \in Table : DropTable(t)
  \/ Restart
-----------------------------------------------------------------------------
Inserted(tb)  == SelectSeq(tb.events, LAMBDA e : e.kind \in {"Append", "Delete", "Commit"})
Committed(tb) == SelectSeq(tb.events, LAMBDA e : e.kind \in {"Commit", "Load"})

(* A commit that reaches a table is one request's: what the table received   *)
(* since its last commit are rows of that request alone, drawn before the    *)
(* commit, and there is such a row unless the table discarded it.            *)
(* Concurrent insertions number their rows in turn, yet the sink's one table *)
(* in progress never mixes them (process_rest_event,                         *)
(* generate_table_events_for_file_upload).                                   *)
WholeRequests ==
  \A t \in Table :
    LET es == Inserted(tables[t])
    IN  \A j \in DOMAIN es :
          es[j].kind = "Commit" =>
            /\ es[j].req \in tables[t].dropped \/ (j > 1 /\ es[j - 1].kind # "Commit")
            /\ \A i \in 1 .. j - 1 :
                 (\A k \in i .. j - 1 : es[k].kind # "Commit")
                   => es[i].req = es[j].req /\ es[i].lsn < es[j].lsn

(* The commits a table receives go forward, across restarts with a log ahead *)
(* of the Iceberg table too, and so its loop survives, unless a file         *)
(* insertion was overtaken by later requests while it drew its LSNs          *)
(* (WalManager::push asserts it).                                            *)
CommitsGoForward ==
  "overtaken" \notin crossed => \A t \in Table :
    LET cs == Committed(tables[t])
    IN  ~tables[t].dead /\ \A i \in 1 .. Len(cs) - 1 : cs[i].lsn < cs[i + 1].lsn

(* "used to indicate and update replication LSN" (RestSource::add_table): a  *)
(* restarted generator draws no LSN a recovered table takes for an old one   *)
NothingIsDiscarded == \A t \in Table : tables[t].dropped = {}

(* The assertion itself: no commit is older than one the log has seen.       *)
LogsGoForward == \A t \in Table : ~tables[t].dead

(* What the snapshot and flush handlers say of themselves: once the loop has  *)
(* answered, every event sent before the request has reached the table.      *)
EarlierIsReceived ==
  \A c \in Client : client[c].wait = "durable" =>
    \A id \in DOMAIN heavy : id[1] = c => Request(id).table # Request(<<c, client[c].next - 1>>).table

RowCount(id) == IF Request(id).op = "row" THEN 1 ELSE FoldLeft(+, 0, Request(id).files)

(* The table has the commits and all the rows of a request *)
Has(t, id) ==
  LET mine == {i \in DOMAIN tables[t].events : tables[t].events[i].req = id}
  IN  /\ \E i \in mine : tables[t].events[i].kind \in {"Commit", "Load"}
      /\ Cardinality({i \in mine : tables[t].events[i].kind \in {"Append", "Delete"}}) >= RowCount(id)

(* What a flush or a snapshot request confirmed to its client stays with the *)
(* table through every restart, with all its rows: the handler waits for the *)
(* loop's answer and then for the table's durable LSN.  Only the log's rows, *)
(* which a REST table never replays, are lost when it was ahead of the       *)
(* Iceberg table, and the rows a recovered table discards.                   *)
ConfirmedSurvives ==
  \A c \in Client : \A a \in client[c].safe :
    LET t == Request(a[1]).table
    IN  t \in sink.tables /\ "log lost" \notin crossed /\ a[1] \notin tables[t].dropped => Has(t, a[1])

(* A client that was told the LSN of its rows: the table has received them,  *)
(* committed at this LSN, unless it was dropped or died in between.          *)
ToldIsReceived ==
  \A c \in Client : \A a \in client[c].told :
    LET t == Request(a[1]).table
    IN  t \in sink.tables /\ left.restart = restScenario.budget.restart /\ ~tables[t].dead =>
          \E i \in DOMAIN tables[t].events :
            tables[t].events[i].req = a[1] /\ tables[t].events[i].lsn = a[2]
              /\ tables[t].events[i].kind \in {"Commit", "Load"}

(* The loop's own assertions hold as long as no file is empty: an empty file *)
(* is a commit without a row before it (expect("tables_in_progress not set")). *)
LoopSurvives ==
  (\A c \in Client : \A i \in DOMAIN restScenario.requests[c] : 0 \notin Range(restScenario.requests[c][i].files))
    => ~sink.dead

(* A request reaches its table as a whole and in order, what its client was  *)
(* told of it stays true, and none ends the loop (rest_ingest.rs,            *)
(* moonlink_rest_sink.rs).                                                   *)
RequestsAreKept ==
  WholeRequests /\ CommitsGoForward /\ ToldIsReceived /\ ConfirmedSurvives /\ LoopSurvives

(* The loop waits for its own stream, or the table for an LSN that does not come *)
Stuck(c) ==
  LET id == <<c, client[c].next - 1>>
      tb == tables[Request(id).table]
  IN  \/ client[c].wait = "answer" /\ source.lock = "write"
      \/ /\ client[c].wait = "durable"
         /\ Watched(id) < AskedLsn(id)
         /\ IF Request(id).op = "flush" THEN tb.highest < AskedLsn(id) \/ tb.flushed = tb.highest
                                        ELSE Reached(tb) < AskedLsn(id)

(* Every handler returns, except one that waits for the loop when that waits  *)
(* to drop a table and its suspended stream holds the lock (rest_ingest.rs,   *)
(* create_stream), or for an LSN the table will not reach: a flush for an     *)
(* upload, which is not logged, or for rows that were logged before a         *)
(* restart, or rows that were lost in it.                                     *)
HandlersReturn == \A c \in Client : (client[c].wait # Null) ~> (client[c].wait = Null \/ Stuck(c))

(* The loop answers every request, whatever command comes in between         *)
LoopAnswers == \A c \in Client : (client[c].wait = "answer") ~> (client[c].wait # "answer")
=============================================================================
