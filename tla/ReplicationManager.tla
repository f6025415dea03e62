------------------------- MODULE ReplicationManager -------------------------
(***************************************************************************)
(* The registry behind every request (replication_manager.rs and           *)
(* replication_connection.rs) as operators.  A manager m knows             *)
(*   m.conns  the open connection of each source, by number, or None;      *)
(*   m.info   (table_info) the source and the source id of each table;     *)
(*   m.conn   the connections: source, table_states and the event loop     *)
(*            with its commands and what it has registered.                *)
(* A source id is <<name, number>>: Postgres gives a relation one id, so   *)
(* the number is 0; the REST connection counts.  Schemas, paths, configs   *)
(* and the table's own state are left out.                                 *)
(***************************************************************************)
EXTENDS Integers, Sequences, SequencesExt, FiniteSets

CONSTANTS
  Id,         \* mooncake tables
  Uri,        \* Postgres databases
  Rest,       \* the URI of the REST source (REST_API_URI)
  None

Source == Uri \cup {Rest}

NewManager ==
  [conns |-> [u \in Source |-> None], info |-> [id \in Id |-> None], conn |-> <<>>]

(* ReplicationConnection::new and start_replication: an empty connection    *)
(* whose event loop runs                                                    *)
NewConnection(u) ==
  [uri |-> u, states |-> {}, loop |-> "run", cmds |-> <<>>, sink |-> {}, routes |-> {}, next |-> 1]

WithConnection(m, u) ==
  [m EXCEPT !.conn = Append(@, NewConnection(u)), !.conns[u] = Len(m.conn) + 1]

State(id, src) == [id |-> id, src |-> src]
ConnectionOf(m, id) == m.conns[m.info[id].uri]

(* get_replication_connection and the lookups in table_states: every        *)
(* tracked table has its connection and its state, or the lookup panics     *)
LookupPanics(m, id) ==
  /\ m.info[id] # None
  /\ \/ ConnectionOf(m, id) = None
     \/ State(id, m.info[id].src) \notin m.conn[ConnectionOf(m, id)].states

(* get_table_status_readers *)
ListPanics(m) == \E id \in Id : m.info[id] # None /\ ConnectionOf(m, id) = None
-----------------------------------------------------------------------------
(* The event loop of connection n takes commands only while it runs         *)
LoopTakes(m, n) == m.conn[n].loop = "run"
Sent(m, n, cmd) == [m EXCEPT !.conn[n].cmds = Append(@, cmd)]

Command(type, id, src) == [type |-> type, id |-> id, src |-> src]

(* add_table_replication, after the source took the table, and the entry    *)
(* add_table makes for it                                                   *)
Registered(m, id, u, src) ==
  [m EXCEPT !.conn[m.conns[u]].states = @ \cup {State(id, src)},
            !.info[id] = [uri |-> u, src |-> src]]

(* add_rest_table: the connection has the table before table_info is asked  *)
(* whether its id is taken                                                  *)
RestSrc(m, name) == <<name, m.conn[m.conns[Rest]].next>>

RestRegistered(m, id, name) ==
  LET n   == m.conns[Rest]
      src == RestSrc(m, name)
      add == [Sent(m, n, Command("add", id, src)) EXCEPT
                !.conn[n].next = @ + 1, !.conn[n].states = @ \cup {State(id, src)}]
  IN  IF m.info[id] = None THEN [add EXCEPT !.info[id] = [uri |-> Rest, src |-> src]] ELSE add

RestAccepts(m, id) == m.info[id] = None
-----------------------------------------------------------------------------
(* ReplicationConnection::drop_table forgets the state first                *)
HasState(m, id) ==
  State(id, m.info[id].src) \in m.conn[ConnectionOf(m, id)].states

StateRemoved(m, id) ==
  [m EXCEPT !.conn[ConnectionOf(m, id)].states = @ \ {State(id, m.info[id].src)}]

(* shutdown_connection: the connection and all its tables leave the manager *)
ShutDown(m, u) ==
  [m EXCEPT !.conns[u] = None,
            !.info = [id \in Id |-> IF m.info[id] # None /\ m.info[id].uri = u
                                    THEN None ELSE m.info[id]]]

(* The end of drop_table: a Postgres connection goes with its last table    *)
IsLast(m, id) ==
  m.info[id].uri # Rest /\ m.conn[ConnectionOf(m, id)].states = {}

Dropped(m, id) ==
  LET gone == [m EXCEPT !.info[id] = None]
  IN  IF IsLast(m, id) THEN ShutDown(gone, m.info[id].uri) ELSE gone
-----------------------------------------------------------------------------
(* One command taken by the Postgres event loop (run_event_loop): a source  *)
(* id has one entry in the sink, the newest                                 *)
SinkWith(sink, id, src)  == {e \in sink : e.src # src} \cup {State(id, src)}
SinkWithout(sink, src)   == {e \in sink : e.src # src}

PostgresCommand(k, cmd) ==
  CASE cmd.type = "add"      -> [k EXCEPT !.sink = SinkWith(@, cmd.id, cmd.src)]
    [] cmd.type = "drop"     -> [k EXCEPT !.sink = SinkWithout(@, cmd.src)]
    [] cmd.type = "shutdown" -> [k EXCEPT !.loop = "ended"]

(* One command taken by the REST event loop (run_rest_event_loop).  A route *)
(* (RestSource) leads from a name to a source id and to a schema; a second  *)
(* table of one name replaces the schema and is then refused, its sink      *)
(* entry stays.                                                             *)
Name(src) == src[1]
RouteOf(k, name) == {r \in k.routes : r.name = name}

RouteAdded(k, id, src) ==
  IF RouteOf(k, Name(src)) = {}
  THEN k.routes \cup {[name |-> Name(src), src |-> src, schema |-> id, avro |-> FALSE]}
  ELSE {IF r.name = Name(src) THEN [r EXCEPT !.schema = id, !.avro = FALSE] ELSE r : r \in k.routes}

(* RestSource::set_avro_schema: the schema a client registers must be the   *)
(* one of the table the name leads to; an assertion compares them, and its  *)
(* panic ends the task of the loop, which serves every REST table           *)
AvroPanics(k, cmd) == \E r \in RouteOf(k, Name(cmd.src)) : r.schema # cmd.id

Died(k) == [k EXCEPT !.loop = "dead", !.cmds = <<>>, !.sink = {}, !.routes = {}]

RestCommand(k, cmd) ==
  CASE cmd.type = "add"  ->
         [k EXCEPT !.sink = SinkWith(@, cmd.id, cmd.src), !.routes = RouteAdded(k, cmd.id, cmd.src)]
    [] cmd.type = "drop" ->
         IF \E e \in k.sink : e.src = cmd.src
         THEN [k EXCEPT !.sink = SinkWithout(@, cmd.src),
                        !.routes = @ \ RouteOf(k, Name(cmd.src))]
         ELSE k
    [] cmd.type = "avro" ->
         IF AvroPanics(k, cmd) THEN Died(k)
         ELSE [k EXCEPT !.routes = {IF r.name = Name(cmd.src) THEN [r EXCEPT !.avro = TRUE] ELSE r : r \in @}]
    [] cmd.type = "shutdown" -> [k EXCEPT !.loop = "ended"]

CommandTaken(m, n) ==
  LET k == [m.conn[n] EXCEPT !.cmds = Tail(@)]
      c == Head(m.conn[n].cmds)
  IN  [m EXCEPT !.conn[n] = IF k.uri = Rest THEN RestCommand(k, c) ELSE PostgresCommand(k, c)]
=============================================================================
