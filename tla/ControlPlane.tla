---------------------------- MODULE ControlPlane ----------------------------
(***************************************************************************)
(* The backend of the service: requests of several clients                 *)
(* (rpc_server.rs, rest_api.rs, moonlink_backend/src/lib.rs) that take     *)
(* the manager's RwLock, change the replication manager, the publication   *)
(* and the slot in Postgres and, after the lock is gone, the metadata      *)
(* store; event loops that take their commands later; background tasks     *)
(* that shut a connection down or drop again what could not be dropped;    *)
(* crashes, and the recovery of all tables of the metadata store.          *)
(*                                                                         *)
(* A request stops where its code awaits: another request, a failure, the  *)
(* timeout of the REST server or a crash may come there.                   *)
(***************************************************************************)
EXTENDS ReplicationManager, TLC

CONSTANTS
  Client,
  Scenarios   \* script: the requests of each client; left: the faults that may happen

VARIABLES
  mode,       \* "up", "recovering" or "down"
  mgr,        \* ReplicationManager
  queue,      \* the RwLock: holders and waiting requests in the order they came
  pc,         \* where the request of each client is
  script,     \* what each client still asks for; the head is being served
  cache,      \* kafka_schema_id_cache: the names whose schema is known
  pg,         \* each database: the tables of moonlink_pub and whether the slot is there
  meta,       \* the metadata store
  persisted,  \* REST tables with an iceberg snapshot
  ending,     \* connections being shut down in the background
  retries,    \* drops tried again in the background
  todo,       \* tables still to be recovered
  left,       \* faults that may still happen
  acked,      \* ghost: what the last request on each table was told
  blame,      \* ghost: what went wrong, and for whom
  panicked    \* ghost: an unwrap, expect or assertion failed

vars == <<mode, mgr, queue, pc, script, cache, pg, meta, persisted, ending, retries, todo, left,
          acked, blame, panicked>>

sourceVars  == <<pg, ending, retries>>
requestVars == <<queue, pc, script>>
ghostVars   == <<acked, blame, panicked>>

Request(op, id, u, name) == [op |-> op, id |-> id, uri |-> u, name |-> name,
                              all |-> TRUE, avro |-> FALSE]
Req(c) == Head(script[c])

NoPublication == [pub |-> None, slot |-> FALSE]

Init ==
  \E s \in Scenarios :
    /\ mode = "up" /\ mgr = WithConnection(NewManager, Rest)
    /\ queue = <<>> /\ pc = [c \in Client |-> "idle"] /\ script = s.script
    /\ cache = {} /\ pg = [u \in Uri |-> NoPublication] /\ meta = [id \in Id |-> None]
    /\ persisted = {} /\ ending = {} /\ retries = {} /\ todo = {} /\ left = s.left
    /\ acked = [id \in Id |-> "none"] /\ blame = {} /\ panicked = FALSE
-----------------------------------------------------------------------------
(* tokio's RwLock serves in order of arrival: readers together, a writer    *)
(* alone                                                                    *)
LockMode(op) == IF op \in {"scan", "list"} THEN "read" ELSE "write"

Granted(c) ==
  \E i \in DOMAIN queue :
    /\ queue[i].client = c
    /\ IF queue[i].mode = "write" THEN i = 1
       ELSE \A j \in 1 .. i : queue[j].mode = "read"

WithoutLock(c) == SelectSeq(queue, LAMBDA e : e.client # c)

Fails(fault) == left[fault] > 0 /\ left' = [left EXCEPT ![fault] = @ - 1]
Works == UNCHANGED left

GoesTo(c, step) == pc' = [pc EXCEPT ![c] = step] /\ UNCHANGED <<queue, script>>

(* The lock is given back and the request goes on without it *)
Unlocks(c, step) ==
  queue' = WithoutLock(c) /\ pc' = [pc EXCEPT ![c] = step] /\ UNCHANGED script

Answers(c) ==
  /\ queue' = WithoutLock(c)
  /\ pc' = [pc EXCEPT ![c] = "idle"]
  /\ script' = [script EXCEPT ![c] = Tail(@)]

At(c, op, step) ==
  /\ mode = "up" /\ ~panicked
  /\ pc[c] = step /\ step # "idle"
  /\ Req(c).op = op

Locked(c, op) == At(c, op, "lock") /\ Granted(c)

Queues(c, step) ==
  /\ queue' = Append(WithoutLock(c), [client |-> c, mode |-> LockMode(Req(c).op)])
  /\ pc' = [pc EXCEPT ![c] = step]
  /\ UNCHANGED script

Asks(c) == mode = "up" /\ ~panicked /\ pc[c] = "idle" /\ script[c] # <<>>

(* handle_stream and the REST handlers hand each request to the backend     *)
Submit(c) ==
  /\ Asks(c) /\ Req(c).op # "avro" /\ Queues(c, "lock")
  /\ UNCHANGED <<mode, mgr, cache, sourceVars, meta, persisted, todo, left, ghostVars>>

(* set_avro_schema of the REST API: a schema the cache knows is not set     *)
SubmitAvro(c) ==
  /\ Asks(c) /\ Req(c).op = "avro"
  /\ IF Req(c).name \in cache THEN script' = [script EXCEPT ![c] = Tail(@)] /\ UNCHANGED <<queue, pc>>
     ELSE Queues(c, "lock")
  /\ UNCHANGED <<mode, mgr, cache, sourceVars, meta, persisted, todo, left, ghostVars>>

(* A request whose metadata write is still to come is met by another one on *)
(* the same table                                                           *)
Crossing(c, id) ==
  IF \E d \in Client \ {c} : pc[d] = "meta" /\ Req(d).id = id THEN {<<"crossed", id>>} ELSE {}
-----------------------------------------------------------------------------
(* A creation names its source: create_table_from_postgres passes on the    *)
(* URI it was given, create_table of the REST API the URI of its own source *)
IsPostgres(c) == Req(c).uri # Rest

(* create_table for a Postgres table: MoonlinkBackend::create_table,        *)
(* ReplicationManager::add_table                                            *)

CreateBegin(c) ==
  /\ Locked(c, "create") /\ IsPostgres(c)
  /\ IF mgr.info[Req(c).id] # None
     THEN Answers(c) /\ UNCHANGED blame
     ELSE /\ GoesTo(c, IF mgr.conns[Req(c).uri] = None THEN "publication" ELSE "identity")
          /\ blame' = blame \cup Crossing(c, Req(c).id)
  /\ UNCHANGED <<mode, mgr, cache, sourceVars, meta, persisted, todo, left, acked, panicked>>

(* PostgresConnection::new makes the publication anew, ...                  *)
ConnectPublication(c) ==
  /\ At(c, "create", "publication")
  /\ \/ /\ Works /\ GoesTo(c, "slot")
        /\ pg' = [pg EXCEPT ![Req(c).uri].pub = {}]
     \/ /\ Fails("pg") /\ Answers(c) /\ UNCHANGED pg
  /\ UNCHANGED <<mode, mgr, cache, meta, persisted, ending, retries, todo, ghostVars>>

(* ... takes over the slot or makes it, and its event loop starts           *)
ConnectSlot(c) ==
  /\ At(c, "create", "slot")
  /\ \/ /\ Works /\ GoesTo(c, "identity")
        /\ pg' = [pg EXCEPT ![Req(c).uri].slot = TRUE]
        /\ mgr' = WithConnection(mgr, Req(c).uri)
        /\ UNCHANGED blame
     \/ /\ Fails("pg") /\ Answers(c) /\ UNCHANGED <<pg, mgr>>
        /\ blame' = blame \cup {<<"left", Req(c).uri>>}
  /\ UNCHANGED <<mode, cache, meta, persisted, ending, retries, todo, acked, panicked>>

PgSrc(c) == <<Req(c).name, 0>>
Conn(c)  == mgr.conns[Req(c).uri]

(* Mutant: the command waits for a loop that no longer runs *)
AddIdentityBlocks(c) ==
  /\ At(c, "create", "identity") /\ LoopTakes(mgr, Conn(c)) /\ GoesTo(c, "ready")
  /\ mgr' = Sent(mgr, Conn(c), Command("add", Req(c).id, PgSrc(c)))
  /\ UNCHANGED <<mode, cache, sourceVars, meta, persisted, todo, left, ghostVars>>

(* PostgresConnection::add_table: replica identity, schema, the table's     *)
(* parts, and the command to the event loop                                 *)
AddIdentity(c) ==
  /\ At(c, "create", "identity")
  /\ \/ /\ Works /\ LoopTakes(mgr, Conn(c)) /\ GoesTo(c, "ready")
        /\ mgr' = Sent(mgr, Conn(c), Command("add", Req(c).id, PgSrc(c)))
        /\ UNCHANGED blame
     \/ /\ Fails("pg") \/ (Works /\ ~LoopTakes(mgr, Conn(c)))
        /\ Answers(c) /\ UNCHANGED mgr
        /\ blame' = blame \cup {<<"left", Req(c).uri>>}
  /\ UNCHANGED <<mode, cache, sourceVars, meta, persisted, todo, acked, panicked>>

(* ready_rx: the loop took the command, or it ended and the add goes on     *)
AddReady(c) ==
  /\ At(c, "create", "ready")
  /\ \/ ~LoopTakes(mgr, Conn(c))
     \/ \A i \in DOMAIN mgr.conn[Conn(c)].cmds : mgr.conn[Conn(c)].cmds[i].id # Req(c).id
  /\ GoesTo(c, "publish")
  /\ UNCHANGED <<mode, mgr, cache, sourceVars, meta, persisted, todo, left, ghostVars>>

(* Mutant: a table is added again, whoever has it *)
PublicationTakesAgain(u, name) == pg[u].pub # None

(* perform_initial_copy adds the table to the publication, which refuses a  *)
(* table it has, ...                                                        *)
PublicationTakes(u, name) == pg[u].pub # None /\ name \notin pg[u].pub

Unfinished(c) == {<<"left", Req(c).uri>>, <<"stolen", PgSrc(c)>>}

AddPublish(c) ==
  LET u == Req(c).uri
  IN  /\ At(c, "create", "publish")
      /\ \/ /\ Works /\ PublicationTakes(u, Req(c).name)
            /\ pg' = [pg EXCEPT ![u].pub = @ \cup {Req(c).name}]
            /\ GoesTo(c, "copy") /\ UNCHANGED blame
         \/ /\ Fails("pg") \/ (Works /\ ~PublicationTakes(u, Req(c).name))
            /\ Answers(c) /\ UNCHANGED pg
            /\ blame' = blame \cup Unfinished(c)
      /\ UNCHANGED <<mode, mgr, cache, meta, persisted, ending, retries, todo, acked, panicked>>

(* ... and copies its rows (InitialCopy); only then connection and manager  *)
(* get to know the table.  A copy that fails panics in the request's task   *)
(* and leaves publication and event loop with the table.                    *)
AddCopied(c) ==
  /\ At(c, "create", "copy")
  /\ \/ /\ Works /\ mgr' = Registered(mgr, Req(c).id, Req(c).uri, PgSrc(c))
        /\ Unlocks(c, "meta")
        /\ acked' = [acked EXCEPT ![Req(c).id] = "none"]
        /\ UNCHANGED blame
     \/ /\ Fails("pg") /\ Answers(c)
        /\ blame' = blame \cup Unfinished(c) /\ UNCHANGED <<mgr, acked>>
  /\ UNCHANGED <<mode, cache, sourceVars, meta, persisted, todo, panicked>>

(* create_table for a REST table: add_rest_table, add_table_api; its first  *)
(* step waits for the table's parts to be built                             *)
RestBegin(c) ==
  /\ Locked(c, "create") /\ ~IsPostgres(c)
  /\ IF mgr.conns[Rest] = None THEN Answers(c) ELSE GoesTo(c, "build")
  /\ blame' = blame \cup Crossing(c, Req(c).id)
  /\ UNCHANGED <<mode, mgr, cache, sourceVars, meta, persisted, todo, left, acked, panicked>>

RestAdd(c) ==
  LET id == Req(c).id
      n  == mgr.conns[Rest]
      twins == \E e \in mgr.conn[n].states : Name(e.src) = Req(c).name
  IN  /\ At(c, "create", "build")
      /\ IF ~LoopTakes(mgr, n) THEN Answers(c) /\ UNCHANGED <<mgr, acked, blame>>
         ELSE /\ mgr' = RestRegistered(mgr, id, Req(c).name)
              /\ IF RestAccepts(mgr, id)
                 THEN Unlocks(c, "meta") /\ acked' = [acked EXCEPT ![id] = "none"]
                 ELSE Answers(c) /\ UNCHANGED acked
              /\ blame' = blame \cup (IF twins THEN {<<"twins", Req(c).name>>} ELSE {})
                                \cup (IF RestAccepts(mgr, id) THEN {} ELSE {<<"refused", Req(c).name>>})
                                \cup (IF Req(c).name \in cache /\ ~Req(c).avro THEN {<<"stale", Req(c).name>>} ELSE {})
      /\ UNCHANGED <<mode, cache, sourceVars, meta, persisted, todo, left, panicked>>

(* Mutant: a failed write is not reported *)
StoreMetadataUnchecked(c) ==
  LET id == Req(c).id
  IN  /\ At(c, "create", "meta") /\ Answers(c)
      /\ \/ Works /\ meta' = [meta EXCEPT ![id] = [uri |-> Req(c).uri, name |-> Req(c).name]]
         \/ Fails("meta") /\ UNCHANGED meta
      /\ acked' = [acked EXCEPT ![id] = "created"]
      /\ UNCHANGED <<mode, mgr, cache, sourceVars, persisted, todo, blame, panicked>>

(* store_table_metadata, without the lock: one row for each table.  A REST  *)
(* creation that came with an Avro schema then asks to set it               *)
StoreMetadata(c) ==
  LET id == Req(c).id
  IN  /\ At(c, "create", "meta")
      /\ \/ /\ Works /\ meta[id] = None
            /\ IF Req(c).avro THEN Queues(c, "avro") ELSE Answers(c)
            /\ meta' = [meta EXCEPT ![id] = [uri |-> Req(c).uri, name |-> Req(c).name]]
            /\ acked' = [acked EXCEPT ![id] = "created"]
            /\ UNCHANGED blame
         \/ /\ Fails("meta") \/ (Works /\ meta[id] # None)
            /\ Answers(c)
            /\ acked' = [acked EXCEPT ![id] = "none"]
            /\ blame' = blame \cup {<<"unstored", id>>} /\ UNCHANGED meta
      /\ UNCHANGED <<mode, mgr, cache, sourceVars, persisted, todo, panicked>>
-----------------------------------------------------------------------------
(* drop_table: MoonlinkBackend, ReplicationManager, ReplicationConnection.  *)
(* A table the manager does not know is dropped already.                    *)
DropBegin(c) ==
  LET id == Req(c).id
  IN  /\ Locked(c, "drop")
      /\ IF mgr.info[id] = None
         THEN /\ Answers(c) /\ acked' = [acked EXCEPT ![id] = "dropped"]
              /\ blame' = blame \cup (IF meta[id] = None THEN {} ELSE {<<"untracked", id>>})
              /\ UNCHANGED <<mgr, panicked>>
         ELSE IF ConnectionOf(mgr, id) = None
         THEN Answers(c) /\ panicked' = TRUE /\ UNCHANGED <<mgr, acked, blame>>
         ELSE IF ~HasState(mgr, id)
         THEN Answers(c) /\ UNCHANGED <<mgr, acked, blame, panicked>>
         ELSE /\ mgr' = StateRemoved(mgr, id)
              /\ GoesTo(c, "handler")
              /\ acked' = [acked EXCEPT ![id] = "none"]
              /\ blame' = blame \cup Crossing(c, id)
              /\ UNCHANGED panicked
      /\ UNCHANGED <<mode, cache, sourceVars, meta, persisted, todo, left>>

Torn(id) == {<<"torn", id>>}

(* TableEventManager::drop_table: the table handler drops its iceberg table *)
(* and its log, and only then the source is told; an error ends the drop    *)
(* with the table's state already forgotten                                 *)
DropHandler(c) ==
  LET id == Req(c).id
  IN  /\ At(c, "drop", "handler")
      /\ \/ /\ Works /\ persisted' = persisted \ {id}
            /\ GoesTo(c, IF mgr.info[id].uri = Rest THEN "command" ELSE "unpublish")
            /\ UNCHANGED blame
         \/ /\ Fails("handler") /\ persisted' \in {persisted, persisted \ {id}}
            /\ Answers(c) /\ blame' = blame \cup Torn(id)
      /\ UNCHANGED <<mode, mgr, cache, sourceVars, meta, todo, acked, panicked>>

(* remove_table_from_publication, attempt_drop_else_retry: a lock that is   *)
(* taken or a lost connection moves the drop to the background              *)
DropUnpublish(c) ==
  LET id   == Req(c).id
      u    == mgr.info[id].uri
      name == Name(mgr.info[id].src)
      n    == ConnectionOf(mgr, id)
  IN  /\ At(c, "drop", "unpublish")
      /\ \/ /\ Works /\ GoesTo(c, "command")
            /\ pg' = [pg EXCEPT ![u].pub = IF @ = None THEN @ ELSE @ \ {name}]
            /\ UNCHANGED <<retries, blame>>
         \/ /\ Fails("lock") /\ GoesTo(c, "command")
            /\ retries' = retries \cup {[conn |-> n, uri |-> u, what |-> name]}
            /\ UNCHANGED <<pg, blame>>
         \/ /\ Fails("pg") /\ Answers(c)
            /\ blame' = blame \cup Torn(id) /\ UNCHANGED <<pg, retries>>
      /\ UNCHANGED <<mode, mgr, cache, meta, persisted, ending, todo, acked, panicked>>

(* The command to the event loop; with the last table the connection goes   *)
DropCommand(c) ==
  LET id  == Req(c).id
      u   == mgr.info[id].uri
      n   == ConnectionOf(mgr, id)
      cmd == Command("drop", id, mgr.info[id].src)
  IN  /\ At(c, "drop", "command")
      /\ IF LoopTakes(mgr, n)
         THEN /\ mgr' = Dropped(Sent(mgr, n, cmd), id)
              /\ ending' = IF IsLast(mgr, id)
                           THEN ending \cup {[conn |-> n, uri |-> u, all |-> TRUE, step |-> "stop"]}
                           ELSE ending
              /\ Unlocks(c, "meta") /\ UNCHANGED blame
         ELSE /\ Answers(c) /\ UNCHANGED <<mgr, ending>>
              /\ blame' = blame \cup Torn(id)
      /\ UNCHANGED <<mode, cache, pg, meta, persisted, retries, todo, left, acked, panicked>>

(* delete_table_metadata, without the lock: exactly one row must go         *)
DeleteMetadata(c) ==
  LET id == Req(c).id
  IN  /\ At(c, "drop", "meta") /\ Answers(c)
      /\ \/ /\ Works /\ meta[id] # None
            /\ meta' = [meta EXCEPT ![id] = None]
            /\ acked' = [acked EXCEPT ![id] = IF mgr.info[id] = None THEN "dropped" ELSE "none"]
            /\ UNCHANGED blame
         \/ /\ Fails("meta") \/ (Works /\ meta[id] = None)
            /\ blame' = blame \cup {<<"undeleted", id>>} /\ UNCHANGED <<meta, acked>>
      /\ UNCHANGED <<mode, mgr, cache, sourceVars, persisted, todo, panicked>>
-----------------------------------------------------------------------------
(* get_table_schema and list_tables look up one table, or all of them; a    *)
(* schema counts as a scan                                                  *)
LookPanics(op, id) ==
  IF op = "list" THEN ListPanics(mgr) ELSE LookupPanics(mgr, id)

(* create_snapshot and optimize_table give the lock back before they wait   *)
KeepsLock(op) == op # "snapshot"

(* scan_table keeps the read lock and wait_for_wal_flush the write lock     *)
(* until the table answered                                                 *)
Look(c) ==
  /\ \E op \in {"scan", "list", "snapshot", "flush"} :
       /\ Locked(c, op)
       /\ IF LookPanics(op, Req(c).id) THEN Answers(c) /\ panicked' = TRUE
          ELSE /\ UNCHANGED panicked
               /\ IF op # "list" /\ mgr.info[Req(c).id] = None THEN Answers(c)
                  ELSE IF KeepsLock(op) THEN GoesTo(c, "answer") ELSE Unlocks(c, "answer")
  /\ UNCHANGED <<mode, mgr, cache, sourceVars, meta, persisted, todo, left, acked, blame>>

(* A scan and a snapshot wait for an LSN that only the table's source can   *)
(* bring.  They end for certain while it serves the table; the status of a  *)
(* table is at hand, and the REST server gives up on a wait for the log.    *)
Serves(id) ==
  LET u == mgr.info[id].uri
      n == mgr.conns[u]
  IN  /\ n # None
      /\ LoopTakes(mgr, n) /\ State(id, mgr.info[id].src) \in mgr.conn[n].sink
      /\ u # Rest => pg[u].slot /\ pg[u].pub # None /\ Name(mgr.info[id].src) \in pg[u].pub

AnswerComes(c) ==
  Req(c).op \in {"list", "flush"} \/ mgr.info[Req(c).id] = None \/ Serves(Req(c).id)

LookAnswered(c) ==
  /\ \E op \in {"scan", "list", "snapshot", "flush"} : At(c, op, "answer")
  /\ Answers(c)
  /\ UNCHANGED <<mode, mgr, cache, sourceVars, meta, persisted, todo, left, ghostVars>>

(* shutdown_connection *)
ShutdownRequest(c) ==
  LET u == Req(c).uri
  IN  /\ Locked(c, "shutdown") /\ Answers(c)
      /\ IF mgr.conns[u] = None THEN UNCHANGED <<mgr, ending, blame>>
         ELSE /\ mgr' = ShutDown(mgr, u)
              /\ ending' = ending \cup {[conn |-> mgr.conns[u], uri |-> u, all |-> Req(c).all,
                                          step |-> "stop"]}
              /\ blame' = blame \cup {<<"closed", u>>}
      /\ UNCHANGED <<mode, cache, pg, meta, persisted, retries, todo, left, acked, panicked>>

(* MoonlinkBackend::set_avro_schema: the loop is told, the cache learns the *)
(* schema whatever the loop makes of it                                     *)
SetAvroSchema(c) ==
  LET name == Req(c).name
      n    == mgr.conns[Rest]
  IN  /\ Locked(c, "avro") \/ (At(c, "create", "avro") /\ Granted(c))
      /\ Answers(c)
      /\ IF n = None \/ ~LoopTakes(mgr, n) THEN UNCHANGED <<mgr, cache>>
         ELSE /\ mgr' = Sent(mgr, n, Command("avro", Req(c).id, <<name, 0>>))
              /\ cache' = cache \cup {name}
      /\ UNCHANGED <<mode, sourceVars, meta, persisted, todo, left, ghostVars>>

(* TimeoutLayer of the REST server: the handler is dropped where it waits,  *)
(* what it did stays done                                                   *)
Interrupted(c) ==
  LET id == Req(c).id
      u  == Req(c).uri
  IN  CASE pc[c] \in {"slot", "identity"}                      -> {<<"left", u>>}
        [] pc[c] \in {"ready", "publish", "copy"}              -> Unfinished(c)
        [] pc[c] \in {"handler", "unpublish", "command"}       -> Torn(id)
        [] pc[c] = "meta" /\ Req(c).op = "create"              -> {<<"unstored", id>>}
        [] pc[c] = "meta" /\ Req(c).op = "drop"                -> {<<"undeleted", id>>}
        [] OTHER                                               -> {}

Timeout(c) ==
  /\ mode = "up" /\ ~panicked /\ pc[c] # "idle" /\ Req(c).op # "scan" /\ Fails("timeout")
  /\ Answers(c)
  /\ persisted' = IF pc[c] = "handler" THEN persisted \ {Req(c).id} ELSE persisted
  /\ blame' = blame \cup Interrupted(c)
  /\ UNCHANGED <<mode, mgr, cache, sourceVars, meta, todo, acked, panicked>>
-----------------------------------------------------------------------------
(* One command taken by the event loop of connection n *)
LoopCommand(n) ==
  /\ mode # "down" /\ ~panicked
  /\ n \in DOMAIN mgr.conn /\ LoopTakes(mgr, n) /\ mgr.conn[n].cmds # <<>>
  /\ mgr' = CommandTaken(mgr, n)
  /\ blame' = blame \cup (IF mgr'.conn[n].loop = "dead" THEN {<<"dead", Rest>>} ELSE {})
  /\ UNCHANGED <<mode, requestVars, cache, sourceVars, meta, persisted, todo, left, acked, panicked>>

(* run_event_loop returns an error: its connection to Postgres is lost and  *)
(* cannot be made again, or the slot is gone                                *)
LoopDies(n) ==
  /\ mode # "down" /\ ~panicked
  /\ n \in DOMAIN mgr.conn /\ LoopTakes(mgr, n) /\ mgr.conn[n].uri # Rest
  /\ \/ Fails("loop")
     \/ Works /\ ~pg[mgr.conn[n].uri].slot
  /\ mgr' = [mgr EXCEPT !.conn[n] = Died(@)]
  /\ blame' = blame \cup {<<"dead", mgr.conn[n].uri>>}
  /\ UNCHANGED <<mode, requestVars, cache, sourceVars, meta, persisted, todo, acked, panicked>>

(* The background task of ReplicationConnection::shutdown and of            *)
(* PostgresConnection::shutdown                                             *)
Replaced(t) == mgr.conns[t.uri] # None

(* What is dropped now belongs to a connection made after this one *)
Undercut(t) ==
  IF Replaced(t) \/ \E c \in Client : pc[c] = "slot" /\ Req(c).uri = t.uri
  THEN {<<"undercut", t.uri>>} ELSE {}

Moves(t, step) == ending' = (ending \ {t}) \cup {[t EXCEPT !.step = step]}
Ends(t)        == ending' = ending \ {t}

EndStop(t) ==
  /\ t.step = "stop"
  /\ IF LoopTakes(mgr, t.conn)
     THEN /\ mgr' = Sent(mgr, t.conn, Command("shutdown", None, <<None, 0>>))
          /\ Moves(t, "join") /\ UNCHANGED blame
     ELSE /\ Ends(t) /\ blame' = blame \cup {<<"left", t.uri>>} /\ UNCHANGED mgr
  /\ UNCHANGED <<pg, retries, left>>

EndJoin(t) ==
  /\ t.step = "join" /\ ~LoopTakes(mgr, t.conn)
  /\ Moves(t, IF t.all THEN "publication" ELSE "retries")
  /\ UNCHANGED <<mgr, pg, retries, left, blame>>

EndPublication(t) ==
  /\ t.step = "publication"
  /\ \/ /\ Works /\ Moves(t, "slot")
        /\ pg' = [pg EXCEPT ![t.uri].pub = None]
        /\ blame' = blame \cup Undercut(t) /\ UNCHANGED retries
     \/ /\ Fails("lock") /\ Moves(t, "slot")
        /\ retries' = retries \cup {[conn |-> t.conn, uri |-> t.uri, what |-> None]}
        /\ UNCHANGED <<pg, blame>>
     \/ /\ Fails("pg") /\ Ends(t)
        /\ blame' = blame \cup {<<"left", t.uri>>} /\ UNCHANGED <<pg, retries>>
  /\ UNCHANGED mgr

EndSlot(t) ==
  /\ t.step = "slot"
  /\ \/ /\ Works /\ pg[t.uri].slot /\ Moves(t, "retries")
        /\ pg' = [pg EXCEPT ![t.uri].slot = FALSE]
        /\ blame' = blame \cup Undercut(t)
     \/ /\ Fails("pg") \/ (Works /\ ~pg[t.uri].slot)
        /\ Ends(t) /\ UNCHANGED pg
        /\ blame' = blame \cup {<<"left", t.uri>>}
  /\ UNCHANGED <<mgr, retries>>

EndRetries(t) ==
  /\ t.step = "retries" /\ \A r \in retries : r.conn # t.conn
  /\ Ends(t)
  /\ UNCHANGED <<mgr, pg, retries, left, blame>>

ShutdownStep ==
  /\ mode # "down" /\ ~panicked
  /\ \E t \in ending :
       EndStop(t) \/ EndJoin(t) \/ EndPublication(t) \/ EndSlot(t) \/ EndRetries(t)
  /\ UNCHANGED <<mode, requestVars, cache, meta, persisted, todo, acked, panicked>>

(* retry_drop: what it drops may have been made again in the meantime; it   *)
(* gives up after some attempts                                             *)
Retry ==
  /\ mode # "down" /\ ~panicked
  /\ \E r \in retries :
       /\ retries' = retries \ {r}
       /\ \/ /\ Works
             /\ pg' = [pg EXCEPT ![r.uri].pub = IF r.what = None \/ @ = None THEN None ELSE @ \ {r.what}]
             /\ blame' = blame \cup
                  (IF Replaced(r) /\ pg[r.uri].pub # None /\ r.conn # mgr.conns[r.uri]
                   THEN {<<"undercut", r.uri>>} ELSE {})
          \/ /\ Fails("pg") /\ UNCHANGED pg
             /\ blame' = blame \cup {<<"left", r.uri>>, <<"stolen", <<r.what, 0>>>>}
  /\ UNCHANGED <<mode, mgr, requestVars, cache, meta, persisted, ending, todo, acked, panicked>>

(* A REST table is persisted to iceberg *)
Persist(id) ==
  /\ mode = "up" /\ ~panicked /\ left["persist"] > 0
  /\ mgr.info[id] # None /\ mgr.info[id].uri = Rest /\ id \notin persisted
  /\ persisted' = persisted \cup {id} /\ left' = [left EXCEPT !["persist"] = @ - 1]
  /\ UNCHANGED <<mode, mgr, requestVars, cache, sourceVars, meta, todo, ghostVars>>
-----------------------------------------------------------------------------
(* The process stops: memory, background tasks and requests are gone        *)
Crash ==
  /\ mode = "up" /\ ~panicked /\ Fails("crash")
  /\ mode' = "down" /\ mgr' = NewManager
  /\ queue' = <<>> /\ pc' = [c \in Client |-> "idle"]
  /\ script' = [c \in Client |-> IF pc[c] = "idle" THEN script[c] ELSE Tail(script[c])]
  /\ cache' = {} /\ ending' = {} /\ retries' = {} /\ todo' = {}
  /\ persisted' = persisted \ {Req(c).id : c \in {d \in Client : pc[d] = "handler"}}
  /\ blame' = {<<"left", u>> : u \in Uri}
                \cup {e \in blame : e[1] \in {"undeleted", "untracked"}}
                \cup UNION {{e \in Interrupted(c) : e[1] = "undeleted"} :
                              c \in {d \in Client : pc[d] # "idle"}}
  /\ UNCHANGED <<pg, meta, acked, panicked>>

(* MoonlinkBackend::new: recover_all_tables reads the metadata store        *)
Restart ==
  /\ mode = "down"
  /\ mode' = "recovering" /\ mgr' = NewManager
  /\ todo' = {id \in Id : meta[id] # None}
  /\ UNCHANGED <<requestVars, cache, sourceVars, meta, persisted, left, ghostVars>>

(* recover_rest_table: only a table iceberg knows *)
RecoverRest(id) ==
  /\ IF id \in persisted
     THEN LET m == IF mgr.conns[Rest] = None THEN WithConnection(mgr, Rest) ELSE mgr
          IN  mgr' = RestRegistered(m, id, meta[id].name) /\ UNCHANGED blame
     ELSE UNCHANGED mgr /\ blame' = blame \cup {<<"unpersisted", id>>}
  /\ UNCHANGED <<pg, left, mode>>

(* recover_non_rest_table: the connection is made as for a new table, which *)
(* empties the publication; a failure ends the start                        *)
Reconnected(u) ==
  IF mgr.conns[u] = None
  THEN [m |-> WithConnection(mgr, u), p |-> [pub |-> {}, slot |-> TRUE]]
  ELSE [m |-> mgr, p |-> pg[u]]

RecoverPostgres(id) ==
  LET u   == meta[id].uri
      r   == Reconnected(u)
      n   == r.m.conns[u]
      src == <<meta[id].name, 0>>
      add == Sent(r.m, n, Command("add", id, src))
  IN  \/ /\ Works /\ meta[id].name \notin r.p.pub
         /\ mgr' = Registered(add, id, u, src)
         /\ pg' = [pg EXCEPT ![u] = [r.p EXCEPT !.pub = @ \cup {meta[id].name}]]
         /\ UNCHANGED <<blame, mode>>
      \/ /\ Works /\ meta[id].name \in r.p.pub
         /\ mode' = "down" /\ mgr' = NewManager /\ pg' = [pg EXCEPT ![u] = r.p]
         /\ blame' = blame \cup {<<"twice", u>>}
      \/ /\ Fails("pg")
         /\ mode' = "down" /\ mgr' = NewManager /\ pg' = [pg EXCEPT ![u] = r.p]
         /\ UNCHANGED blame

RecoverTable(id) ==
  /\ mode = "recovering" /\ id \in todo
  /\ todo' = todo \ {id}
  /\ IF meta[id].uri = Rest THEN RecoverRest(id) ELSE RecoverPostgres(id)
  /\ UNCHANGED <<requestVars, cache, meta, persisted, ending, retries, acked, panicked>>

(* start_with_config goes on: the event API, the servers, then ready        *)
Ready ==
  /\ mode = "recovering" /\ todo = {}
  /\ mode' = "up"
  /\ mgr' = IF mgr.conns[Rest] = None THEN WithConnection(mgr, Rest) ELSE mgr
  /\ UNCHANGED <<requestVars, cache, sourceVars, meta, persisted, todo, left, ghostVars>>
-----------------------------------------------------------------------------
CreateStep(c) ==
  \/ CreateBegin(c) \/ ConnectPublication(c) \/ ConnectSlot(c) \/ AddIdentity(c) \/ AddReady(c)
  \/ AddPublish(c) \/ AddCopied(c) \/ RestBegin(c) \/ RestAdd(c) \/ StoreMetadata(c)

DropStep(c) ==
  DropBegin(c) \/ DropHandler(c) \/ DropUnpublish(c) \/ DropCommand(c) \/ DeleteMetadata(c)

OtherStep(c) == Look(c) \/ LookAnswered(c) \/ ShutdownRequest(c) \/ SetAvroSchema(c)

Next ==
  \/ \E c \in Client : Submit(c) \/ SubmitAvro(c) \/ CreateStep(c) \/ DropStep(c) \/ OtherStep(c) \/ Timeout(c)
  \/ \E n \in DOMAIN mgr.conn : LoopCommand(n) \/ LoopDies(n)
  \/ ShutdownStep \/ Retry
  \/ \E id \in Id : Persist(id) \/ RecoverTable(id)
  \/ Crash \/ Restart \/ Ready

Spec == Init /\ [][Next]_vars

(* The runtime polls each task, Postgres and the metadata store answer or   *)
(* fail, a table that is served reaches every LSN asked for, and the        *)
(* service is started again.  Nothing is assumed of a wait for a table      *)
(* whose source is gone.                                                    *)
RequestStep(c) ==
  \/ CreateStep(c) \/ DropStep(c) \/ Look(c) \/ ShutdownRequest(c) \/ SetAvroSchema(c)
  \/ LookAnswered(c) /\ AnswerComes(c)

FairSpec ==
  /\ Spec
  /\ \A c \in Client : WF_vars(Submit(c) \/ SubmitAvro(c)) /\ WF_vars(RequestStep(c))
  /\ WF_vars(\E n \in DOMAIN mgr.conn : LoopCommand(n))
  /\ WF_vars(ShutdownStep) /\ WF_vars(Retry)
  /\ WF_vars(Restart) /\ WF_vars(\E id \in Id : RecoverTable(id)) /\ WF_vars(Ready)
-----------------------------------------------------------------------------
(* No request is between the steps it takes under the write lock *)
Quiet == mode = "up" /\ ~panicked /\ \A c \in Client : pc[c] \in {"idle", "lock", "meta", "answer", "avro"}

Blamed(what, whom) == <<what, whom>> \in blame

(* Types: a connection of the manager exists, a client waits for the lock    *)
(* once, and a service that is down has no manager (ReplicationManager)      *)
TypeOK ==
  /\ mode \in {"up", "recovering", "down"}
  /\ \A c \in Client : pc[c] # "idle" => script[c] # <<>>
  /\ \A i, j \in DOMAIN queue : i # j => queue[i].client # queue[j].client
  /\ \A u \in Source : mgr.conns[u] # None => mgr.conns[u] \in DOMAIN mgr.conn
  /\ \A u \in Uri : pg[u].pub # None => pg[u].pub \subseteq {r.name : r \in UNION {Range(s.script[c]) : s \in Scenarios, c \in Client}}
  /\ mode = "down" => mgr = NewManager /\ ending = {} /\ retries = {} /\ queue = <<>>
  /\ \A f \in DOMAIN left : left[f] >= 0

(* A lookup never panics: whatever requests, shutdowns and restarts came    *)
(* before, a table in table_info has its connection and its entry in        *)
(* table_states, as the comment in get_replication_connection says, unless  *)
(* a drop of it failed or was interrupted half-way.                         *)
TrackedTablesResolve ==
  /\ Quiet => \A id \in Id : LookupPanics(mgr, id) => Blamed("torn", id)
  /\ panicked => \E id \in Id : Blamed("torn", id)

(* A table of a Postgres source is in the publication, the slot is there    *)
(* and the event loop of its connection sends to this table, after any      *)
(* sequence of creations, drops, retries and restarts; the exceptions are a *)
(* shutdown of an earlier connection that ended late, a loop that ended, a  *)
(* half-done drop, and a failed creation that took the sink entry.          *)
SourceServesTables ==
  Quiet => \A id \in Id :
    mgr.info[id] # None /\ mgr.info[id].uri # Rest =>
      LET u == mgr.info[id].uri
          k == mgr.conn[mgr.conns[u]]
      IN  \/ Blamed("undercut", u) \/ Blamed("dead", u) \/ Blamed("torn", id)
          \/ Blamed("stolen", mgr.info[id].src)
          \/ /\ pg[u].slot /\ pg[u].pub # None /\ Name(mgr.info[id].src) \in pg[u].pub
             /\ k.cmds = <<>> => State(id, mgr.info[id].src) \in k.sink

(* What a client was told about a table holds across requests of others and *)
(* restarts: a created table is in the metadata store and is served; the    *)
(* exceptions are a REST table iceberg did not know at a restart, a closed  *)
(* connection, and a drop that overtook the creation.                       *)
CreatedTablesLast ==
  Quiet => \A id \in Id :
    acked[id] = "created" =>
      /\ meta[id] # None
      /\ mgr.info[id] # None \/ Blamed("unpersisted", id) \/ Blamed("closed", meta[id].uri)
           \/ Blamed("crossed", id)

(* A table whose drop was answered is not tracked and a restart does not    *)
(* bring it back, unless an earlier drop lost its metadata step or the      *)
(* table had metadata but was not tracked when it was dropped.              *)
DroppedTablesStayAway ==
  Quiet => \A id \in Id :
    acked[id] = "dropped" =>
      /\ mgr.info[id] = None \/ meta[id] # None
      /\ meta[id] = None \/ Blamed("undeleted", id) \/ Blamed("untracked", id)

(* A database without tables keeps neither publication nor slot (a slot     *)
(* nobody reads holds its log), unless a step of the shutdown or of a       *)
(* creation failed, or the process stopped.                                 *)
NothingLeftBehind ==
  Quiet => \A u \in Uri :
    mgr.conns[u] = None /\ (\A t \in ending : t.uri # u) /\ (\A r \in retries : r.uri # u)
      => pg[u] = NoPublication \/ Blamed("left", u)

(* The source serves no others: what the publication of an open connection  *)
(* names and what a running event loop sends to is tracked, once drops      *)
(* tried again have ended; the exceptions are what a creation that failed   *)
(* or was interrupted took and what such a drop gave up on, a REST table of *)
(* a name or an id that was taken, and a half-done drop.                    *)
OnlyTrackedAreServed ==
  Quiet => \A u \in {v \in Source : mgr.conns[v] # None} :
    LET k == mgr.conn[mgr.conns[u]]
        tracked == {State(id, mgr.info[id].src) : id \in {i \in Id : mgr.info[i] # None /\ mgr.info[i].uri = u}}
    IN  /\ u # Rest /\ pg[u].pub # None =>
             \A name \in pg[u].pub :
               \/ \E e \in tracked : Name(e.src) = name
               \/ Blamed("stolen", <<name, 0>>) \/ \E r \in retries : r.uri = u /\ r.what = name
        /\ LoopTakes(mgr, mgr.conns[u]) /\ k.cmds = <<>> =>
             \A e \in k.sink :
               e \in tracked \/ Blamed("stolen", e.src) \/ Blamed("twins", Name(e.src))
                 \/ Blamed("refused", Name(e.src))

(* Rows sent to a REST table's name reach that table with its schema, and   *)
(* an Avro schema that was set stays known, unless two tables had the name  *)
(* or the name was created again after its schema was cached, or a schema   *)
(* that is not the table's ended the loop.                                  *)
RestRowsFindTheirTable ==
  Quiet /\ mgr.conns[Rest] # None /\ mgr.conn[mgr.conns[Rest]].cmds = <<>>
    => LET k == mgr.conn[mgr.conns[Rest]]
       IN  /\ \A id \in Id :
                mgr.info[id] # None /\ mgr.info[id].uri = Rest =>
                  \/ Blamed("twins", Name(mgr.info[id].src)) \/ Blamed("torn", id) \/ Blamed("dead", Rest)
                  \/ /\ State(id, mgr.info[id].src) \in k.sink
                     /\ \E r \in k.routes : r.src = mgr.info[id].src /\ r.schema = id
           /\ \A r \in k.routes :
                r.name \in cache => r.avro \/ Blamed("stale", r.name) \/ Blamed("twins", r.name)

(* A request that waits for an LSN its source no longer brings *)
Starves(c) == pc[c] = "answer" /\ ~AnswerComes(c)
Holds(c)   == \E i \in DOMAIN queue : queue[i].client = c

(* Every request ends, no two wait on each other: the lock comes round, also *)
(* behind scans and waits for the log that keep it.  The one exception is a  *)
(* scan or a snapshot of a table that is no longer served, for itself and,   *)
(* for a scan, which keeps the lock, for those behind it.                    *)
RequestsEnd ==
  \A c \in Client : pc[c] # "idle" ~>
    (pc[c] = "idle" \/ panicked \/ Starves(c) \/ \E d \in Client : Starves(d) /\ Holds(d))

(* Without that exception (not so: a scan keeps the lock for good once the   *)
(* event loop of its table has ended, scan_table of lib.rs)                  *)
NobodyStarves == \A c \in Client : pc[c] # "idle" ~> (pc[c] = "idle" \/ panicked)

(* The service comes up again after a crash, unless the metadata store has  *)
(* one source table twice, which a half-done drop and a new creation leave. *)
ServiceReturns == mode # "up" ~> (mode = "up" \/ \E u \in Uri : Blamed("twice", u))

(* Tables that are tracked are served, and the source serves no others: the  *)
(* maps of manager and connection, publication, slot and the routes of REST  *)
(* rows agree (replication_manager.rs, replication_connection.rs).           *)
TablesAreServed ==
  TrackedTablesResolve /\ SourceServesTables /\ OnlyTrackedAreServed /\ RestRowsFindTheirTable
    /\ NothingLeftBehind

(* What clients were told lasts, for created tables as for dropped ones      *)
(* (create_table, drop_table of the backend).                                *)
AnswersLast == CreatedTablesLast /\ DroppedTablesStayAway

(* Requests are answered and the service comes back (rpc_server.rs,          *)
(* recovery_utils.rs).                                                       *)
ServiceAnswers == RequestsEnd /\ ServiceReturns
=============================================================================
