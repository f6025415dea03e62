---------------------------- MODULE MCReplication ----------------------------
(***************************************************************************)
(* The ways rows come into a table: the Postgres event loop, the addition  *)
(* of a table, the parallel initial copy, and REST ingestion.  They share  *)
(* no state that the properties are about; a behaviour runs one of them    *)
(* and leaves the others in their initial state.                           *)
(***************************************************************************)
EXTENDS EventLoop, TableAddition, InitialCopy, RestIngest

CONSTANT Parts    \* the machines to run

VARIABLE part

vars == <<part, streamVars, addVars, copyVars, restVars>>
-----------------------------------------------------------------------------
(* The wire *)
Msg(type, t, xid, lsn, end) ==
  [type |-> type, table |-> t, xid |-> xid, lsn |-> lsn, end |-> end, cols |-> 2, bad |-> FALSE,
   aborted |-> FALSE]

Begin(end)        == Msg("Begin", None, None, end - 1, end)
Row(type, t, end) == Msg(type, t, None, 0, end)
Commit(end)       == Msg("Commit", None, None, end, end)
KeepAlive(lsn)    == Msg("KeepAlive", None, None, lsn, lsn)
Streamed(t, x, end) == Msg("Insert", t, x, 0, end)
Mark(type, x, end)  == Msg(type, None, x, 0, end)
StreamCommit(x, end) == Msg("StreamCommit", None, x, end, end)
Cols(m, n) == [m EXCEPT !.cols = n]

Add(t)   == [type |-> "AddTable", table |-> t, cols |-> 2]
Drop(t)  == [type |-> "DropTable", table |-> t, cols |-> 0]
Shutdown == [type |-> "Shutdown", table |-> "a", cols |-> 0]

Budget(d, f, w) == [disconnect |-> d, fail |-> f, wal |-> w]

Columns(n) == [t \in SrcTable |-> IF t = "a" THEN n ELSE 2]

(* Two transactions over two tables, a message the loop does not know,      *)
(* keepalives between; the connection breaks, and may not come back         *)
Plain ==
  [wire |-> <<Begin(11), Row("Insert", "a", 11), Row("Update", "b", 11), Commit(11), KeepAlive(11),
              Begin(21), Row("Delete", "a", 21), Msg("Unsupported", "a", None, 0, 21), Commit(21), KeepAlive(21)>>,
   commands |-> <<Add("a"), Add("b")>>, columns |-> Columns(2), budget |-> Budget(1, 1, 1)]

(* Two streamed transactions, one aborted, around a plain one *)
Streams ==
  [wire |-> <<Mark("StreamStart", 1, 31), Streamed("a", 1, 31), Streamed("b", 1, 31), Mark("StreamStop", 1, 31),
              [Streamed("a", 2, 25) EXCEPT !.aborted = TRUE], Mark("StreamAbort", 2, 25),
              Begin(21), Row("Insert", "b", 21), Commit(21),
              Streamed("a", 1, 31), StreamCommit(1, 31)>>,
   commands |-> <<Add("a"), Add("b")>>, columns |-> Columns(2), budget |-> Budget(1, 0, 0)]

(* A column is dropped; the table is dropped and added again *)
Alters ==
  [wire |-> <<Begin(11), Row("Insert", "a", 11), Commit(11), Begin(21), Cols(Row("Relation", "a", 21), 1),
              Cols(Row("Delete", "a", 21), 1), Msg("Type", None, None, 0, 21), Commit(21)>>,
   commands |-> <<Add("a"), Drop("a"), Add("b"), Shutdown>>, columns |-> Columns(1), budget |-> Budget(1, 1, 0)]

Readds ==
  [wire |-> <<Begin(11), Row("Insert", "a", 11), Commit(11), Begin(21), Row("Insert", "a", 21), Commit(21)>>,
   commands |-> <<Add("a"), Drop("a"), Add("a")>>, columns |-> Columns(2), budget |-> Budget(0, 0, 0)]

(* A row that cannot be converted *)
Cuts ==
  [wire |-> <<Begin(11), [Row("Insert", "a", 11) EXCEPT !.bad = TRUE], Row("Insert", "a", 11), Commit(11)>>,
   commands |-> <<Add("a")>>, columns |-> Columns(2), budget |-> Budget(0, 0, 0)]

MCStreamScenarios == {Plain, Streams, Alters, Readds, Cuts}

MCAddScenarios == [rows : {0, 1}, crash : {1}, fail : {0, 1}]
-----------------------------------------------------------------------------
(* The rows of a table by blocks, the blocks Postgres estimates, the shards *)
Blocks(ns) == UNION {{<<b - 1, i>> : i \in 1 .. ns[b]} : b \in 1 .. Len(ns)}

Copying(ns, blocks, shards, r, w, f) ==
  [rows |-> Blocks(ns), blocks |-> blocks, shards |-> shards,
   failures |-> [reader |-> r, writer |-> w, finalize |-> f]]

(* Blocks that do not divide evenly, that grew since the estimate, fewer    *)
(* than shards, none; failures of readers, writers and the last commit      *)
MCCopyScenarios ==
  {Copying(<<1, 1, 1, 1, 1>>, 5, 2, 0, 0, 0), Copying(<<2, 1, 1>>, 2, 2, 0, 0, 1),
   Copying(<<1, 0, 2>>, 3, 4, 0, 0, 0), Copying(<<2, 2>>, 2, 2, 1, 1, 0), Copying(<<2>>, 0, 2, 0, 0, 0),
   Copying(<<>>, 0, 2, 0, 0, 0), Copying(<<2, 2>>, 2, 1, 0, 2, 0)}
-----------------------------------------------------------------------------
Req(op, t, mode) == [op |-> op, table |-> t, mode |-> mode, operation |-> "insert", valid |-> TRUE, files |-> <<>>]
Insert(t, mode, files) == [Req("insert", t, mode) EXCEPT !.files = files]
RowOf(t, mode, operation) == [Req("row", t, mode) EXCEPT !.operation = operation]
Snapshot(t) == Req("snapshot", t, "sync")
Flush(t)    == Req("flush", t, "sync")
Both(a, b, d, r) == [requests |-> [c \in Client |-> IF c = "c1" THEN a ELSE b], budget |-> [drop |-> d, restart |-> r]]

MCRestScenarios ==
  {Both(<<RowOf("t", "sync", "insert"), Flush("t")>>, <<RowOf("t", "async", "insert"), Snapshot("t")>>, 0, 1),
   Both(<<Insert("t", "async", <<1, 1>>), Snapshot("t")>>, <<RowOf("t", "sync", "upsert")>>, 0, 0),
   Both(<<Insert("u", "sync", <<1, Unreadable>>)>>,
        <<Insert("u", "async", <<2>>), [RowOf("u", "sync", "delete") EXCEPT !.valid = FALSE]>>, 0, 0),
   Both(<<Req("upload", "t", "sync"), Flush("t")>>, <<RowOf("t", "async", "delete")>>, 1, 0),
   Both(<<RowOf("u", "async", "insert")>>, <<Insert("t", "async", <<0>>)>>, 0, 1)}
-----------------------------------------------------------------------------
Init == /\ part \in Parts
        /\ StreamInit /\ AddInit /\ CopyInit /\ RestInit
        /\ part # "stream" => plan = CHOOSE s \in StreamScenarios : TRUE
        /\ part # "add"    => addScenario = CHOOSE s \in AddScenarios : TRUE
        /\ part # "copy"   => copyScenario = CHOOSE s \in CopyScenarios : TRUE
        /\ part # "rest"   => restScenario = CHOOSE s \in RestScenarios : TRUE

Next == /\ \/ part = "stream" /\ StreamNext /\ UNCHANGED <<addVars, copyVars, restVars>>
           \/ part = "add"    /\ AddNext    /\ UNCHANGED <<streamVars, copyVars, restVars>>
           \/ part = "copy"   /\ CopyNext   /\ UNCHANGED <<streamVars, addVars, restVars>>
           \/ part = "rest"   /\ RestNext   /\ UNCHANGED <<streamVars, addVars, copyVars>>
        /\ UNCHANGED part

(* Each machine goes on with what is under way; new requests, broken         *)
(* connections, failures and restarts need not come                          *)
Progress ==
  /\ \/ part = "stream" /\ StreamProgress /\ UNCHANGED <<addVars, copyVars, restVars>>
     \/ part = "add"    /\ AddProgress    /\ UNCHANGED <<streamVars, copyVars, restVars>>
     \/ part = "copy"   /\ CopyProgress   /\ UNCHANGED <<streamVars, addVars, restVars>>
     \/ part = "rest"   /\ RestProgress   /\ UNCHANGED <<streamVars, addVars, copyVars>>
  /\ UNCHANGED part

(* Adding a table ends, if only by a panic, and it then catches up with the  *)
(* source: AdditionEnds, where a table is added (perform_initial_copy,       *)
(* process_blocked_events).                                                  *)
AddedTableCatchesUp == part = "add" => AdditionEnds

(* The parallel copy returns unless every writer failed: CopyReturns, where  *)
(* a table is copied (copy_table_stream).                                    *)
ParallelCopyReturns == part = "copy" => CopyReturns

(* Whichever way rows come in, they arrive and the caller hears of it: the   *)
(* stream, an added table, a parallel copy and the REST handlers             *)
(* (run_event_loop, add_table, copy_table_stream, rest_api.rs).              *)
RowsComeThrough == StreamCatchesUp /\ AddedTableCatchesUp /\ ParallelCopyReturns /\ HandlersReturn

Spec == Init /\ [][Next]_vars /\ WF_vars(Progress)
=============================================================================
