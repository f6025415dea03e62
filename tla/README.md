# Moonlink in TLA+

Moonlink mirrors tables, from PostgreSQL logical replication or from a REST endpoint, into Iceberg. Each table is
driven by one event loop that owns a `MooncakeTable`; flushing, snapshotting, persisting, compacting and writing
the log run as detached tasks that talk to the loop only through result events. Around the tables are the
connections that feed them, the readers that query them before they are persisted, a cache of files that all of
these share, and a backend that creates, drops and recovers tables. What makes the system correct is not any one
of these steps but their overlap. This directory models the parts, checks them with TLC, and proves the
main safety properties of six of the models with TLAPS.

Paths below are relative to `src/src/` of the repository; `table_handler_state.rs` is
`moonlink/src/table_handler/table_handler_state.rs`, and so on.

## 1. The system and its models

| Part | Code | Modules |
|---|---|---|
| Flush LSNs: which LSN may a persisted snapshot claim when flushes finish out of order | `mooncake_table.rs` | `FlushLsnOps`, `FlushLsns` |
| The table's event loop with its tasks, requests and special states | `table_handler.rs`, `table_handler_state.rs`, `mooncake_table.rs`, `transaction_stream.rs`, `snapshot.rs` | `MooncakeTable`, `TableHandlerOps`, `TableHandler` |
| Rows by position: mem slices, batches, deletion vectors, remapping | `mooncake_table/` (`mem_slice.rs`, `disk_slice.rs`, `data_batches.rs`, `delete_vector.rs`, `snapshot.rs`), `index/mem_index.rs` | `RowSlices`, `RowStore`, `RowSnapshot` |
| The hash index of data files | `index/persisted_bucket_hash_map.rs`, `async_bitwriter.rs` | `GlobalIndex` |
| The files of a table: cache, snapshot, persistence, maintenance, reads | `cache/object_storage/`, `snapshot_persistence.rs`, `snapshot_maintenance.rs`, `persistence_buffer.rs`, `compaction/`, `snapshot_read*.rs` | `ObjectStorageCache`, `SnapshotFiles`, `DiskFiles` |
| The Iceberg table on storage | `table/iceberg/` | `IcebergCatalog`, `IcebergTable`, `AtomicTable` |
| The write-ahead log | `wal.rs` | `WalOps`, `Wal`, `CommitLog` |
| Union reads | `union_read/`, the watch channels of LSNs | `UnionRead` |
| The stream of a PostgreSQL connection | `pg_replicate.rs`, `postgres_source.rs`, `moonlink_sink.rs` | `EventLoop` |
| Adding a table to a connection | `pg_replicate.rs`, `clients/postgres.rs` | `TableAddition` |
| The parallel initial copy | `initial_copy.rs`, `initial_copy_writer.rs` | `InitialCopy` |
| REST ingestion | `rest_ingest*`, `rest_api.rs` | `RestIngest` |
| Values into columns and back | `row/`, `pg_replicate/util.rs`, `conversions/`, `json_converter.rs`, `avro_converter.rs` | `Columns`, `RowConversions`, `PgText` |
| Connections, backend, metadata, service | `replication_manager.rs`, `replication_connection.rs`, `moonlink_backend/src/lib.rs`, `rpc_server.rs`, `rest_api.rs` | `ReplicationManager`, `ControlPlane` |

A module named `...Ops`, and `MooncakeTable`, `SnapshotFiles`, `ObjectStorageCache`, `IcebergCatalog`,
`ReplicationManager`, `RowSlices`, `Columns` hold operators on records that stand for the structs of the code; the
module beside them is the state machine. `MC...` modules are instances for TLC, `..._proofs` modules hold theorems.

How the parts interact, and where the models meet:

* The sink of a connection sends CDC events over one channel per table and marks the shared replication LSN after a
  commit has been *sent*. `EventLoop` ends at the channel: a table there is what it received and how far it is
  durable. `TableHandler` begins at the channel and lets the replication LSN run ahead of it.
* The loop applies events and, on a commit, may start a flush. A timer asks for a mooncake snapshot; the snapshot
  task takes what has finished and may hand out a payload, which a persistence task commits. `FlushLsns` is the
  contract of the LSNs in this and its operators are the ones `MooncakeTable` uses.
* In `TableHandler` a persistence is one step and rows are values. `IcebergTable` splits that step into the writes
  to storage and shows that they look like one (`AtomicTable`); `DiskFiles` follows the files, and `RowSnapshot` the
  positions, through the snapshots.
* `Wal` takes from the table that it persists a prefix of its commits, which is what `TableHandler` checks, and adds
  the log and recovery from it. `CommitLog` is what table and log together promise the source; `EventLoop` takes
  that promise when it confirms LSNs.
* `UnionRead` takes versions of the table from the snapshot task and follows which of them a reader is given.
* `TableAddition` treats copy and stream as sets of rows, `InitialCopy` the copy itself, `TableHandler` what a table
  does with events while it is being copied.
* `ControlPlane` treats a table as an entry in maps, in the source and in the metadata store.

### State and actions

An action is one handler of the code, or the part of an async function between two awaits at which somebody else
may run. Each module starts with a comment on its variables; `PROJECT.json` maps each definition to its lines.

* `FlushLsns`: besides the fields (`fl`), how many disk slices of each flush LSN are in the next task, in the task
  of the snapshot in flight, in the snapshot and in the last payload. `top` is the largest LSN the caller handed
  out, `written` is history. The caller's contract, which `TableHandler` has to keep, is that flush LSNs do not
  decrease.
* `TableHandler`: `loop` is the record of the loop: `table`, `state` (`TableHandlerState`), `tasks` in flight,
  `chan` (what tasks and loop sent to the loop), `client` (what callers were last told). `snap` is the
  `SnapshotTableState`, `ice` the Iceberg table; the rest is the source. `SendRow` and `EndTransaction` deliver
  events (`process_cdc_table_event`), `Periodical...` are timer ticks, `Request...` and `...InitialCopy` requests,
  `WriteSlice`, `UpdateSnapshot`, `PersistSnapshot`, `Maintain`, `PersistWal` detached tasks, `Receive...` the result
  arms of the loop. `ReplicateAhead` is the sink marking a commit that is still in the channel; `Crash` leaves only
  `ice`; `Reconnect` keeps the table and sends transactions again.
* `RowStore`/`RowSnapshot`: `Insert`, `Delete`, `Upsert`, `Commit`, `Abort` are the calls of the loop, each with the
  flush it triggers; `FinishFlush` applies a detached flush with its remapping; `Snapshot` is `update_snapshot`.
  `ref` is history: the rows after each commit.
* `GlobalIndex` and `RowConversions` and `PgText`: the state is the input and how far it has been processed; an
  action converts, writes, merges or compacts, and the properties compare the result with a reference definition.
* `DiskFiles`: `snap` (`SnapshotFiles`), `task`, `out` (payloads handed out), `sync`, `comp`, `merge` (the background
  work and where it stands), `reader`, `files` (local files that exist), `ice`. The snapshot lock is held by a
  read across its I/O; the cache's lock is not held across a miss, so two misses interleave.
* `IcebergTable`: each write to storage (data files, puffin blobs, manifests, manifest list, metadata, version hint)
  is a step; `FailStep` and `Crash` may come between any two, and `LoseAnswer` loses the answer of a commit.
* `Wal`: `Source` pushes an event; `DoWalPersistenceUpdate` prepares an update, whose task takes the steps
  `PersistNewWalFile`, `PersistMetadata`, `DeleteFiles`; `HandleWalResult` moves the trackers; `SendStatusUpdate`
  tells the source; `CrashAndRecover` leaves disk and Iceberg, the log on disk is replayed event by event, and the
  source sends the rest again, after the replay or (`ordered = FALSE`) between its events.
* `UnionRead`: a reader's `pc` walks through `try_read`: the cached state, then the three watch channels one after
  the other, then waiting, or a new read state. `SinkCommit` and `SinkReplicated` are the two marks of one commit.
  `torn`, `early` and `failed` remember that one of the accidents named in the properties has happened.
* `EventLoop`, `TableAddition`, `InitialCopy`, `RestIngest`: the loops of the connectors with their channels. The
  PostgreSQL server is external: it decodes what was published when it was written, and sends every transaction
  that ends after the LSN a stream starts from. A batch of `EventLoop` holds its events under their places in the
  stream. In `TableAddition` and `InitialCopy` rows that are buffered, written or loaded are bags, so that a row that
  comes twice is seen; the readers of `InitialCopy` have the numbers of their shards and a row is its block and its
  place in it.
* `ControlPlane`: `pc[c]` is where a request of client `c` awaits, `queue` the RwLock, `mgr` the manager, `pg` the
  publications and slots, `meta` the metadata store, `retries` and `ending` the background tasks. A REST request
  may time out at any await. `blame` remembers which accident happened to which table or source. An Avro schema that
  is not the table's fails an assertion and ends the REST loop (`AvroPanics`, `Died`). `LookAnswered` is the end of a
  wait for an LSN; `AnswerComes` says when that end is certain.

A failed assertion, unwrap or panic of the code sets `panic`, after which the part does nothing more.

### Abstractions

* LSNs are small naturals; `None` is 0 where the code reads `None` as 0. In `TableHandler` the end LSN of
  transaction *i* is `2i` and row events carry an LSN between the end of the transaction before and their own; the
  field `adjacent` of a scenario chooses whether it may *equal* the former. The placeholder LSN of a streaming
  transaction is above all of them, as in the code. In `UnionRead`, `U64Max` is the largest LSN, as in the code.
* In `TableHandler` a row is its contents and is not inserted again once deleted, so a file, batch or disk slice is
  the set of rows it was made with; `ice.twice` keeps what sets would hide. `RowStore` is where keys are written
  again, rows have duplicates and hashes collide.
* Sizes that trigger work are small constants, except the thresholds of maintenance: which files are small enough or
  have lost enough rows, and how many of them fit the limit, is any choice of all or of two and more (`Selections`;
  fewer are never maintained). In the cache every file has the size of one block.
* In `GlobalIndex` words, bytes, buffers and hashes have a few bits; `splitmix64` is a permutation. The place of a
  bucket is computed in `OffsetBits` bits (32 in the code, 8 in the run, enough for its indices; section 4 has what
  happens when they are not). The result of a lookup is a set there, so a match reported twice would not show. In `Columns` the
  integer types have 2, 3 and 4 bits and a decimal 13, so that every boundary is met; strings are names.
* Recovery reads all log files when it begins; the code streams them while it replays.
* In `TableHandler` a persistence commits atomically or fails before it, which `IcebergTable` justifies; the schema
  is a version there, and an alter is its blocking, assertions and held-back events.
* Channels between source and loop are unbounded in `TableHandler` (bounded in the code) and bounded in `InitialCopy`,
  where blocking matters.
* Snapshot isolation and row locks at the source: a transaction deletes only rows it can see, and no row another
  open transaction has deleted.
* Parquet, Avro, puffin and JSON encodings are left out; what is read back is what was written. SQL is what its
  answers are. The wording of errors is left out, their control flow is not.

## 2. What is checked

`tlc -config <cfg> <module>`. A property whose exceptions are listed below has them in its definition: the accident
is remembered in a history variable and the property holds until it happens. Section 4 says what happens then.

| Run | Module, cfg | Distinct states | Shows |
|---|---|---|---|
| `flush_lsns` | `MCFlushLsns` | 203,565 | the contract of the flush LSNs |
| `table` | `MCTableHandler`, `MCTableSafety.cfg` | 1,265,317 | safety of a table over all interleavings, with crashes, failing tasks, alters, reconnects |
| `requests` | `MCTableHandler`, `MCTableRequests.cfg` | 137,791 | requests at any moment are answered, truthfully |
| `wal` | `MCWal` | 300,234 | the log, with crashes between any two writes |
| `union_read` | `MCUnionRead` | 822,215 | readers beside a moving table |
| `disk_files` | `MCDiskFiles` | 678,327 | files shared by snapshot, persistence, maintenance and a reader |
| `replication` | `MCReplication` | 88,293 | the four ways rows come in |
| `iceberg` | `MCIcebergTable` | 46,597 | commits to storage, cut off anywhere |
| `control_plane` | `MCControlPlane` | 277,779 | requests that create and drop tables, with failures and restarts |
| `table_data` | `MCTableData` | 129,288 | rows, index, columns, text against their definitions |
| `null_lists` | `MCTableData`, `MCTableDataLists.cfg` | | a disagreement, see section 4 |
| `pruned_in_compaction` | `MCDiskFiles`, `MCDiskFilesPrune.cfg` | | a disagreement, see section 4 |

**flush_lsns.** `PayloadExact`: a payload holds the slices of exactly the flushes at or below the LSN it claims.
`QuiescentCaughtUp`: no parked LSN is lost. `EventuallyCovered`: every flush is in the end covered. The facts behind
the first (`FlushLsnFinished`, `AssertionsHold`, `FlushLsnMonotone`) are proved, see section 3.

**table.** `DurableUnlessReplayed`: the Iceberg table holds exactly the rows the source had after the transactions at
or below the LSN it claims, none twice, as long as no live table is sent a transaction again. `PanicsHaveACause`: no
assertion of the loop or a task fails before a task failed, a schema change was requested or something was sent
again.

**requests.** `TableStaysSound`: the same two without exceptions (`DurablePrefix`, `NoPanic`), whatever is requested
when. `AnswersUntilDropped`: a force snapshot is answered only when Iceberg covers it. `ForceSnapshotAnswered`, and
`WaitingEnds` for drops, blocked tables and maintenance (`DropCompletes`, `BlockingEnds`, `MaintenanceAnswered`).

**wal.** `RecoveryIsPrefix`: the table is a prefix of the history (`TableIsHistory`), and whatever is on disk, Iceberg
and the replayed log give one too, with no row lost or twice (`RecoversPrefix`, for the first crash). Streaming
transactions that only the log has are left out of both (`Replayable`, section 4). `ToldIsDurable`: the source is told
of a transaction that is not streamed only when recovery would bring all of it back, after earlier crashes too.
`ImplementsCommitLog`: the refinement of `CommitLog`, over the same transactions, with the recoverable log as `durable`.
`LogIsTruncated`: log files do go in the end.

**union_read.** `ReadCovers`: what a read returns has every commit up to the LSN it asked for. `ReadsGoForward`: no
read gets an older version than one another query holds. `ReadsAreWhole`: the temporary file of a read is there while
it is used, and no row is in both the file and the data files. `NoPanic`: the reader's assertions on its three LSNs
hold. `ReadReturns`: a read of an LSN the source reaches is answered. Exceptions: a commit marked while a reader loads
the channels, an earlier read that failed after storing its LSN, commits replayed at recovery, a snapshot read before
it was announced.

**disk_files.** `CacheAddsUp`: pins match holders, nothing in use is deleted (`HeldFilesExist`), the bytes are those of
the entries (`BytesAreEntries`), and no assertion fails (`NoPanic`). `NoFileLeaks`: nothing is left behind. `ReadIsHistory` (with `SnapshotIsHistory`),
`IcebergIsHistory`: deletions follow their rows through flushes, compactions, index merges and persistence in any
order. Exceptions: two misses of one file at once; a cache full of pinned files; a failed compaction; the run
`pruned_in_compaction`. In the scenarios of the run an index covers one file, so that choosing some of the files chooses
all of an index (section 4 has the other case).

**replication.** `WholeCommits`: tables commit whole transactions of the stream. `SlotIsSafe`: the slot confirms only
what every table has durable. `CopyMeetsStream`: no row twice or missing between the copy of an added table and its
stream. `CopyIsExact`: the parallel copy loads every row once and counts them. `RequestsAreKept`: a REST request arrives whole
(`WholeRequests`) and in order (`CommitsGoForward`), and what its client was told stays true (`ToldIsReceived`,
`ConfirmedSurvives`), and none ends the loop (`LoopSurvives`). `RowsComeThrough`: the stream, an added table and a copy get to their end and every handler
answers (`StreamCatchesUp`, `AddedTableCatchesUp`, `ParallelCopyReturns`, `HandlersReturn`). Exceptions at REST: an
insertion overtaken while it drew its LSNs, an empty file, the first row after a restart, a loop that waits for the lock
its own stream holds, and waits for an LSN that was lost in a restart.

**iceberg.** `ImplementsAtomicTable`: the refinement of `AtomicTable`; to a reader of the table a snapshot is there as a
whole or not at all. `RestartFindsTable`: wherever the process stopped the table loads (`LoadNeverFails`), no older
than reported (`AckedIsStored`), with every row indexed once (`FilesAreIndexed`), and nothing panics (`NoPanic`). `ManagerMatchesStore`: what the
manager believes is what a load gives. Exceptions: a creation that was cut short, and a table whose files the retry of a
commit with a lost answer has listed twice (`ListedTwice`), which loads but has its rows twice.

**control_plane.** After any sequence of requests, failures and restarts, outside the accidents the definitions name:
`TablesAreServed`, what is tracked is served and nothing else is (`TrackedTablesResolve`, `SourceServesTables`,
`OnlyTrackedAreServed`, `RestRowsFindTheirTable`, `NothingLeftBehind`); `AnswersLast`, created tables come back after a restart and dropped
ones do not (`CreatedTablesLast`, `DroppedTablesStayAway`); `ServiceAnswers`, no two requests wait on each other and the
service comes up again (`RequestsEnd`, `ServiceReturns`). A scan or a snapshot of a table that is no longer served
waits for good, and so do those behind a scan, which keeps the lock; `RequestsEnd` excepts them (section 4).

**table_data.** For row positions `SnapshotIsHistory` and `RowsAreFound` (`IndexFindsRows`, `VectorsMatchLog`,
`NoPanic`). For the index file, bit by bit, `IndexIsExact` (`LookupsAreExact`, `CompactedLookupsAreExact`,
`BlocksAreWhole`). For values of each source and type `RowsArriveWhole` (`ColumnsHoldRows`, `ConvertedRowsFit`) and
`RowsAreRecognised` (`RowsMatchTheirSlots`, `KeysReadBack`). For PostgreSQL's text `TextReadsBack`.

Modules whose state has types worth stating say so in `TypeOK`. Apart from the proof of `FlushLsns` it is documentation
of the state and part of no run; it holds when it is added to one.

`MCReplication` and `MCTableData` put models side by side that share no state a property is about: a behaviour runs one
of them. Deadlock is checked in `union_read` and `disk_files`, where every end is named. Elsewhere a behaviour ends when a
history has been sent and nothing is in flight, when a table has been dropped, and where an assertion has failed.

**Bounds.** They are chosen so that every overlap the code can meet happens with the fewest actors.

* `flush_lsns`: 3 LSNs, up to 2 flushes in flight per streaming commit. The theorems of section 3 lift the bound.
* `table`, `requests`: three transactions (two in `requests`) of up to three operations on three rows, in every
  assignment of kinds (`main`, `main_flush`, `stream`, `abort`) to shapes that delete rows of an earlier transaction
  in memory, being flushed, flushed or persisted, and rows of their own. Two transactions are what every overlap
  needs, the third lets a deletion be committed but newer than the flush LSN while another is older. A mem slice of
  two rows makes both size-triggered and forced flushes happen. A scenario has a budget of requests and faults, one of
  each kind. Requests nobody combines in the code (an alter during a copy) are not combined.
* `wal`: one or two transactions of one or two rows, of every kind, one crash and one failing update; a second crash is
  covered by `ToldIsDurable` being about what a further crash would leave. Replay before the source's events, and no
  streaming transaction that spans several log files at a crash (section 4 has both).
* `union_read`: two readers, logs of 2 to 3 LSNs with 0 to 2 commits, 2 to 3 reads, one failure. Also lifted by theorems.
* `disk_files`: one to three files of one or two rows, one compaction or merge of all or some of them, up to 2 deletions and 5 snapshots, a
  reader, a failure and a drop, with a cache from too small (3 blocks) to ample (12).
* `replication`: the stream with two tables, two transaction ids and three LSNs; the copy with two readers and
  writers, channels and batches of one, files of two rows (stream, addition and copy are lifted by theorems); REST with two clients and two tables. A batch of three events
  per wake lets a batch end inside a transaction.
* `iceberg`: up to four syncs (imports, deletions, a compaction, an index merge), manifests of up to four entries, both
  a file catalog and one that commits at a service (REST, Glue).
* `control_plane`: two clients, tables `a` and `b` from one PostgreSQL source and from REST, one fault of each kind;
  one scenario registers the Avro schema of another table.
* `table_data`: two or three keys, two of which collide, under each row identity; mem slices of two rows, files of
  one; indices of 4-bit hashes and words and an 8-byte buffer; one or two rows of every type and source; texts of up
  to two characters from those the grammar tells apart.

**Fairness.** Weak fairness throughout, of what the runtime, a timer or the source does by itself: spawned tasks run to
their end, timers re-arm themselves, loops only await. In `FlushLsns` of flushes and snapshots; in `TableHandler` of the
source, the copy, the snapshot timer, each kind of task and receiving; in `Wal` of the source, persistence, the log's
timer and task and the status update; in `UnionRead` of the sink's marks, the snapshot and each reader's steps; in
`ControlPlane` of each client's steps, loop commands, shutdowns, retries, the restart and recovery, where a wait for an
LSN ends for certain only while the table is served (`AnswerComes`), or, for a wait for the log, by the REST server's
timeout (`rest_api.rs:404`); in `MCReplication`
of progress of the part that runs. Requests, failures, crashes, lost connections and timeouts need not happen; a failing
task counts as the end of its task. No strong fairness is assumed.

## 3. What is proved

**`FlushLsns_proofs`**, for every set `Lsn` of positive naturals and every positive `MaxSlices` (`LsnAssumption`,
`MaxSlicesAssumption`): `TypeCorrect`, `FlushLsnCoversFinished` (`[]FlushLsnFinished`), `PayloadIsExact`
(`[]PayloadExact`), `NoLsnLost` (`[]QuiescentCaughtUp`), `NoAssertionFails` (`[]AssertionsHold`),
`FlushLsnNeverRegresses` (`FlushLsnMonotone`). All rest on `Invariance` (`Spec => []IInv`). `PayloadExact` is far from
inductive: that the slices of a payload are complete needs to know where every other slice is. `IInv` adds

* `SlicesConserved`: each announced slice is in exactly one of: being written, next task, running task, snapshot;
* `SlicesOrder`: a slice not yet in the snapshot is above the flush LSNs it has not been merged with, and at or below
  the *largest* flush LSN that travels with it. This is what makes `flush_lsn = largest_flush_lsn` a sound test for "no
  slice of a later flush is in here";
* `LsnOrder`: LSNs grow along next task, running task, snapshot, payload (read backwards), all below `top`;
* `ParkedOrder`, `LargestAccounted`: parked LSNs exist only while a flush is in flight, have a maximum, and the largest
  LSN heard of is recorded, parked or in flight;
* `IdleTaskEmpty`: there is nothing in a task that does not run.

The lemmas `InsertOngoingFacts`, `RemoveOngoingFacts`, `TrySetLargestFacts` and `TrySetNextFacts` say field by field what
the operators of `FlushLsnOps` return; then there is one lemma per action.

**`UnionRead_proofs`**, for every log, every set of commits and any number of readers (`ScenarioAssumption`: the
commits are in the log, a table is recovered up to an LSN of it, and `U64Max` is not one): `ReadsCover` (`[]ReadCovers`),
`LsnAssertionsHold` (`[]NoPanic`), `ReadsForward` (`ReadsGoForward`), the first two with the exceptions their
properties state: LSNs loaded around a commit half marked, commits replayed at recovery and, for `ReadCovers`, a read
that failed. A reader loads three LSNs one after the other while
the sink moves them, so the invariant has to say what each of them is worth at every point of the reader's path:

* `VersionOrder`: the version a query holds, the cached one, the snapshot's and the last commit received are in order;
* `MarksInOrder`: between two transactions the table's commit LSN is its last commit up to the replication LSN;
* `LoadsInOrder`: what a reader has loaded is still right, unless it met a commit half marked;
* `CacheCovers`: the cached read state has every commit up to the LSN stored with it.

In the same module, with the same constants: `FilesAreKept` (`[]ReadsAreWhole`). Two read states of one version
would share the name of a temporary file, and the drop of one would take it from the other. `FInv`, on top of the
invariant above, says that this does not come about: a state with a file has its own (`OwnFile`), and either the snapshot
has moved on, or the cached LSN covers its version, or the snapshot has nothing in memory (`BuiltOnce`), so no second file
of that version is made; what is cached or read has not been dropped (`UsedAreLive`).

**`EventLoop_proofs`**, for every stream, set of tables, list of commands and size of batches (`StreamAssumption`: rows
and relations name a table): `TheSlotIsSafe` (`[]SlotIsSafe`). The invariant is that a registered table is durable up to
the confirmed LSN or was registered at or after it (`Confirmed`), which the minimum over the tables keeps whatever comes
and goes between two status updates, and that what a table received has a largest LSN (`Bounded`). The rest is that no
path of the sink takes a durable LSN back or sends to a registration that is not there.

**`WholeCommits_proofs`**, about the same model: `TablesCommitWholeTransactions` (`[]WholeCommits`). It also takes the
wire as PostgreSQL sends it (`WireAssumption`: a row carries the end of the transaction that the next end of its xid
ends; a commit without an xid is that of the one transaction that is not streamed) and tables that have columns
(`ColumnsAssumption`). What a commit brings is decided many steps earlier, so `WInv` follows the rows on their way: the
batch holds the events of the next places of the wire, with all their columns unless a fault was noted (`BatchFollows`);
the sink remembers every table that an open transaction touched, and its cached sender is the one in its map
(`SinkFollows`); a registered table has a schema (`SchemasFollow`); and a table has received, of every transaction still
open, exactly the rows that lie between the start of the stream and what is pending, in order (`TablesFollow`). A commit
finds the rows of its transaction open and no others, which is `IsWhole`. Where a fault spoils a table, the invariant
says nothing of it, as the property does. The lemmas on single events
are at the end of `EventLoop_proofs`.

**`IcebergTable_proofs`**, with its lemmas on manifest lists in **`IcebergFiles_proofs`** and the invariant and the actions before
a commit can be seen in **`IcebergSteps_proofs`**, for any number of snapshots,
imports, deletions, compactions, merges, schema changes, failed writes, lost answers, crashes and restarts, and for both
kinds of catalog (`ScenariosAssumption`, `NoneAssumption`): `RestartsFindTheTable` (`[]RestartFindsTable`),
`ManagerFollowsStore` (`[]ManagerMatchesStore`) and `SnapshotsAreAtomic` (`ImplementsAtomicTable`, the refinement of
`AtomicTable`). All three are of the form `Spec /\ []Regular => ...`. `Regular` leaves out two things the code does that
section 4 lists and that make the claims false: a schema change at a file catalog, after which the version no longer
advances with the commits, and a data manifest that is rewritten when it is full, of which only the last part is kept.
A table whose files a retried commit has listed twice keeps the part of the claims that the properties keep for it: it
loads, is no older than reported, is committed to in one step and nothing panics; that its rows are in one place each, and that
the manager agrees with a fresh load, is proved for all other tables. That a file is listed twice only after a lost
answer is part of `RestartFindsTable`.
They rest on `TableInvariant`, whose `IInv` says, as long as the table is not dropped:

* `StoreOK`, `CreationOK`: storage is an empty place, a table whose creation was cut, or a table whose current list can
  be read back: one vector per file, indices that cover their files, no row in two files;
* `ManagerOK`: outside a commit the manager has the files and indices that a load would give;
* `CommitOK`: from the moment the payload was synced into the manager until the commit, it has those that the *new*
  snapshot will show (`Target`), although nothing of them is visible yet;
* `WritesOK`: what has been written of the new snapshot so far (metadata, list before and after the rewriting) shows
  these files, under a version no reader follows;
* `CompactionOK`, `AckedOK`: a compaction under way holds every live row of its files; what was reported is stored.

`Landing` is the heart of it: the list of the current snapshot with the new data files appended and the vectors and
indices rewritten (`append_puffin_metadata_and_rewrite`) shows exactly `Target`. For the refinement each action's lemma
also says what a reader sees of it (`Effect`): of all the writes, only that of the version hint, or the commit at the
service, changes the table, and it changes it to what the payload planned.

**`TableCopy_proofs`**, of `TableAddition`, for a source of any length: `TheCopyMeetsTheStream` (`[]CopyMeetsStream`).
The invariant follows `add_table`: what each step leaves behind (`Stages`, `Fresh`); that a row still to be streamed is
not in the table yet (`Behind`, no row twice); that while the copy runs the stream holds back every row the snapshot
does not have (`HeldBack`); and that from then on the table has every row up to its cut and the position of the stream,
and a restart finds a table that is complete up to its LSN and a slot that is not beyond it (`CaughtUp`, no row lost).

In the same module, of `InitialCopy`, for every finite set of rows, every estimate of the blocks, any number of shards
and writer tasks and every size of batches, channel and files (`CopyAssumption`): `TheCopyIsExact` (`[]CopyIsExact`).
`OneRange` shows that the ranges of `plan_ctid_shards` split the rows, also those in blocks beyond the estimate. The
invariant says that no row is in two of: with a reader, in the channel, with a writer (`Apart`); that every row is in
one of them as long as no writer failed (`NoneLost`); that a writer that is done has found the channel empty and every
reader ended (`WritersEnd`); and what the caller has counted and collected of the readers and writers it has waited for
(`Collects`).

Only model-checked: liveness, which the prover does not handle; that `Wal` implements `CommitLog`, and `Wal`,
`DiskFiles` and `RestIngest` in general, whose operators fold, flatten or filter sequences, of which the prover knows
nothing; `TableHandler` and `ControlPlane`, whose states are records of records that a proof would have to take apart for
every action; `GlobalIndex`, `RowConversions`, `PgText` and `RowSnapshot`, whose definitions are recursive or folds and
whose claims are inductions over data. `NoneAssumption` and the other assumptions of the constants are evaluated by TLC
in the runs whose modules extend the proved ones.

## 4. Disagreements with what the repository says

Two runs each check one property a comment states, and TLC finds a behaviour that violates it (`PROJECT.json` quotes
the comments):

* `null_lists` (`ListsKeepTheirItems`): a list column's `append_null` pushes the offset at which the previous list
  begins, so a list followed by a null list is read back empty.
* `pruned_in_compaction` (`ReadsNoDeletedRow`): every snapshot replaces `compacting_data_files` by what its own task
  holds. From the second snapshot of a running compaction on, persisted deletions of the files in compaction are
  pruned, and their rows come back with the compacted file.

The models show more. Each line below is found by putting the scenarios and the property beside each other into a
configuration (with the fair specification for a liveness property). Where no scenarios are named, those of the passing
run do; the passing runs exclude what is listed here, by their scenarios or by an exception in the property.

| Scenarios, property | What happens |
|---|---|
| **Table** (`MCTableHandler`) | |
| `AheadScenarios`, `AckedIsDurable` | the replication LSN counts a transaction still in the loop's channel (`table_handler_state.rs:266`) |
| `FreshScenarios`, `AckedIsDurable` | a table that never persisted and is inside a transaction is taken for one without activity (`:259`) |
| `StuckScenarios`, `ForceSnapshotAnswered` | an empty flush finishes before the request arrives; nothing is ever persisted at its LSN (`table_handler.rs:797`) |
| `RestreamScenarios`, `NoPanic` | a replayed, discarded commit is remembered as unflushed; a streaming commit flushes at its LSN (`table_handler.rs:971`) |
| `AdjacentScenarios`, `DurablePrefix` | a row LSN equal to the persisted LSN belongs to the next transaction and is discarded (`table_handler_state.rs:238`) |
| `ReplayScenarios`, `DurablePrefix` | after a reconnect the live table applies transactions twice (`pg_replicate.rs:725`) |
| `LoadScenarios`, `DurablePrefix` | a bulk load claims its LSN while earlier commits are only in memory (`batch_ingestion.rs:160`) |
| `AlterScenarios`, `NoPanic`, `BlockingEnds` | an alter of a table without a commit finds no consistent view (`table_handler_state.rs:360`); or the persistence it waits for was already in flight (`:376`) |
| `CompactScenarios`, `NoPanic` | a failed automatic compaction is broadcast to nobody and unwrapped (`table_handler_state.rs:509`) |
| `RecopyScenarios`, `NoPanic` | a streaming deletion already contained in the copy finds no row (`snapshot.rs:865`) |
| `WalFaultScenarios`, `DropCompletes` | a failed log update leaves its flag set and a drop waits forever (`table_handler.rs:769`) |
| **Log** (`MCWal`) | |
| `SharedScenarios` and `SharedSpec`, `ToldIsDurable` | `drop_wal` removes the directory that all tables' logs share (`wal.rs:1107`) |
| `TwiceScenarios`, `RecoversPrefix` | rows of a transaction interrupted by a crash stay in the log and are sent again: a second recovery applies both |
| `AbortScenarios`, `NoPanic` | replay does not know `StreamAbort` (`wal.rs:1238`) |
| `OpenScenarios`, `NoPanic` | a transaction open at the crash keeps a file older than the live ones (`wal.rs:758`) |
| `StreamScenarios`, `AllToldIsDurable` | replay applies the rows of a committed streaming transaction and aborts its commit, because `initial_persistence_lsn` already counts the log (`table_handler.rs:981-988`); `wal.rs:1237` says "We reapply all WAL events that are already committed transactions at the time of recovery." |
| `RacingScenarios`, `TableIsHistory` | replication is started (`replication_manager.rs:97`) and the table registered before the replay (`pg_replicate.rs:541-575`), so new events come between replayed ones; `wal.rs:1294` says "in recovery this is always called before we start replication" |
| **Reads** (`MCUnionRead`) | |
| `CoversRequests` | the LSN is stored before the read state it is the label of (`read_state_manager.rs:195`), or is loaded half marked |
| `LsnsStayInOrder` | the sink marks the commit before the replication LSN, and a reader that sees only one asserts; also with `ReplayedScenarios` |
| `WholeReads` | a snapshot that is not announced yet is served, with a temporary file another read shares (`snapshot_read.rs:159`) |
| **Files** (`MCDiskFiles`) | |
| `PartialScenarios`, `CacheAddsUp` | a compaction that takes one of two files under one index fails the assertion of `validate_compaction_payload` (`snapshot_maintenance.rs:203`), in debug and test builds; a release build goes on, and the other file's rows have no index entry any more (`compactor.rs:347-381`) |
| **Iceberg** (`MCIcebergTable`) | |
| `SchemaScenarios`, `ImplementsAtomicTable` | a schema change does not advance the version, so the next commit overwrites metadata in place |
| `LostScenarios`, `FilesListedOnce` | a commit whose answer was lost is done again in full (`file_catalog.rs:77`); its files and indices are listed, and loaded, twice (`iceberg_table_loader.rs:66-98`) |
| `CutScenarios`, `EveryTableLoads` | the version hint is written before the first metadata; a table cut off in between never loads |
| `ManyScenarios` with `MaxManifestEntries = 2`, `RowsAreRetained` | only the last of several manifests is kept (`data_file_manifest_manager.rs:93`) |
| **Replication** (`MCReplication`) | |
| `CutBatchIsResent` | an error inside a batch leaves only the inner loop: the rest of the batch is dropped and the LSN still advances |
| `PublishedFirst`, `SnapshotHasItsLsn` | rows written between counting, publishing, the copy's snapshot and the reading of its LSN are lost or duplicated |
| `SlotRecovers`, `CopySurvives` | a restart recreates the publication and streams before the tables are known; a copy that was not durable is not taken again |
| `CopyAlwaysReturns` | when every writer failed, readers block on a channel whose receiver the caller holds |
| `LogsGoForward`, `EarlierIsReceived` | file insertions draw LSNs beside later requests, and the loop may get them out of order |
| `NothingIsDiscarded` with `Parts = {"rest"}` | the first LSN after a restart is not above the table's persisted one, and the row is discarded; `rest_source.rs:78` says the LSN given is "used to indicate and update replication LSN" |
| `LoopAnswers` with `Parts = {"rest"}` | the loop waits for the source's write lock to drop a table while its own suspended stream holds the read lock (`rest_source.rs:230`) |
| **Control plane** (`MCControlPlane`) | |
| `NobodyStarves` | a scan waits for an LSN under the manager's read lock (`lib.rs:386-403`); once the event loop of its table has ended, it keeps the lock and every writer behind it waits |
| **Rows** (`MCTableData`) | |
| `StaleScenarios`, `EmptiedScenarios`, `TwiceScenarios`, `NeverPanics` | an index entry of a row deleted by position stays behind; a batch without rows is flushed (`mem_index.rs:151`); two deletions of an open transaction choose one row |
| `OffsetBits = 3`, `IndexIsExact` | the place of a bucket is a product of two `u32` (`persisted_bucket_hash_map.rs:135`) and wraps from about 2^29 rows on, so a lookup reads another bucket |
| `CompositeNullsAreCommented` | the comment at `text.rs:445` has the word `null` as a null field of a composite; the code reads it as text, which is what PostgreSQL means by it |
| `EveryTextReadsBack` | a COPY value that is the text `\N`, and a composite of one null field, are read as something else |

Met while modelling and kept as exceptions of the properties, or outside the scenarios: a failed
compaction keeps its pins, two misses of one file at once panic, and a full cache leaks the downloaded copy and unwraps a
missing handle (`DiskFiles`); `get_unpersisted_file_indices_set` counts compacted data files instead of indices; a
background shutdown undercuts a connection opened meanwhile, a timeout between two steps of a drop leaves a table that
every lookup panics on, an Avro schema of another table ends the loop of all REST tables, metadata is written after the lock is gone, a dead event loop is never started again, and a
REST table without a snapshot is not recovered (`ControlPlane`); rows decoded with the schema before a change, an idle
table that holds the slot back, an empty file that ends the REST loop, and logged REST rows lost in a restart
(`EventLoop`, `RestIngest`); numerics beyond 38 digits or with a scale above their precision, for which no column can be
built, JSON integers that wrap, null lists that JSON refuses, lists of `List` or `Struct`, which are refused in lower case
only, and Avro types that have a schema and no conversion (`RowConversions`); a full index merge, whose size limit of 0
leaves nothing to merge (`snapshot_maintenance.rs:244-250`).

## 5. Not modelled

* **Delta Lake tables**: only their own test creates the manager.
* **Filesystem access**: I/O and its retries; a write is one step that happens or fails.
* **Encodings** of Parquet, puffin, Avro files and the RPC protocol; protobuf rows; date, time and UTF-8 arithmetic.
* **Catalogs** beyond create, load, commit and drop: namespaces, authentication.
* **PostgreSQL specifics** below the protocol: TLS, type catalogues, replica identities.
* **DataFusion client, OpenTelemetry ingest, observability, configuration, error types**: no state that outlives a call.
* **Chance and size**: which maintenance is worthwhile, LRU order among evictable entries, and timer periods are any
  choice; real widths of integers and hashes are scaled down.
* Of the event loop, `ForceFullMaintenance` (handled like the other two force requests), and the send of the loop on its
  own bounded channel, where it is the only receiver (`table_handler.rs:517`): the channel is unbounded in the model.
* One table per model of a table. Tables share the log directory (`SharedSpec`) and the cache, whose capacity
  `DiskFiles` makes small instead.
