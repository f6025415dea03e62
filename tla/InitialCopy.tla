----------------------------- MODULE InitialCopy -----------------------------
(***************************************************************************)
(* The parallel copy of a table's rows (initial_copy.rs: copy_table_stream,*)
(* with the sharded readers of postgres_source.rs and the Parquet writers  *)
(* of initial_copy_writer.rs).  A row is its location: its block and its   *)
(* place in it.  Batches and the files of a writer are bags of rows.       *)
(* Readers share one snapshot of the source, build batches and push them   *)
(* into a bounded channel; writers take them out and write files; the      *)
(* caller waits for the readers from the last to the first, then for the   *)
(* writers.                                                                *)
(***************************************************************************)
EXTENDS Integers, Sequences, Bags, FiniteSetsExt

CONSTANTS
  NumWriterTasks,
  MaxRowsPerBatch,
  BatchChannelCapacity,
  TargetFileRows,       \* stands for target_file_size_bytes
  CopyScenarios         \* see MCReplication

VARIABLES
  copyScenario,         \* the rows, the estimated blocks, the shards, the failures
  channel,              \* [queue, open]: open while a sender is left
  reader,               \* the readers, by the number of their shard
  writer,
  copy                  \* copy_table_stream: where it is, what it answered

copyVars == <<copyScenario, channel, reader, writer, copy>>

(* A place in a block is counted from 1 *)
Location == Nat \X (Nat \ {0})

CopyScenario == [rows : SUBSET Location, blocks : Int, shards : Nat,
                 failures : [reader : Nat, writer : Nat, finalize : Nat]]

ASSUME CopyAssumption ==
  /\ NumWriterTasks \in Nat
  /\ CopyScenarios \subseteq CopyScenario
  /\ \A c \in CopyScenarios : IsFiniteSet(c.rows)
-----------------------------------------------------------------------------
(* plan_ctid_shards: block ranges [from, to) by number; the last has no end, *)
(* and of the others those are left out that have no block                   *)
NoEnd == -1

CeilDiv(a, b) == (a + b - 1) \div b

Cut(i, step, blocks) == Min({i * step, blocks})

(* Mutant: the last range ends with the estimated blocks *)
PlanCtidShardsClosed(blocks, shards) ==
  IF shards <= 1 \/ blocks <= 0 THEN [i \in {1} |-> [from |-> 0, to |-> NoEnd]]
  ELSE LET step == CeilDiv(blocks, shards)
       IN  [i \in {j \in 1 .. shards : Cut(j, step, blocks) > Cut(j - 1, step, blocks)} |->
              [from |-> Cut(i - 1, step, blocks), to |-> Cut(i, step, blocks)]]

PlanCtidShards(blocks, shards) ==
  IF shards <= 1 \/ blocks <= 0 THEN [i \in {1} |-> [from |-> 0, to |-> NoEnd]]
  ELSE LET step == CeilDiv(blocks, shards)
       IN  [i \in {j \in 1 .. shards : j = shards \/ Cut(j, step, blocks) > Cut(j - 1, step, blocks)} |->
              [from |-> Cut(i - 1, step, blocks), to |-> IF i = shards THEN NoEnd ELSE Cut(i, step, blocks)]]

(* copy_out_with_predicate *)
InShard(row, s) == row[1] >= s.from /\ (s.to = NoEnd \/ row[1] < s.to)

(* A scan by location returns the rows in the order of their locations *)
NotAfter(l, m) == l[1] < m[1] \/ (l[1] = m[1] /\ l[2] <= m[2])

NewReader(rows) == [state |-> "running", todo |-> rows, buffer |-> EmptyBag, pending |-> EmptyBag, rows |-> 0]

NewWriter == [state |-> "running", file |-> EmptyBag, files |-> EmptyBag]

NumWorkers == Max({NumWriterTasks, 1})
Writer     == 1 .. NumWorkers

CopyInit ==
  /\ copyScenario \in CopyScenarios
  /\ channel = [queue |-> <<>>, open |-> TRUE]
  /\ reader = LET shards == PlanCtidShards(copyScenario.blocks, copyScenario.shards)
              IN  [i \in DOMAIN shards |-> NewReader({l \in copyScenario.rows : InShard(l, shards[i])})]
  /\ writer = [w \in Writer |-> NewWriter]
  /\ copy = [pc |-> "readers", waiting |-> DOMAIN reader, next |-> 1, rows |-> 0, success |-> TRUE,
             answer |-> "pending", loaded |-> EmptyBag]

Fails(what) ==
  /\ copyScenario.failures[what] > 0
  /\ copyScenario' = [copyScenario EXCEPT !.failures[what] = @ - 1]
-----------------------------------------------------------------------------
(* A reader: its connection, snapshot, rows and commit may all fail *)
ReaderRuns(r) == reader[r].state = "running" /\ reader[r].pending = EmptyBag

(* append_table_row: a full batch is returned when the next row comes *)
ReadRow(r) ==
  LET rd   == reader[r]
      full == BagCardinality(rd.buffer) = MaxRowsPerBatch
  IN  /\ ReaderRuns(r)
      /\ \E l \in rd.todo :
           /\ \A m \in rd.todo : NotAfter(l, m)
           /\ reader' = [reader EXCEPT ![r].todo = @ \ {l}, ![r].rows = @ + 1,
                                       ![r].pending = IF full THEN rd.buffer ELSE EmptyBag,
                                       ![r].buffer = (IF full THEN EmptyBag ELSE @) (+) SetToBag({l})]
      /\ UNCHANGED <<copyScenario, channel, writer, copy>>

FinishBatch(r) ==
  /\ ReaderRuns(r)
  /\ reader[r].todo = {} /\ reader[r].buffer # EmptyBag
  /\ reader' = [reader EXCEPT ![r].pending = reader[r].buffer, ![r].buffer = EmptyBag]
  /\ UNCHANGED <<copyScenario, channel, writer, copy>>

(* The receiver is shared with copy_table_stream, so the channel is never   *)
(* closed under a sender; it blocks while the channel is full               *)
SendBatch(r) ==
  /\ reader[r].state = "running"
  /\ reader[r].pending # EmptyBag
  /\ Len(channel.queue) < BatchChannelCapacity
  /\ channel' = [channel EXCEPT !.queue = Append(@, reader[r].pending)]
  /\ reader' = [reader EXCEPT ![r].pending = EmptyBag]
  /\ UNCHANGED <<copyScenario, writer, copy>>

ReaderCommits(r) ==
  /\ ReaderRuns(r)
  /\ reader[r].todo = {} /\ reader[r].buffer = EmptyBag
  /\ reader' = [reader EXCEPT ![r].state = "ok"]
  /\ UNCHANGED <<copyScenario, channel, writer, copy>>

ReaderFails(r) ==
  /\ ReaderRuns(r)
  /\ Fails("reader")
  /\ reader' = [reader EXCEPT ![r].state = "failed"]
  /\ UNCHANGED <<channel, writer, copy>>
-----------------------------------------------------------------------------
(* write_from_shared: a batch goes to the open file, which ends once large  *)
(* enough                                                                   *)
WriteBatch(w) ==
  LET file == writer[w].file (+) Head(channel.queue)
      full == BagCardinality(file) >= TargetFileRows
  IN  /\ writer[w].state = "running"
      /\ channel.queue # <<>>
      /\ channel' = [channel EXCEPT !.queue = Tail(@)]
      /\ writer' = [writer EXCEPT ![w].file = IF full THEN EmptyBag ELSE file,
                                  ![w].files = IF full THEN @ (+) file ELSE @]
      /\ UNCHANGED <<copyScenario, reader, copy>>

(* The batch is lost with the writer *)
WriteFails(w) ==
  /\ writer[w].state = "running"
  /\ channel.queue # <<>>
  /\ Fails("writer")
  /\ channel' = [channel EXCEPT !.queue = Tail(@)]
  /\ writer' = [writer EXCEPT ![w].state = "failed"]
  /\ UNCHANGED <<reader, copy>>

Closed == ~channel.open /\ \A r \in DOMAIN reader : reader[r].state # "running"

WriterEnds(w) ==
  /\ writer[w].state = "running"
  /\ channel.queue = <<>> /\ Closed
  /\ writer' = [writer EXCEPT ![w].state = "ok", ![w].file = EmptyBag, ![w].files = @ (+) writer[w].file]
  /\ UNCHANGED <<copyScenario, channel, reader, copy>>
-----------------------------------------------------------------------------
(* The caller waits for the readers, the last one first; the first that     *)
(* failed aborts the rest                                                   *)
AwaitReader(r) ==
  /\ copy.pc = "readers"
  /\ \A q \in copy.waiting : q <= r
  /\ reader[r].state # "running"
  /\ copy' = IF reader[r].state = "ok"
             THEN [copy EXCEPT !.waiting = @ \ {r}, !.rows = @ + reader[r].rows]
             ELSE [copy EXCEPT !.waiting = {}, !.success = FALSE]
  /\ reader' = IF reader[r].state = "ok" THEN reader
               ELSE [q \in DOMAIN reader |->
                       IF reader[q].state = "running" THEN [reader[q] EXCEPT !.state = "aborted"] ELSE reader[q]]
  /\ UNCHANGED <<copyScenario, channel, writer>>

Answer(a) == copy' = [copy EXCEPT !.pc = "done", !.answer = a]

(* finalize_snapshot, then the caller's sender is dropped *)
FinalizeSnapshot ==
  /\ copy.pc = "readers" /\ copy.waiting = {}
  /\ channel' = [channel EXCEPT !.open = FALSE]
  /\ \/ /\ copy' = [copy EXCEPT !.pc = "writers"]
        /\ UNCHANGED copyScenario
     \/ Fails("finalize") /\ Answer("error")
  /\ UNCHANGED <<reader, writer>>

(* The writers in turn, their files put together: after a failed reader     *)
(* whatever they answer, else up to the first that failed                   *)
AwaitWriter ==
  LET w == copy.next
  IN  /\ copy.pc = "writers"
      /\ w <= NumWorkers
      /\ writer[w].state # "running"
      /\ IF copy.success /\ writer[w].state = "failed" THEN Answer("error")
         ELSE copy' = [copy EXCEPT !.next = @ + 1,
                                   !.loaded = IF copy.success THEN @ (+) writer[w].files ELSE @]
      /\ UNCHANGED <<copyScenario, channel, reader, writer>>

(* LoadFiles is sent with the files of all the writers *)
SendLoadFiles ==
  /\ copy.pc = "writers" /\ copy.next > NumWorkers
  /\ Answer(IF copy.success THEN "copied" ELSE "error")
  /\ UNCHANGED <<copyScenario, channel, reader, writer>>

CopyProgress ==
  \/ \E r \in DOMAIN reader : ReadRow(r) \/ FinishBatch(r) \/ SendBatch(r) \/ ReaderCommits(r)
  \/ \E w \in Writer : WriteBatch(w) \/ WriterEnds(w)
  \/ \E r \in copy.waiting : AwaitReader(r)
  \/ FinalizeSnapshot \/ AwaitWriter \/ SendLoadFiles

CopyNext ==
  \/ CopyProgress
  \/ \E r \in DOMAIN reader : ReaderFails(r)
  \/ \E w \in Writer : WriteFails(w)

CopySpec == CopyInit /\ [][CopyNext]_copyVars
-----------------------------------------------------------------------------
(* A copy that succeeds loads every row of the snapshot into the table       *)
(* exactly once and counts them, however the blocks were estimated, the rows *)
(* split over readers, batches, writers and files, and the tasks scheduled   *)
(* (copy_table_stream, plan_ctid_shards).                                    *)
CopyIsExact ==
  copy.answer = "copied" =>
    copy.loaded = SetToBag(copyScenario.rows) /\ copy.rows = Cardinality(copyScenario.rows)

(* The copy returns, unless every writer failed: the channel then fills up   *)
(* and, as the caller holds a receiver, is never closed.                     *)
CopyReturns ==
  <>(copy.answer # "pending" \/ \A w \in Writer : writer[w].state = "failed")

(* The comment of BatchSender::send, "Returns Err if the receiver is         *)
(* closed", has the readers end when no writer is left.                      *)
CopyAlwaysReturns == <>(copy.answer # "pending")
=============================================================================
