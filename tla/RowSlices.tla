----------------------------- MODULE RowSlices -----------------------------
(***************************************************************************)
(* Where the rows of a table are: the batches of a mem slice with their    *)
(* deletion vectors and their in-memory index (data_batches.rs,            *)
(* delete_vector.rs, mem_index.rs, mem_slice.rs), and the data files and   *)
(* the file index a flush makes of them (disk_slice.rs).                   *)
(*                                                                         *)
(* A row is the pair of its key and its value.  A deletion vector is the   *)
(* set of the offsets whose bit is cleared.  An index is the set of its    *)
(* entries; when several entries answer a lookup in a hash table, any of   *)
(* them may be the one it finds.  Offsets count from 1.                    *)
(***************************************************************************)
EXTENDS Integers, Sequences, SequencesExt, FiniteSets

CONSTANTS
  BatchSize,      \* batch_size: rows of one batch
  MemSliceSize,   \* mem_slice_size: rows that trigger a flush
  FileRows        \* rows after which a flush ends a data file (parquet_file_size)

Nowhere == [mem |-> FALSE, id |-> 0, off |-> 0]
InBatch(id, off) == [mem |-> TRUE, id |-> id, off |-> off]
InFile(id, off)  == [mem |-> FALSE, id |-> id, off |-> off]

(* BatchIdCounter: streaming transactions take the lower ids *)
StreamingMax == 100
IsStreaming(id) == id < StreamingMax

(* IdentityProp: one primitive key, the hash of several key columns, or the  *)
(* hash of the full row.  The two hashes collide here every other key.       *)
LookupKey(identity, row) == IF identity = "Single" THEN row[1] ELSE row[1] % 2

(* extract_identity_columns *)
IdentityOf(identity, row) == IF identity = "FullRow" THEN row ELSE <<row[1]>>

(* equals_record_batch_at_offset, equals_parquet_at_offset *)
SameIdentity(identity, a, b) == IdentityOf(identity, a) = IdentityOf(identity, b)
-----------------------------------------------------------------------------
(* ColumnStoreBuffer: the last batch is the one being filled *)
NewBatch(id) == [id |-> id, rows |-> <<>>, dels |-> {}]

NewSlice(id) == [batches |-> <<NewBatch(id)>>, index |-> {}]

OpenBatch(slice) == Last(slice.batches)

NumRows(slice) == (Len(slice.batches) - 1) * BatchSize + Len(OpenBatch(slice).rows)

CommitCheckPoint(slice) == InBatch(OpenBatch(slice).id, Len(OpenBatch(slice).rows))

BatchAt(batches, id) == batches[CHOOSE i \in DOMAIN batches : batches[i].id = id]

RowAt(batches, loc) == BatchAt(batches, loc.id).rows[loc.off]

IsDeletedIn(batches, loc) == loc.off \in BatchAt(batches, loc.id).dels

(* delete_row *)
DeleteRow(batches, loc) ==
  [i \in DOMAIN batches |-> IF batches[i].id = loc.id
                            THEN [batches[i] EXCEPT !.dels = @ \cup {loc.off}] ELSE batches[i]]

(* finalize_current_batch; id is the next one of the counter *)
FinalizeCurrentBatch(slice, id) ==
  IF OpenBatch(slice).rows = <<>> THEN slice
  ELSE [slice EXCEPT !.batches = Append(@, NewBatch(id))]

MustFinalize(slice) == Len(OpenBatch(slice).rows) >= BatchSize

(* MemIndex::insert *)
Entry(identity, row, loc) ==
  [key |-> LookupKey(identity, row), of |-> IF identity = "Keys" THEN <<row[1]>> ELSE <<>>, loc |-> loc]

(* MemSlice::append, the current batch having room *)
AppendRow(identity, slice, row) ==
  LET n    == Len(slice.batches)
      full == [slice EXCEPT !.batches[n].rows = Append(@, row)]
  IN  [full EXCEPT !.index = @ \cup {Entry(identity, row, CommitCheckPoint(full))}]

(* The entries MemIndex::find_record may answer with *)
Answering(identity, index, row) ==
  {e \in index : /\ e.key = LookupKey(identity, row)
                 /\ identity = "Keys" => e.of = IdentityOf(identity, row)}

Before(a, b) == a.id < b.id \/ (a.id = b.id /\ a.off <= b.off)

FirstOf(locs) == CHOOSE l \in locs : \A m \in locs : Before(l, m)

(* find_valid_row_by_record, over all the locations of a full-row index      *)
LiveMatches(identity, slice, row) ==
  {e.loc : e \in {a \in Answering(identity, slice.index, row) :
                    /\ ~IsDeletedIn(slice.batches, a.loc)
                    /\ SameIdentity(identity, RowAt(slice.batches, a.loc), row)}}

Deleted(slice, index, pos) ==
  [slice |-> [slice EXCEPT !.index = index,
                           !.batches = IF pos = Nowhere THEN @ ELSE DeleteRow(@, pos)],
   pos |-> pos]

(* MemSlice::delete: what it may leave behind and answer.  fast_delete takes *)
(* the entry out of the index whether or not its row is still there.         *)
DeleteFromSlice(identity, slice, row) ==
  LET entries == Answering(identity, slice.index, row)
      live    == LiveMatches(identity, slice, row)
  IN  IF identity = "FullRow"
      THEN {Deleted(slice, slice.index, IF live = {} THEN Nowhere ELSE FirstOf(live))}
      ELSE IF entries = {} THEN {Deleted(slice, slice.index, Nowhere)}
      ELSE {Deleted(slice, slice.index \ {e},
                    IF IsDeletedIn(slice.batches, e.loc) THEN Nowhere ELSE e.loc) : e \in entries}

(* find_non_deleted_position: the first location of a full-row index whose   *)
(* row is there, else the one location the table finds, if its row is        *)
NonDeletedPositions(identity, slice, row) ==
  LET entries == Answering(identity, slice.index, row)
      live    == LiveMatches(identity, slice, row)
  IN  IF identity = "FullRow" THEN {IF live = {} THEN Nowhere ELSE FirstOf(live)}
      ELSE IF entries = {} THEN {Nowhere}
      ELSE {IF e.loc \in live THEN e.loc ELSE Nowhere : e \in entries}

(* MemSlice::drain, the current batch being final *)
Drained(slice) ==
  [slice |-> [batches |-> <<OpenBatch(slice)>>, index |-> {}],
   batches |-> Front(slice.batches), index |-> slice.index]
-----------------------------------------------------------------------------
(* DiskSliceWriter: a slice is [id, lsn, batches, index]; NoLsn before the    *)
(* commit of a streaming transaction.                                        *)
NoLsn == 0
FilesPerFlush == 10

FileId(slice, n) == slice.id * FilesPerFlush + n

(* collect_active_rows *)
ActiveRows(batch) == SelectSeq([i \in 1 .. Len(batch.rows) |-> i], LAMBDA i : i \notin batch.dels)

(* The batches that are written: get_filtered_batch leaves the others out    *)
FilteredBatches(slice) == SelectSeq(slice.batches, LAMBDA b : ActiveRows(b) # <<>>)

(* write_batch_to_parquet: the files, each the places its rows come from      *)
OutputPlaces(slice) ==
  LET places(b) == [i \in DOMAIN ActiveRows(b) |-> InBatch(b.id, ActiveRows(b)[i])]
      add(b, files) == IF files = <<>> \/ Len(Last(files)) > FileRows
                       THEN Append(files, places(b))
                       ELSE Append(Front(files), Last(files) \o places(b))
  IN  FoldLeft(LAMBDA files, b : add(b, files), <<>>, FilteredBatches(slice))

OutputFiles(slice) ==
  LET out == OutputPlaces(slice)
  IN  [n \in DOMAIN out |-> [id |-> FileId(slice, n),
                             rows |-> [i \in DOMAIN out[n] |-> RowAt(slice.batches, out[n][i])]]]

(* Mutant: rows are counted from the first of the flush, not of their file    *)
RowOffsetMappingOneFile(slice, loc) ==
  LET out  == OutputPlaces(slice)
      hits == {p \in {<<n, i>> : n \in DOMAIN out, i \in 1 .. 9} :
                 p[2] <= Len(FlattenSeq(out)) /\ FlattenSeq(out)[p[2]] = loc /\ loc \in Range(out[p[1]])}
  IN  IF hits = {} THEN Nowhere
      ELSE LET p == CHOOSE q \in hits : TRUE IN InFile(FileId(slice, p[1]), p[2])

(* row_offset_mapping *)
RowOffsetMapping(slice, loc) ==
  LET out  == OutputPlaces(slice)
      hits == {n \in DOMAIN out : loc \in Range(out[n])}
  IN  IF hits = {} THEN Nowhere
      ELSE LET n == CHOOSE m \in hits : TRUE
           IN  InFile(FileId(slice, n), CHOOSE i \in DOMAIN out[n] : out[n][i] = loc)

(* remap_index: the entries whose row is in a file, under its place there    *)
FileIndex(slice) ==
  {[e EXCEPT !.loc = RowOffsetMapping(slice, e.loc)] :
     e \in {d \in slice.index : RowOffsetMapping(slice, d.loc) # Nowhere}}

(* remap_into_vec looks up the batch of every entry among those written      *)
BatchesAreKnown(slice) ==
  OutputPlaces(slice) # <<>>
    => \A e \in slice.index : \E b \in Range(FilteredBatches(slice)) : b.id = e.loc.id

(* Its assert_eq: as many entries as rows                                    *)
EntriesMatchRows(slice) ==
  slice.index # {} /\ OutputPlaces(slice) # <<>>
    => Cardinality(FileIndex(slice)) = Len(FlattenSeq(OutputPlaces(slice)))

(* remap_deletion_if_needed *)
RemapDeletion(slice, d) ==
  IF d.pos.mem /\ RowOffsetMapping(slice, d.pos) # Nowhere
  THEN [d EXCEPT !.pos = RowOffsetMapping(slice, d.pos)] ELSE d
=============================================================================
