---------------------------- MODULE GlobalIndex ----------------------------
(***************************************************************************)
(* The file index: a hash table in one file of bits, from the hash of a    *)
(* key to the data files and rows that have it                             *)
(* (index/persisted_bucket_hash_map.rs), and the bit writer with its two   *)
(* buffers it is written through (async_bitwriter.rs).                     *)
(*                                                                         *)
(* Every width is a constant, so that a word, a byte and a buffer are      *)
(* small: 64, 32, 8 and 4096 in the code.  Bits are 0 and 1, the most      *)
(* significant first.  splitmix64 is a permutation of the hashes.          *)
(***************************************************************************)
EXTENDS Integers, Sequences, SequencesExt, FiniteSets, FiniteSetsExt

CONSTANTS
  HashBits,      \* 64
  WordBits,      \* 32: row ids, bucket entries, file numbers
  OffsetBits,    \* 32: the place of a bucket in the bucket array
  ByteBits,      \* 8: BITQUEUE_SIZE
  BufferBytes,   \* 4096: BUFFER_SIZE
  Inputs         \* the flushes to index: [first, second, keep, files]

VARIABLES
  input,         \* what this behaviour indexes
  stage,         \* "flush", "merge", "compact", "done"
  built          \* the indices so far

ivars == <<input, stage, built>>

(* splitmix64 *)
SplitMix(x) == (5 * x + 3) % (2 ^ HashBits)

BitsOf(n, width) == [i \in 1 .. width |-> (n \div (2 ^ (width - i))) % 2]

ValueOf(bits) == FoldLeft(LAMBDA n, b : 2 * n + b, 0, bits)
-----------------------------------------------------------------------------
(* BitWriter.  spill is the inactive buffer; flush is what the last write     *)
(* answered: whether the caller has to flush.                                 *)
NewWriter == [out |-> <<>>, active |-> <<>>, spill |-> <<>>, queue |-> <<>>, flush |-> FALSE, ok |-> TRUE]

(* buffer_byte *)
BufferByte(w, byte) ==
  IF Len(w.active) < BufferBytes THEN [w EXCEPT !.active = Append(@, byte)]
  ELSE [w EXCEPT !.spill = Append(@, byte), !.flush = TRUE, !.ok = @ /\ Len(w.spill) < BufferBytes]

(* write: whole bytes go to the buffers, the rest stays in the bit queue       *)
WriteBits(w, width, value) ==
  LET all   == w.queue \o BitsOf(value, width)
      bytes == Len(all) \div ByteBits
      byte(i) == SubSeq(all, (i - 1) * ByteBits + 1, i * ByteBits)
      start == [w EXCEPT !.flush = FALSE, !.ok = @ /\ value < 2 ^ width,
                         !.queue = SubSeq(all, bytes * ByteBits + 1, Len(all))]
  IN  FoldLeft(LAMBDA v, i : BufferByte(v, byte(i)), start, [i \in 1 .. bytes |-> i])

(* flush: the active buffer is written, and the buffers change places          *)
FlushWriter(w) ==
  [w EXCEPT !.out = @ \o FlattenSeq(w.active), !.active = w.spill, !.spill = <<>>, !.flush = FALSE]

(* byte_align, bit by bit *)
ByteAlign(w) ==
  IF w.queue = <<>> THEN [w EXCEPT !.flush = FALSE]
  ELSE FoldLeft(LAMBDA v, i : WriteBits(v, 1, 0), w, [i \in 1 .. ByteBits - Len(w.queue) |-> i])

FlushIfFull(w) == IF w.flush THEN FlushWriter(w) ELSE w

Close(w) == FlushWriter(FlushIfFull(ByteAlign(w)))
-----------------------------------------------------------------------------
(* create_global_index: the widths of an index over so many rows and files     *)
BitLength(n) == Min({i \in 0 .. WordBits : n < 2 ^ i})
TrailingZeros(n) == IF n = 0 THEN WordBits ELSE Max({i \in 0 .. WordBits : n % (2 ^ i) = 0})
NextPowerLog(n) == Min({i \in 0 .. WordBits : 2 ^ i >= n})

Widths(rows, files) ==
  LET upper == NextPowerLog(rows \div 4 + 2)
  IN  [lower |-> HashBits - upper, buckets |-> 2 ^ upper, bucket |-> BitLength(rows),
       seg |-> WordBits - TrailingZeros(files)]

EntryBits(m) == m.lower + m.seg + WordBits

(* IndexBlockBuilder: buckets[i] is the first entry of bucket i; one more      *)
(* bucket than there are, for the end of the last                              *)
NewBlock(m) == [buckets |-> [i \in 0 .. m.buckets |-> 0], bucket |-> 0, entry |-> 0, w |-> NewWriter]

(* write_entry: entries come in the order of their hashes                      *)
WriteEntry(b, e, m) ==
  LET to == e.hash \div (2 ^ m.lower)
      w1 == WriteBits(b.w, m.lower, e.hash % (2 ^ m.lower))
      w2 == WriteBits(w1, m.seg, e.seg)
      w3 == WriteBits(w2, WordBits, e.row)
  IN  [buckets |-> [i \in DOMAIN b.buckets |-> IF b.bucket < i /\ i <= to THEN b.entry ELSE b.buckets[i]],
       bucket |-> to, entry |-> b.entry + 1,
       w |-> FlushIfFull([w3 EXCEPT !.ok = @ /\ b.bucket <= to])]

(* build, its first loop *)
EndedBuckets(b) == [i \in DOMAIN b.buckets |-> IF i > b.bucket THEN b.entry ELSE b.buckets[i]]

(* build: the bucket array follows the entries *)
FinishBlock(b, m) ==
  LET ends == EndedBuckets(b)
      all  == FoldLeft(LAMBDA w, i : FlushIfFull(WriteBits(w, m.bucket, ends[i - 1])), b.w,
                       [i \in 1 .. m.buckets + 1 |-> i])
      w    == Close(all)
  IN  [data |-> w.out, start |-> b.entry * EntryBits(m), ok |-> w.ok]

(* build, build_from_merging_iterator *)
BuildIndex(entries, rows, files, widthFiles) ==
  LET m     == Widths(rows, widthFiles)
      block == FinishBlock(FoldLeft(LAMBDA b, e : WriteEntry(b, e, m), NewBlock(m), entries), m)
  IN  [files |-> files, rows |-> rows, m |-> m, data |-> block.data, start |-> block.start, ok |-> block.ok]

Precedes(a, b) == \/ a.hash < b.hash
                  \/ a.hash = b.hash /\ (a.seg < b.seg \/ (a.seg = b.seg /\ a.row < b.row))

SortedByHash(entries) ==
  LET rank == [e \in entries |-> Cardinality({d \in entries : Precedes(d, e)})]
  IN  [n \in 1 .. Cardinality(entries) |-> CHOOSE e \in entries : rank[e] = n - 1]

(* build_from_flush *)
BuildFromFlush(rows, files) ==
  LET entries == {[hash |-> SplitMix(r.key), seg |-> r.seg, row |-> r.row] : r \in rows}
  IN  BuildIndex(SortedByHash(entries), Cardinality(rows), files, Len(files))
-----------------------------------------------------------------------------
ReadAt(data, at, width) == ValueOf(SubSeq(data, at + 1, at + width))

Bucket(x, i) == ReadAt(x.data, x.start + i * x.m.bucket, x.m.bucket)

(* read_buckets: the first entry of bucket i and, the next word, its end.  The *)
(* place of the bucket is a product of two u32                                 *)
BucketEntry(x, i) ==
  LET at == x.start + ((i * x.m.bucket) % (2 ^ OffsetBits))
  IN  [start |-> ReadAt(x.data, at, x.m.bucket), end |-> ReadAt(x.data, at + x.m.bucket, x.m.bucket)]

(* read_entry *)
EntryAt(x, k) ==
  LET at == k * EntryBits(x.m)
  IN  [hash |-> ReadAt(x.data, at, x.m.lower), seg |-> ReadAt(x.data, at + x.m.lower, x.m.seg),
       row |-> ReadAt(x.data, at + x.m.lower + x.m.seg, WordBits)]

(* prepare_hashes_for_lookup *)
PreparedHashes(keys) ==
  SetToSortSeq({[key |-> k, hash |-> SplitMix(k)] : k \in keys}, LAMBDA a, b : a.hash < b.hash)

(* LookupIterator: the entries of the buckets of these hashes, a bucket once   *)
LookupEntries(x, hashes) ==
  LET all  == [i \in DOMAIN hashes |-> hashes[i].hash \div (2 ^ x.m.lower)]
      idxs == [i \in {j \in DOMAIN all : j = 1 \/ all[j] # all[j - 1]} |-> all[i]]
      of(b) == [k \in 1 .. BucketEntry(x, b).end - BucketEntry(x, b).start |->
                  LET e == EntryAt(x, BucketEntry(x, b).start + k - 1)
                  IN  [e EXCEPT !.hash = @ + b * 2 ^ x.m.lower]]
  IN  FlattenSeq([i \in DOMAIN all |-> IF i \in DOMAIN idxs THEN of(idxs[i]) ELSE <<>>])

(* Mutant: after a match the next hash is looked at                            *)
MatchEntryOnce(x, hashes, acc, e) ==
  LET rest == {j \in acc.i .. Len(hashes) : hashes[j].hash >= e.hash}
      i    == IF rest = {} THEN Len(hashes) + 1 ELSE Min(rest)
      hit  == i <= Len(hashes) /\ hashes[i].hash = e.hash
  IN  [i |-> IF hit THEN i + 1 ELSE i,
       out |-> IF hit THEN acc.out \cup {<<hashes[i].key, x.files[e.seg + 1], e.row>>} ELSE acc.out]

(* read: hashes and entries are walked together *)
MatchEntry(x, hashes, acc, e) ==
  LET rest == {j \in acc.i .. Len(hashes) : hashes[j].hash >= e.hash}
      i    == IF rest = {} THEN Len(hashes) + 1 ELSE Min(rest)
      hit  == i <= Len(hashes) /\ hashes[i].hash = e.hash
  IN  [i |-> i, out |-> IF hit THEN acc.out \cup {<<hashes[i].key, x.files[e.seg + 1], e.row>>} ELSE acc.out]

(* search_values, for a set of keys that is not empty *)
SearchValues(x, keys) ==
  LET hashes == PreparedHashes(keys)
  IN  FoldLeft(LAMBDA acc, e : MatchEntry(x, hashes, acc, e), [i |-> 1, out |-> {}], LookupEntries(x, hashes)).out
-----------------------------------------------------------------------------
(* IndexBlockIterator: all entries, bucket after bucket; remap is the number   *)
(* of the index's first file in the merged index                               *)
EntriesOf(x, remap) ==
  [n \in 1 .. Bucket(x, x.m.buckets) |->
     LET e == EntryAt(x, n - 1)
         b == Min({i \in 0 .. x.m.buckets - 1 : n - 1 < Bucket(x, i + 1)})
     IN  [hash |-> e.hash + b * 2 ^ x.m.lower, seg |-> e.seg + remap, row |-> e.row]]

(* GlobalIndexMergingIterator: the least of the heads                          *)
PopLeast(acc) ==
  LET live == {j \in DOMAIN acc.iters : acc.iters[j] # <<>>}
      i    == CHOOSE j \in live : \A k \in live : Head(acc.iters[j]).hash <= Head(acc.iters[k]).hash
  IN  [iters |-> [acc.iters EXCEPT ![i] = Tail(@)], out |-> Append(acc.out, Head(acc.iters[i]))]

(* create_file_id_remap_at_merge *)
FileRemaps(indices) ==
  [i \in DOMAIN indices |-> FoldLeft(LAMBDA n, x : n + Len(x.files), 0, SubSeq(indices, 1, i - 1))]

Merged(indices) ==
  LET iters == [i \in DOMAIN indices |-> EntriesOf(indices[i], FileRemaps(indices)[i])]
      n     == Len(FlattenSeq(iters))
  IN  FoldLeft(LAMBDA acc, i : PopLeast(acc), [iters |-> iters, out |-> <<>>], [i \in 1 .. n |-> i]).out

FilesOf(indices) == FlattenSeq([i \in DOMAIN indices |-> indices[i].files])

(* build_from_merge *)
BuildFromMerge(indices) ==
  BuildIndex(Merged(indices), FoldLeft(LAMBDA n, x : n + x.rows, 0, indices), FilesOf(indices), Len(FilesOf(indices)))

(* build_from_merge_for_compaction: the rows with a place in the new files;    *)
(* the width of a file number is that of the old files                         *)
BuildForCompaction(indices, places, newFiles) ==
  LET old  == FilesOf(indices)
      kept == SelectSeq(Merged(indices), LAMBDA e : <<old[e.seg + 1], e.row>> \in DOMAIN places)
      move(e) == LET p == places[<<old[e.seg + 1], e.row>>] IN [hash |-> e.hash, seg |-> p.seg, row |-> p.row]
  IN  BuildIndex([i \in DOMAIN kept |-> move(kept[i])], Cardinality(DOMAIN places), newFiles, Len(old))
-----------------------------------------------------------------------------
(* A flush is the sequence of the sequences of keys of its data files; files   *)
(* are numbered through, and rows count from 0.                                *)
RowsOf(flush) ==
  {[key |-> flush[f][r], seg |-> f - 1, row |-> r - 1] :
     <<f, r>> \in {p \in (1 .. Len(flush)) \X (1 .. 12) : p[2] <= Len(flush[p[1]])}}

FileNames(flush, first) == [f \in DOMAIN flush |-> first + f]

Second == Len(input.first)

(* What a lookup must find: the rows of a flush with one of the keys            *)
Expected(flush, first, keys) ==
  {<<r.key, first + r.seg + 1, r.row>> : r \in {q \in RowsOf(flush) : q.key \in keys}}

AllRows(keys) == Expected(input.first, 0, keys) \cup Expected(input.second, Second, keys)

(* Compaction keeps the rows of keep, in order, in files of two                *)
Places ==
  LET all  == {p \in {<<e[2], e[3]>> : e \in AllRows(0 .. 2 ^ HashBits - 1)} : p \in input.keep}
      rank(p) == Cardinality({q \in all : q[1] < p[1] \/ (q[1] = p[1] /\ q[2] < p[2])})
  IN  [p \in all |-> [seg |-> rank(p) \div input.files, row |-> rank(p) % input.files]]

NewNames == [f \in 1 .. Cardinality(DOMAIN Places) |-> 20 + f]

IInit ==
  /\ input \in Inputs
  /\ stage = "flush"
  /\ built = <<>>

IndexFlushes ==
  /\ stage = "flush" /\ stage' = "merge"
  /\ built' = <<BuildFromFlush(RowsOf(input.first), FileNames(input.first, 0)),
                BuildFromFlush(RowsOf(input.second), FileNames(input.second, Second))>>
  /\ UNCHANGED input

(* The indices of a HashSet come in any order                                   *)
MergeIndices ==
  /\ stage = "merge" /\ stage' = "compact"
  /\ \E order \in {built, Reverse(built)} : built' = Append(order, BuildFromMerge(order))
  /\ UNCHANGED input

CompactIndices ==
  /\ stage = "compact" /\ stage' = "done"
  /\ built' = <<BuildForCompaction(SubSeq(built, 1, 2), Places, NewNames)>>
  /\ UNCHANGED input

INext == IndexFlushes \/ MergeIndices \/ CompactIndices

ISpec == IInit /\ [][INext]_ivars
-----------------------------------------------------------------------------
KeySets == {k \in SUBSET {r.key : r \in RowsOf(input.first) \cup RowsOf(input.second)} : Cardinality(k) \in 1 .. 2}
             \cup {{0}, {2 ^ HashBits - 1}}

(* A lookup finds exactly the rows that were flushed under the keys: in the     *)
(* indices of the flushes, and in what build_from_merge makes of them, every    *)
(* entry keeps its key, its file and its row.                                   *)
LookupsAreExact ==
  stage = "compact" => \A keys \in KeySets :
    /\ SearchValues(built[1], keys) \cup SearchValues(built[2], keys) = AllRows(keys)
    /\ SearchValues(built[3], keys) = AllRows(keys)

(* After compaction a lookup finds exactly the rows that were kept, where they  *)
(* went, and none of those that were deleted (build_from_merge_for_compaction). *)
CompactedLookupsAreExact ==
  stage = "done" => \A keys \in KeySets :
    SearchValues(built[1], keys)
      = {<<e[1], NewNames[Places[<<e[2], e[3]>>].seg + 1], Places[<<e[2], e[3]>>].row>> :
           e \in {r \in AllRows(keys) : <<r[2], r[3]>> \in DOMAIN Places}}

(* The writer never loses or adds a bit and never overruns its second buffer,   *)
(* although write_entry looks at the answer of its last write only; no value    *)
(* is too large for its width; and entries come in the order of their hashes.   *)
BlocksAreWhole ==
  \A i \in DOMAIN built :
    LET x    == built[i]
        bits == x.start + (x.m.buckets + 1) * x.m.bucket
    IN  /\ x.ok
        /\ Len(x.data) \in bits .. bits + ByteBits - 1
        /\ Len(x.data) % ByteBits = 0

(* The index of files is exact, through flushes, merges and compaction, and     *)
(* its blocks are written bit for bit (persisted_bucket_hash_map.rs).           *)
IndexIsExact == LookupsAreExact /\ CompactedLookupsAreExact /\ BlocksAreWhole
=============================================================================
