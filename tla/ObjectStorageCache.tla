------------------------ MODULE ObjectStorageCache ------------------------
(***************************************************************************)
(* The object storage cache (storage/cache/object_storage): local copies   *)
(* of data, puffin and index files, kept up to a number of bytes.  A cache *)
(* record c holds what ObjectStorageCacheInternal does:                    *)
(*   entry    the entries, evictable and not, by file id                   *)
(*   lru      the ids of the evictable ones, least recently used first     *)
(*   marked   evicted_entries: pinned ones to delete once unpinned         *)
(*   bytes    cur_bytes                                                    *)
(*   evicted  the files operations have handed back to be deleted          *)
(*   full     an entry found no room, everything else being pinned         *)
(*   panic    an assertion of the cache failed                             *)
(* A path is the pair of a file id and a number, 0 for the remote file.    *)
(***************************************************************************)
EXTENDS Integers, Sequences, SequencesExt, FiniteSets, FiniteSetsExt

Remote(id)    == <<id, 0>>
IsRemote(p)   == p[2] = 0

NewCache(max, optimize) ==
  [entry |-> <<>>, lru |-> <<>>, marked |-> {}, bytes |-> 0, evicted |-> {}, full |-> FALSE, panic |-> FALSE,
   max |-> max, optimize |-> optimize]

Entry(path, size, deletable) == [path |-> path, size |-> size, refs |-> 1, deletable |-> deletable]

Cached(c)    == DOMAIN c.entry
Evictable(c) == ToSet(c.lru)
Pinned(c)    == Cached(c) \ Evictable(c)

CacheCheck(c, cond) == [c EXCEPT !.panic = @ \/ ~cond]

(* The paths of the entries of ids that may be deleted *)
Deletable(c, ids) == {c.entry[id].path : id \in {i \in ids : c.entry[i].deletable}}

SizeOf(c, ids) == MapThenSumSet(LAMBDA id : c.entry[id].size, ids)

(* Entries leave the cache and their files are handed back *)
Removed(c, ids) ==
  [c EXCEPT !.entry = [id \in Cached(c) \ ids |-> c.entry[id]],
            !.lru = SelectSeq(@, LAMBDA id : id \notin ids),
            !.marked = @ \ ids,
            !.bytes = @ - SizeOf(c, ids),
            !.evicted = @ \cup Deletable(c, ids)]
-----------------------------------------------------------------------------
(* evict_cache_entries: the shortest prefix of the LRU order whose removal   *)
(* brings the bytes down to the limit; the whole of it when none does        *)
Enough(c, n) == c.bytes - SizeOf(c, ToSet(SubSeq(c.lru, 1, n))) <= c.max

EvictCacheEntries(c) ==
  LET fit == {n \in 0 .. Len(c.lru) : Enough(c, n)}
      n   == IF fit = {} THEN Len(c.lru) ELSE Min(fit)
  IN  [ok |-> fit # {}, c |-> Removed(c, ToSet(SubSeq(c.lru, 1, n)))]

(* insert_non_evictable, the bytes of e being counted already: without room  *)
(* the entry is taken out again                                              *)
InsertNonEvictable(c, id, e) ==
  LET asserted == CacheCheck(c, id \notin Cached(c))
      inserted == [asserted EXCEPT !.entry = [i \in Cached(c) \cup {id} |-> IF i = id THEN e ELSE c.entry[i]]]
      r        == EvictCacheEntries(inserted)
  IN  IF r.ok THEN r
      ELSE [r EXCEPT !.c.entry = [i \in DOMAIN @ \ {id} |-> @[i]], !.c.full = TRUE]

(* Mutant: a pinned entry goes at once too *)
DeleteCacheEntryNow(c, id, must_exist) == IF id \in Cached(c) THEN Removed(c, {id}) ELSE c

(* delete_cache_entry: an evictable entry goes at once, a pinned one leaves  *)
(* a mark                                                                    *)
DeleteCacheEntry(c, id, must_exist) ==
  CASE id \in Evictable(c) -> Removed(c, {id})
    [] id \in Pinned(c)    -> [CacheCheck(c, id \notin c.marked) EXCEPT !.marked = @ \cup {id}]
    [] OTHER               -> CacheCheck(c, ~must_exist)

Unreference(c, id) ==
  IF id \notin Pinned(c) THEN CacheCheck(c, FALSE)
  ELSE LET d == [c EXCEPT !.entry[id].refs = @ - 1]
       IN  CASE d.entry[id].refs > 0  -> d
             [] d.entry[id].refs = 0 /\ id \in d.marked -> Removed(d, {id})
             [] OTHER -> [d EXCEPT !.lru = Append(@, id)]

(* Mutant: the local copy is forgotten *)
ReplaceWithRemoteOnly(c, id) == [c EXCEPT !.entry[id].path = Remote(id), !.entry[id].deletable = FALSE]

(* With the local filesystem optimisation the remote file is the cached one, *)
(* and the copy is handed back                                               *)
ReplaceWithRemote(c, id) ==
  [c EXCEPT !.evicted = @ \cup {c.entry[id].path},
            !.entry[id].path = Remote(id), !.entry[id].deletable = FALSE]

TryReplaceEvictableWithRemote(c, id) ==
  IF c.optimize /\ id \in Evictable(c) THEN ReplaceWithRemote(c, id) ELSE c

TryReplaceOnlyReferenceWithRemote(c, id) ==
  IF c.optimize /\ id \in Pinned(c) \ c.marked /\ c.entry[id].refs = 1
  THEN ReplaceWithRemote(c, id) ELSE c
-----------------------------------------------------------------------------
(* NonEvictableHandle: nothing is evicted by the unreference itself *)
UnreferenceAndDelete(c, id) ==
  LET d == Unreference(c, id)
  IN  DeleteCacheEntry(CacheCheck(d, d.evicted = c.evicted), id, TRUE)

UnreferenceAndReplaceWithRemote(c, id) ==
  LET d == Unreference(c, id)
  IN  TryReplaceEvictableWithRemote(CacheCheck(d, d.evicted = c.evicted), id)
-----------------------------------------------------------------------------
(* import_cache_entry: a full cache is not tolerated *)
ImportCacheEntry(c, id, path, size) ==
  LET r == InsertNonEvictable([c EXCEPT !.bytes = @ + size], id, Entry(path, size, TRUE))
  IN  CacheCheck(r.c, r.ok)

(* get_cache_entry, up to the IO outside the lock: hit, or a miss *)
Hits(c, id) == id \in Cached(c)

GetCached(c, id) ==
  IF id \in Pinned(c) THEN [c EXCEPT !.entry[id].refs = @ + 1]
  ELSE LET d == [c EXCEPT !.entry = [i \in Cached(c) \ {id} |-> c.entry[i]],
                          !.lru = SelectSeq(@, LAMBDA i : i # id)]
           r == InsertNonEvictable(d, id, [c.entry[id] EXCEPT !.refs = 1])
       IN  CacheCheck(r.c, r.c.evicted = c.evicted)

(* get_cache_handle_from_remote: the copy is number n of the file *)
Loaded(c, id, n, size) == IF c.optimize THEN Entry(Remote(id), size, FALSE) ELSE Entry(<<id, n>>, size, TRUE)

(* get_cache_entry, after the IO: when there is no room the bytes are given  *)
(* back and the caller gets no handle                                        *)
InsertLoaded(c, id, e) ==
  LET r == InsertNonEvictable([c EXCEPT !.bytes = @ + e.size], id, e)
  IN  IF r.ok THEN r ELSE [r EXCEPT !.c.bytes = @ - e.size]

IncrementReferenceCount(c, id) ==
  IF id \in Pinned(c) THEN [c EXCEPT !.entry[id].refs = @ + 1] ELSE CacheCheck(c, FALSE)
=============================================================================
