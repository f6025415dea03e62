---------------------------- MODULE MCDiskFiles ----------------------------
(* Tables for TLC: the files they start with, the room in the cache, and   *)
(* how often each kind of thing may happen.                                *)
EXTENDS DiskFiles

Start(rows, max, optimize, split, maintain, delete, write, snapshot, read, fail, drop) ==
  [rows |-> rows, max |-> max, optimize |-> optimize, split |-> split, maintain |-> maintain,
   left |-> [delete |-> delete, write |-> write, snapshot |-> snapshot, read |-> read,
             fail |-> fail, drop |-> drop, maintain |-> 1]]

(* Deletions, snapshots and persistences around one compaction *)
CompactScenario == Start(<<<<1, 2>>, <<3>>>>, 12, FALSE, FALSE, "compact", 2, 0, 5, 0, 0, 0)

FileScenarios == {
  CompactScenario,
  Start(<<<<1>>, <<2>>>>, 3, FALSE, TRUE, "compact", 1, 0, 3, 1, 1, 0),
  Start(<<<<1>>, <<2>>>>, 6, FALSE, FALSE, "compact", 1, 0, 3, 1, 1, 1),
  Start(<<<<1>>, <<2>>>>, 9, TRUE, FALSE, "compact", 1, 0, 4, 1, 0, 1),
  Start(<<<<1>>, <<2>>>>, 9, TRUE, FALSE, "merge", 1, 1, 4, 1, 0, 1),
  Start(<<<<1>>>>, 5, FALSE, FALSE, "merge", 1, 1, 4, 1, 0, 1),
  Start(<<<<1>>, <<2>>, <<3>>>>, 7, FALSE, FALSE, "compact", 1, 0, 4, 1, 0, 0),
  Start(<<<<1>>>>, 4, FALSE, FALSE, "compact", 1, 2, 4, 0, 0, 1),
  Start(<<<<1>>>>, 4, FALSE, FALSE, "compact", 0, 2, 4, 1, 0, 1) }

(* A compaction of one of two files that an earlier one put under one index: *)
(* CacheAddsUp fails, on an assertion of the payload                         *)
PartialScenarios == {
  [Start(<<<<1>>, <<2>>>>, 12, FALSE, TRUE, "compact", 0, 1, 5, 0, 0, 0) EXCEPT !.left["maintain"] = 2] }

(* The same history alone: ReadsNoDeletedRow fails when two snapshots are    *)
(* taken during the compaction                                               *)
PruneScenarios == {CompactScenario}
====
