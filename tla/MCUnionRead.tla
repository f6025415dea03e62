---------------------------- MODULE MCUnionRead ----------------------------
(* Instances of UnionRead for TLC *)
EXTENDS UnionRead

Start(log, commits, persisted, replayed, reads, failures) ==
  [log |-> log, commits |-> commits, persisted |-> persisted, replayed |-> replayed,
   reads |-> reads, failures |-> failures]

(* A new table with one or two commits, and one that was recovered *)
ReadScenarios ==
  {Start(2, {1}, 0, 0, 2, 1), Start(2, {1, 2}, 1, 1, 3, 0), Start(3, {1, 2}, 1, 1, 2, 1),
   Start(2, {}, 0, 0, 2, 0)}

(* The same table, recovered with a commit from the write-ahead log *)
ReplayedScenarios == {Start(3, {1, 2}, 1, 2, 1, 0)}
=============================================================================
