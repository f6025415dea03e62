--------------------------- MODULE MCTableHandler ---------------------------
(***************************************************************************)
(* Instances of TableHandler: the histories of transactions and the        *)
(* requests and faults beside them that the configurations choose from.    *)
(***************************************************************************)
EXTENDS TableHandler

Ins(r)   == [type |-> "Append", row |-> r]
Del(r)   == [type |-> "Delete", row |-> r]
Spill(r) == [type |-> "StreamFlush", row |-> r]
Tx(kind, ops) == [kind |-> kind, ops |-> ops]

MCLsn2 == {2, 4}
MCLsn3 == {2, 4, 6}

Each(reqs) == [r \in Requests |-> IF r \in reqs THEN 1 ELSE 0]

(* A history is possible at the source when each row is deleted at most once *)
(* by a transaction that takes effect, after one such inserted it.           *)
Inserts(s, i) == {s[i].ops[k].row : k \in {j \in 1 .. Len(s[i].ops) : s[i].ops[j].type = "Append"}}
Deletes(s, i) == {s[i].ops[k].row : k \in {j \in 1 .. Len(s[i].ops) : s[i].ops[j].type = "Delete"}}
Effects(s, i) == {j \in 1 .. i : s[j].kind # "abort"}
Possible(s) ==
  \A i \in Xact : \A r \in Deletes(s, i) :
    /\ r \in Inserts(s, i) \cup UNION {Inserts(s, j) : j \in Effects(s, i - 1)}
    /\ \A j \in Effects(s, i - 1) : r \notin Deletes(s, j)

(* Every assignment of kinds to the transactions of a shape                  *)
Histories(kinds, shapes) ==
  {s \in {[i \in Xact |-> Tx(k[i], o[i])] : k \in [Xact -> kinds], o \in shapes} : Possible(s)}

(* Deleting earlier rows, a row inserted and deleted at once, deleting again *)
(* what an aborted transaction deleted, nothing but deletions, and enough    *)
(* rows for a streaming transaction that aborts to have flushed before.      *)
Shapes3 ==
  {<< <<Ins(1), Ins(2)>>, <<Del(1), Ins(3)>>, <<Del(2)>> >>,
   << <<Ins(1)>>, <<Ins(2), Del(2)>>, <<Del(1), Ins(3)>> >>,
   << <<Ins(1), Ins(2)>>, <<Del(1)>>, <<Del(1), Ins(3), Del(2)>> >>,
   << <<Ins(1), Ins(2), Ins(3)>>, <<Del(3)>>, <<Del(1)>> >>,
   << <<Ins(1)>>, <<Ins(2)>>, <<Ins(3), Del(2)>> >>,
   << <<Ins(1)>>, <<Ins(2), Ins(3)>>, <<Del(1)>> >>}

(* A bulk load, and a streaming transaction told to flush half-way           *)
LoadThenStream ==
  << Tx("load", <<Ins(1), Ins(2)>>), Tx("stream_flush", <<Ins(3), Spill(3), Del(3), Del(1)>>),
     Tx("main_flush", <<Del(2)>>) >>

(* No flush of these writes a slice whose rows are all deleted               *)
Shapes2 ==
  {<< <<Ins(1), Ins(2)>>, <<Del(1), Ins(3)>> >>,
   << <<Ins(1), Ins(2)>>, <<Del(1)>> >>}

(* One history, of as many transactions as Xact has                          *)
OneScript ==
  {SubSeq(<<Tx("main", <<Ins(1), Ins(2)>>), Tx("main_flush", <<Del(1), Ins(3)>>), Tx("main", <<Del(2)>>)>>, 1, Count)}

Runs(scripts, adjacent, budget) ==
  {[script |-> s, adjacent |-> adjacent, budget |-> budget] : s \in scripts}
-----------------------------------------------------------------------------
(* Transactions of every kind, and nothing else                              *)
WriteScenarios ==
  Runs(Histories({"main", "main_flush"}, Shapes3)
         \cup Histories({"main", "stream", "abort"}, Shapes3) \cup {LoadThenStream},
       TRUE, Each({}))

(* A force snapshot at any moment                                            *)
ForceScenarios == Runs(Histories({"main", "main_flush", "stream"}, Shapes2), TRUE, Each({"force"}))

(* An initial copy, a drop among maintenance and WAL updates, and            *)
(* maintenance of either kind, requested and periodic                        *)
LifecycleScenarios ==
  Runs(Histories({"main", "main_flush"}, Shapes2), FALSE, Each({"copy"}))
    \cup Runs(OneScript, FALSE, Each({"drop", "wal", "maintain"}))
    \cup Runs(OneScript, FALSE, [Each({"index_merge", "compaction"}) EXCEPT !["maintain"] = 2])

(* Failing tasks; a schema change among force snapshots                      *)
FaultScenarios ==
  Runs(OneScript, FALSE, Each({"persist_fault", "force", "maintain", "maintenance_fault"}))
    \cup Runs(OneScript, FALSE, Each({"alter", "replicate", "force"}))

CrashScenarios     == Runs(Histories({"main", "main_flush"}, Shapes3), FALSE, Each({"crash"}))
ReconnectScenarios == Runs(OneScript, FALSE, Each({"reconnect", "wal", "wal_fault"}))

(* All that the safety properties are checked in, and the requests that have *)
(* to be answered                                                            *)
SafetyScenarios  == WriteScenarios \cup CrashScenarios \cup FaultScenarios \cup ReconnectScenarios
RequestScenarios == ForceScenarios \cup LifecycleScenarios
-----------------------------------------------------------------------------
(* Scenarios in which a property fails without its exceptions; the README    *)
(* says which and why                                                        *)
AheadScenarios    == Runs(OneScript, FALSE, Each({"replicate", "force"}))
StuckScenarios    == Runs({<<Tx("main", <<Ins(1), Ins(2)>>), Tx("main_flush", <<Ins(3), Del(3)>>)>>},
                          FALSE, Each({"force"}))
RestreamScenarios == Runs({<<Tx("main", <<Ins(1)>>), Tx("stream", <<Ins(2)>>)>>}, FALSE, Each({"crash"}))
AdjacentScenarios == Runs(Histories({"main", "main_flush"}, Shapes3), TRUE, Each({"crash"}))
ReplayScenarios   == Runs(OneScript, FALSE, Each({"reconnect"}))
LoadScenarios     == Runs({<<Tx("main", <<Ins(1)>>), Tx("load", <<Ins(2)>>)>>}, FALSE, Each({}))
FreshScenarios    == Runs(OneScript, FALSE, Each({"force"}))
AlterScenarios    == Runs(OneScript, FALSE, Each({"alter"}))
CompactScenarios  == Runs(OneScript, FALSE, Each({"maintain", "maintenance_fault"}))
RecopyScenarios   == Runs({<<Tx("stream", <<Ins(1), Ins(2)>>), Tx("stream", <<Del(1)>>)>>},
                          FALSE, Each({"copy"}))
WalFaultScenarios == Runs(OneScript, FALSE, Each({"drop", "wal", "wal_fault"}))
-----------------------------------------------------------------------------
Spent(reqs) == \E r \in reqs : left[r] < scenario.budget[r]

(* DurablePrefix as long as the source has not sent a transaction again that *)
(* the loop had taken before.                                                *)
DurableUnlessReplayed == ~Spent({"reconnect"}) => DurablePrefix

(* NoPanic as long as no background task has failed, no schema change was    *)
(* requested and nothing was sent again: after any of these the loop can     *)
(* meet an assertion of its own.                                             *)
PanicsHaveACause == ~Spent({"persist_fault", "maintenance_fault", "wal_fault", "alter", "reconnect"}) => NoPanic

(* A force snapshot answered once the table has an iceberg snapshot covers   *)
(* what it asked for, until a drop of the table answers everybody            *)
(* (PersistedTableLsn, notify_persisted_snapshot).                           *)
AnswersUntilDropped ==
  [][loop'.client.acked # loop.client.acked /\ loop.table.persisted # NoLsn /\ ~Spent({"drop"})
       => \A i \in Effective(loop'.client.acked) : EndLsn(i) <= ice'.lsn]_vars
=============================================================================
