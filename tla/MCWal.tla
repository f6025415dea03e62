-------------------------------- MODULE MCWal --------------------------------
(***************************************************************************)
(* Instances of Wal: histories of transactions and the faults beside them. *)
(***************************************************************************)
EXTENDS Wal

MCXact == 1 .. 2

Tx(kind, n) == [kind |-> kind, rows |-> n]

Budget(crash, fault) == ("crash" :> crash) @@ ("wal_fault" :> fault)

Runs(scripts, budget) == {[script |-> s, ordered |-> TRUE, budget |-> budget] : s \in scripts}

(* A crash or a failing update at any moment, with transactions of all kinds *)
WalScenarios ==
  Runs({<<Tx("main", 1), Tx("main", 1)>>, <<Tx("main", 2)>>}, Budget(1, 1))
    \cup Runs({<<Tx("main", 1), Tx("stream", 1)>>, <<Tx("stream", 1), Tx("main", 1)>>}, Budget(1, 0))
    \cup Runs({<<Tx("abort", 1)>>, <<Tx("stream", 2)>>}, Budget(1, 1))
    \cup Runs({<<Tx("abort", 1), Tx("stream", 1)>>}, Budget(0, 1))
-----------------------------------------------------------------------------
(* Scenarios in which a stated property fails: the directory shared with a  *)
(* table that is dropped (ToldIsDurable of SharedSpec), a streaming         *)
(* transaction that only the log has (AllToldIsDurable), the source's       *)
(* events between those of the log (TableIsHistory), a second crash         *)
(* (RecoversPrefix), an abort in the log and a streaming transaction left   *)
(* open in it (NoPanic).                                                    *)
SharedScenarios  == Runs({<<Tx("main", 1)>>}, Budget(0, 0))
StreamScenarios  == Runs({<<Tx("stream", 1)>>}, Budget(1, 0))
RacingScenarios  == {[c EXCEPT !.ordered = FALSE] : c \in Runs({<<Tx("main", 1), Tx("main", 2)>>}, Budget(1, 0))}
TwiceScenarios   == Runs({<<Tx("main", 1), Tx("main", 2)>>}, Budget(1, 0))
AbortScenarios   == Runs({<<Tx("main", 1), Tx("abort", 1)>>}, Budget(1, 0))
OpenScenarios    == Runs({<<Tx("main", 1), Tx("stream", 1)>>}, Budget(1, 0))
=============================================================================
