----------------------------- MODULE AtomicTable -----------------------------
(***************************************************************************)
(* What the rest of the system takes an Iceberg table for: something that  *)
(* a snapshot changes as a whole or not at all.  A snapshot in progress is *)
(* the rows it adds and deletes, its flush LSN and a new schema; the       *)
(* schema follows the rows in a step of its own.  An attempt may be given  *)
(* up at any time.  Compaction and index merges are not visible here.      *)
(***************************************************************************)
EXTENDS Integers

CONSTANT None

VARIABLES
  table,      \* [exists, rows, lsn, schema]
  pending     \* the snapshot being written, or None

vars == <<table, pending>>

Absent == [exists |-> FALSE, rows |-> {}, lsn |-> 0, schema |-> 0]

Init == table = Absent /\ pending = None

(* A table appears empty; its schema may need one more step *)
Create ==
  /\ ~table.exists
  /\ table'.exists /\ table'.rows = {} /\ table'.lsn = 0
  /\ UNCHANGED pending

AdoptSchema == table.exists /\ table.schema = 0 /\ table' = [table EXCEPT !.schema = 1] /\ UNCHANGED pending

Begin == pending = None /\ pending' # None /\ UNCHANGED table

Commit ==
  /\ pending # None /\ table.exists /\ pending.lsn >= table.lsn
  /\ table' = [table EXCEPT !.rows = (@ \cup pending.add) \ pending.del, !.lsn = pending.lsn]
  /\ pending' \in {pending, None}

Evolve ==
  /\ pending # None /\ table.exists /\ pending.schema # 0 /\ table.lsn = pending.lsn
  /\ table' = [table EXCEPT !.schema = pending.schema]
  /\ pending' \in {pending, None}

(* Done, failed or crashed *)
End == pending # None /\ pending' = None /\ UNCHANGED table

Drop == table.exists /\ pending = None /\ table' = Absent /\ UNCHANGED pending

Next == Create \/ AdoptSchema \/ Begin \/ Commit \/ Evolve \/ End \/ Drop

Spec == Init /\ [][Next]_vars
=============================================================================
