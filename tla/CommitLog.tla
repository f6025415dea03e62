------------------------------ MODULE CommitLog ------------------------------
(***************************************************************************)
(* What a table promises its source: commits are taken in order, become    *)
(* durable in order, and the source is told of a commit only once it is    *)
(* durable.  A crash takes the table back to what is durable, and nothing  *)
(* ever takes that back.                                                   *)
(***************************************************************************)
EXTENDS Naturals, Sequences

CONSTANT Lsn

VARIABLES
  log,      \* the commits of the table, by their LSNs
  durable,  \* those a recovery brings back
  told      \* the LSN up to which the source has forgotten its commits

cvars == <<log, durable, told>>

Init == log = <<>> /\ durable = <<>> /\ told = 0

Commit(lsn) ==
  /\ \A k \in DOMAIN log : log[k] < lsn
  /\ log' = Append(log, lsn)
  /\ UNCHANGED <<durable, told>>

(* More of the commits become durable *)
MakeDurable(n) ==
  /\ Len(durable) < n /\ n <= Len(log)
  /\ durable' = SubSeq(log, 1, n)
  /\ UNCHANGED <<log, told>>

Tell(k) ==
  /\ told < durable[k]
  /\ told' = durable[k]
  /\ UNCHANGED <<log, durable>>

Crash == log' = durable /\ UNCHANGED <<durable, told>>

Next ==
  \/ \E lsn \in Lsn : Commit(lsn)
  \/ \E n \in 1 .. Len(log) : MakeDurable(n)
  \/ \E k \in DOMAIN durable : Tell(k)
  \/ Crash

Spec == Init /\ [][Next]_cvars
=============================================================================
