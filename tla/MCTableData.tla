---------------------------- MODULE MCTableData ----------------------------
(***************************************************************************)
(* The data of a table, part by part: rows in memory and in files          *)
(* (RowSnapshot), the hash index of files (GlobalIndex), the columns the   *)
(* rows are converted into (RowConversions) and PostgreSQL's text          *)
(* (PgText).  A behaviour runs one part; the others stay where they start. *)
(***************************************************************************)
EXTENDS RowSnapshot, MCConversions

(* The histories: a source with two or three keys, two of which collide,     *)
(* under each of the row identities                                          *)
MCRow == {<<1, 1>>, <<1, 2>>, <<2, 1>>, <<3, 1>>}
R11 == <<1, 1>>
R12 == <<1, 2>>
R21 == <<2, 1>>
R31 == <<3, 1>>

I(x, r) == <<"ins", x, r>>
D(x, r) == <<"del", x, r>>
U(r)    == <<"ups", 0, r>>
E(x)    == <<"end", x, 0>>
A(x)    == <<"abt", x, 0>>

With(id, ops) == [identity |-> id, script |-> ops]

Keyed == {"Single", "Keys", "FullRow"}

(* Rows change and go across batches, flushes and files                      *)
Updates == <<I(0, R11), I(0, R31), I(0, R21), E(0), D(0, R11), I(0, R12), E(0), D(0, R12), D(0, R31), E(0)>>

(* A streaming transaction deletes its own rows and rows of the table        *)
Streams == <<I(0, R11), I(0, R31), E(0), I(1, R21), D(1, R11), I(1, R12), D(1, R21), D(1, R31), E(1), D(0, R12), E(0)>>

(* One streaming transaction aborts, another commits                         *)
Aborts == <<I(0, R11), E(0), I(2, R31), D(1, R11), I(1, R12), I(1, R21), A(1), E(2), D(0, R11), D(0, R31), E(0)>>

(* Two streaming transactions take turns in the batch ids                    *)
Turns == <<I(1, R11), I(2, R21), I(1, R31), D(1, R11), I(2, R21), I(1, R12), E(2), E(1), D(0, R31), E(0)>>

(* Equal rows, deleted together                                              *)
Equal == <<I(0, R11), I(0, R11), I(0, R31), E(0), D(0, R11), D(0, R11), E(0), D(0, R31), E(0)>>

(* Insert or replace                                                         *)
Upserts == <<U(R11), U(R21), E(0), U(R12), E(0), U(R21), U(R11), E(0)>>

RowScenarios ==
  {With(i, s) : i \in Keyed, s \in {Updates, Streams, Aborts, Turns}}
  \cup {With("FullRow", Equal), With("Single", Upserts)}

(* A key is written again after a streaming transaction deleted it            *)
StaleScenarios ==
  {With(i, <<I(0, R11), E(0), D(1, R11), E(1), I(0, R12), E(0), D(0, R12), E(0)>>) : i \in {"Single", "Keys"}}

(* All the rows of a batch are deleted before it is flushed                   *)
EmptiedScenarios ==
  {With("FullRow", <<I(0, R11), I(0, R31), D(0, R11), D(0, R31), I(0, R21), E(0)>>)}

(* Two equal rows deleted by one transaction, a snapshot between them         *)
TwiceScenarios == {With("FullRow", Equal)}
-----------------------------------------------------------------------------

CONSTANT Parts
VARIABLE part

Either(name, all, one) == IF part = name THEN all ELSE {one}

Init == /\ part \in Parts
        /\ scenario \in Either("rows", Scenarios, CHOOSE s \in Scenarios : TRUE)
        /\ input \in Either("index", Inputs, CHOOSE i \in Inputs : TRUE)
        /\ schema \in Either("columns", Cases, CHOOSE c \in JsonCases : IsAccepted(c))
        /\ written \in Either("text", Texts, CHOOSE t \in Texts : TRUE)
        /\ RInit /\ IInit /\ CInit /\ TInit

Next == /\ \/ part = "rows"    /\ RNext /\ UNCHANGED <<ivars, cvars, tvars>>
           \/ part = "index"   /\ INext /\ UNCHANGED <<rvars, cvars, tvars>>
           \/ part = "columns" /\ CNext /\ UNCHANGED <<rvars, ivars, tvars>>
           \/ part = "text"    /\ TNext /\ UNCHANGED <<rvars, ivars, cvars>>
        /\ UNCHANGED part

Spec == Init /\ [][Next]_<<part, rvars, ivars, cvars, tvars>>
=============================================================================
