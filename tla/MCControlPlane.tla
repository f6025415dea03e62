--------------------------- MODULE MCControlPlane ---------------------------
(* Instances of ControlPlane: one database, two tables, two clients.        *)
EXTENDS ControlPlane

NoFaults == [crash |-> 0, pg |-> 0, lock |-> 0, loop |-> 0, meta |-> 0, timeout |-> 0, persist |-> 0,
             handler |-> 0]
Faults(f) == f @@ NoFaults

Scripts(s1, s2) == [c \in Client |-> IF c = "c1" THEN s1 ELSE s2]

Create(id, name)     == Request("create", id, "p", name)
CreateRest(id, name) == Request("create", id, Rest, name)
CreateAvro(id, name) == [CreateRest(id, name) EXCEPT !.avro = TRUE]
Drop(id)             == Request("drop", id, None, None)
Look1(op, id)        == Request(op, id, None, None)
Avro(id, name)       == Request("avro", id, Rest, name)   \* the schema of table id, for a name
Close                == Request("shutdown", None, "p", None)

Churn ==
  [script |-> Scripts(<<Create("a", "t"), Drop("a"), Create("a", "t")>>, <<Create("b", "u"), Drop("b")>>),
   left |-> Faults([lock |-> 1])]

Broken ==
  [script |-> Scripts(<<Create("a", "t"), Drop("a"), Look1("scan", "a")>>, <<Create("b", "t"), Drop("b")>>),
   left |-> Faults([pg |-> 1, loop |-> 1])]

RestTables ==
  [script |-> Scripts(<<CreateRest("a", "t"), Avro("a", "t"), Drop("a"), CreateRest("a", "t"), Avro("a", "t")>>,
                      <<CreateRest("b", "t"), Look1("list", "a"), Drop("b"), CreateAvro("b", "u")>>),
   left |-> NoFaults]

Mismatch ==
  [script |-> Scripts(<<CreateRest("a", "t"), Avro("b", "t"), Drop("a")>>,
                      <<CreateRest("b", "u"), CreateRest("b", "v"), Look1("scan", "b"), Drop("b")>>),
   left |-> Faults([handler |-> 1])]

Crashes ==
  [script |-> Scripts(<<Create("a", "t"), Drop("a"), Drop("a")>>, <<CreateRest("b", "u"), Drop("b")>>),
   left |-> Faults([crash |-> 1, persist |-> 1, meta |-> 1, pg |-> 1])]

Timeouts ==
  [script |-> Scripts(<<Create("a", "t"), Drop("a"), Look1("snapshot", "a")>>,
                      <<Look1("flush", "a"), Look1("scan", "a"), CreateRest("b", "u"), Drop("b")>>),
   left |-> Faults([timeout |-> 1])]

Closing ==
  [script |-> Scripts(<<Create("a", "t"), Close, Create("a", "t")>>, <<Create("b", "u"), Drop("b")>>),
   left |-> Faults([crash |-> 1])]

Twice ==
  [script |-> Scripts(<<Create("a", "t"), Drop("a"), Create("b", "t")>>, <<>>),
   left |-> Faults([timeout |-> 1, crash |-> 1, pg |-> 1])]

ControlScenarios == {Churn, Broken, RestTables, Mismatch, Crashes, Timeouts, Closing, Twice}
=============================================================================
