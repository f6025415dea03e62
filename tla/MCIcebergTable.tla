--------------------------- MODULE MCIcebergTable ---------------------------
(* Instances of IcebergTable for TLC: which catalog, and how often each      *)
(* event may happen.                                                         *)
EXTENDS IcebergTable, TLC

Budget(sync, compact, merge, schema, delete, crash, fail, lost, drop) ==
  "sync" :> sync @@ "compact" :> compact @@ "merge" :> merge @@ "schema" :> schema @@ "delete" :> delete
    @@ "crash" :> crash @@ "fail" :> fail @@ "lost" :> lost @@ "drop" :> drop

Scenario(catalog, budget) == [catalog |-> catalog, budget |-> budget]

(* The file catalog, without a schema change *)
FileCompacts == Scenario("file", Budget(4, 1, 0, 0, 2, 1, 0, 0, 0))
FileRetries  == Scenario("file", Budget(3, 0, 0, 0, 1, 1, 1, 0, 1))
FileLoses    == Scenario("file", Budget(3, 0, 0, 0, 1, 0, 0, 1, 0))
FileMerges   == Scenario("file", Budget(3, 1, 1, 0, 1, 0, 1, 0, 0))
(* A REST or Glue catalog, with one *)
ServiceCompacts == Scenario("service", Budget(4, 1, 0, 1, 1, 0, 0, 0, 0))
ServiceEvolves  == Scenario("service", Budget(2, 0, 0, 1, 1, 1, 1, 0, 0))
ServiceMerges   == Scenario("service", Budget(3, 0, 1, 1, 0, 1, 0, 0, 0))

IcebergScenarios == {FileCompacts, FileRetries, FileLoses, FileMerges, ServiceCompacts, ServiceEvolves, ServiceMerges}

(* What the README describes: a schema change on the file catalog, a lost   *)
(* answer, a creation cut short, more data files than a manifest holds      *)
SchemaScenarios == {Scenario("file", Budget(2, 0, 0, 1, 1, 1, 0, 0, 0))}
LostScenarios   == {Scenario("file", Budget(2, 0, 0, 0, 0, 0, 0, 1, 0))}
CutScenarios    == {Scenario("file", Budget(1, 0, 0, 0, 0, 1, 0, 0, 0))}
ManyScenarios   == {Scenario("file", Budget(4, 1, 0, 0, 0, 0, 0, 0, 0))}
=============================================================================
