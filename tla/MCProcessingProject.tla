------------------------ MODULE MCProcessingProject ------------------------
(* Instances of ProcessingProject for TLC.  The cfg's constants are those of  *)
(* all scenarios together, and the properties are stated for them; a          *)
(* behaviour follows one scenario: five attempts through all stages, sources  *)
(* with mixed metadata, drafts and previews of Develop, or two projects whose *)
(* attempts share the worker.                                                *)
EXTENDS ProcessingProject

CONSTANTS c1, r1, r2
VARIABLE scenario

\* Lights of two targets, one of none, and a dark.
Mixed == [a \in Assets |-> IF a = 4 THEN "Darks" ELSE "Lights"]
Targets == [a \in Assets |->
  CASE a = 2 -> NoTarget [] a = 3 -> "M31" [] OTHER -> "M27"]
OneChoice == {{1}}

Lineage == INSTANCE ProcessingProject WITH
  Requests <- {r1}, Assets <- {1}, Roles <- {"Lights"}, Drafts <- {},
  MaxDraftRevision <- 0, MaxCrashes <- 0

Sources == INSTANCE ProcessingProject WITH
  Requests <- {r1}, Drafts <- {}, MaxWork <- 0

Develop == INSTANCE ProcessingProject WITH
  Requests <- {r1}, Assets <- {1}, Roles <- {"Lights"},
  AdapterOutcomes <- {"sha256"}, MaxWork <- 4, MaxCrashes <- 0

Shared == INSTANCE ProcessingProject WITH
  Assets <- {1}, Roles <- {"Lights"}, Drafts <- {},
  AdapterOutcomes <- {"sha256"}, MaxWork <- 3, MaxDraftRevision <- 0

MCInit == scenario \in {"lineage", "sources", "develop", "shared"} /\ Init
MCNext ==
  /\ UNCHANGED scenario
  /\ \/ scenario = "lineage" /\ Lineage!Next
     \/ scenario = "sources" /\ Sources!Next
     \/ scenario = "develop" /\ Develop!Next
     \/ scenario = "shared" /\ Shared!Next
MCSpec ==
  /\ MCInit /\ [][MCNext]_<<scenario, vars>>
  /\ WF_vars(/\ scenario = "shared"
             /\ \E i \in DOMAIN work : \/ Shared!Claim(i)
                                        \/ Shared!TakeUpClaim(i))
  /\ WF_vars(scenario = "shared" /\ Shared!WriteTemporary)
  /\ WF_vars(scenario = "shared" /\ Shared!Rename)
  /\ WF_vars(scenario = "shared" /\ Shared!Settle("sha256"))
  /\ WF_vars(scenario = "shared" /\ Shared!LeaveUnresolved)

-----------------------------------------------------------------------------
(* Every attempt of two projects that share the worker settles, unless a    *)
(* torn file stops the queue (AttemptsSettle; the worker's passes).         *)
SharedAttemptsSettle == (scenario = "shared") => AttemptsSettle
=============================================================================
