--------------------------- MODULE MCRunExecutor ---------------------------
(* Instances of RunExecutor for TLC.  A behaviour follows one scenario: the *)
(* publisher may hold the write lock, or the origin is alone.               *)
EXTENDS RunExecutor

VARIABLE scenario

Alone == INSTANCE RunExecutor WITH
  Locked <- FALSE, MaxRestarts <- 1, MaxDirect <- 1

MCInit == scenario \in {"shared", "alone"} /\ Init
MCNext ==
  /\ UNCHANGED scenario
  /\ \/ scenario = "shared" /\ Next
     \/ scenario = "alone" /\ Alone!Next
MCSpec ==
  /\ MCInit /\ [][MCNext]_<<scenario, vars>>
  /\ WF_vars(scenario = "alone" /\ Alone!Worker)
  /\ SF_vars(scenario = "alone" /\ Alone!Concludes)
  /\ WF_vars(scenario = "alone" /\ Alone!CameraFinishes)
  /\ WF_vars(scenario = "alone" /\ Alone!PostAckGraceEnds)

(* The rows of a stopped run settle when the origin is alone (Worker).      *)
AloneStoppedRunSettles == (scenario = "alone") => StoppedRunSettles
=============================================================================
