--------------------------- MODULE MCControlLease ---------------------------
(* ControlLease on a small observatory: an owner's desktop, a friend's      *)
(* desktop and a phone.  A behaviour follows one scenario: the publisher    *)
(* shares the database, or the origin is alone and clients open two streams.*)
EXTENDS ControlLease

CONSTANTS owner, friend, phone
VARIABLE scenario

Alone == INSTANCE ControlLease WITH
  PublisherRuns <- FALSE, MaxStreams <- 2, MaxRequests <- 1

MCInit == scenario \in {"shared", "alone"} /\ Init
MCNext ==
  /\ UNCHANGED scenario
  /\ \/ scenario = "shared" /\ Next
     \/ scenario = "alone" /\ Alone!Next
MCSpec ==
  /\ MCInit /\ [][MCNext]_<<scenario, vars>>
  /\ Alone!Fairness

(* With the origin alone a grace that runs always ends                      *)
(* (expireReconnectGrace, controllerConnected).                             *)
AloneGraceEnds == (scenario = "alone") => ReconnectGraceEnds
=============================================================================
