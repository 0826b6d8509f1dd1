---------------------------- MODULE MCRunLifecycle ----------------------------
(* Instances of RunLifecycle for TLC.  The cfg's constants are those of all  *)
(* scenarios together, and the properties are stated for them; a behaviour   *)
(* follows one scenario: interventions by two desktops of the owner, plans   *)
(* and starts by the owner and a friend where there may be no executor, a    *)
(* supervised run, or mutations by one desktop.                              *)
EXTENDS RunLifecycle

VARIABLE scenario

Persons == [c \in Clients |-> IF c = "guest" THEN "friend" ELSE "owner"]
Sequence(horizon) ==
  [horizon |-> horizon, storage |-> "available", fits |-> TRUE]
Clear == {{Sequence("clear")}}
ClearOrNot == Clear \cup {{Sequence("clear"), Sequence("limited")}}

Desk == INSTANCE RunLifecycle WITH
  Clients <- {"desktop", "laptop"}, Drafts <- Clear, Executors <- {"fake"},
  Kinds <- Interventions \cup {"accept", "start"},
  MaxLease <- 1, MaxRun <- 4, MaxPreviews <- 0

Plans == INSTANCE RunLifecycle WITH
  Clients <- {"desktop", "guest"}, Executors <- {"real", "unavailable"},
  Kinds <- {"save", "accept", "start", "stop"},
  MaxRun <- 3, MaxPreviews <- 0

Supervised == INSTANCE RunLifecycle WITH
  Clients <- {"desktop"}, Drafts <- Clear, Executors <- {"real"},
  SequenceCount <- 1, Kinds <- {"accept", "start", "pause", "stop", "skip"},
  MaxLease <- 1, MaxPreviews <- 0

Changes == INSTANCE RunLifecycle WITH
  Clients <- {"desktop"}, Drafts <- Clear, Executors <- {"fake"},
  Kinds <- {"accept", "start", "preview", "apply", "approve"},
  MaxLease <- 1, MaxRun <- 3

MCInit ==
  \/ scenario = "interventions" /\ Desk!Init
  \/ scenario = "plans" /\ Plans!Init
  \/ scenario = "supervised" /\ Supervised!Init
  \/ scenario = "changes" /\ Changes!Init
MCNext ==
  /\ UNCHANGED scenario
  /\ \/ scenario = "interventions" /\ Desk!Next
     \/ scenario = "plans" /\ Plans!Next
     \/ scenario = "supervised" /\ Supervised!Next
     \/ scenario = "changes" /\ Changes!Next
MCSpec == MCInit /\ [][MCNext]_<<scenario, vars>>
=============================================================================
