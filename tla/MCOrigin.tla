------------------------------ MODULE MCOrigin ------------------------------
(* Admission at a listener, the Plan page and its schedule for TLC.  A       *)
(* behaviour follows one part while the others rest in their initial state.  *)
EXTENDS Origin

VARIABLES part, windows

planVars == <<server, snap, shown, draft, confirm, planPending, phone, stray,
              turns, lost>>

Headers == [r \in Requests |-> IF r = "a" THEN "k1" ELSE "k2"]

Rotated == INSTANCE AccessAdmission WITH
    MaxRotations <- 2, MaxEdits <- 0, MaxFailures <- 0
Edited == INSTANCE AccessAdmission WITH
    MaxRotations <- 0, MaxEdits <- 2, MaxFailures <- 1, Context <- "phone"

Drafts == INSTANCE PlanPage WITH
    Edits <- {"e", "f"}, MaxRevision <- 2, MaxPreviews <- 0, MaxMoves <- 1,
    MaxTurns <- 1, MaxLost <- 0, pending <- planPending
Previews == INSTANCE PlanPage WITH
    Edits <- {}, MaxRevision <- 1, MaxPreviews <- 2, MaxMoves <- 2,
    MaxTurns <- 1, MaxLost <- 1, pending <- planPending
Schedule == INSTANCE PlanSchedule WITH Count <- 3, Times <- 0 .. 3

ASSUME PartsAssumption ==
    /\ Rotated!AccessOK /\ Edited!AccessOK
    /\ Drafts!PlanPageOK /\ Previews!PlanPageOK
    /\ Schedule!PlanScheduleOK

AccessParts == {"keys", "file", "both"}
PlanParts == {"drafts", "previews"}

MCInit ==
    /\ part \in AccessParts \cup PlanParts \cup {"schedule"}
    /\ Init
    /\ keys = {"k1"}
    /\ part # "file" => file = "owner"
    /\ IF part = "previews" THEN Previews!Init ELSE Drafts!Init
    /\ part \notin PlanParts => server.holds
    /\ Schedule!Init
    /\ part # "schedule" => \A i \in DOMAIN windows : windows[i].starts = 0
                                                   /\ windows[i].ends = 0
MCNext ==
    /\ UNCHANGED part
    /\ \/ /\ \/ part = "both" /\ Next
             \/ part = "keys" /\ Rotated!Next
             \/ part = "file" /\ Edited!Next
          /\ UNCHANGED <<planVars, windows>>
       \/ /\ \/ part = "drafts" /\ Drafts!Next
             \/ part = "previews" /\ Previews!Next
          /\ UNCHANGED <<vars, windows>>
       \/ /\ part = "schedule" /\ Schedule!Next
          /\ UNCHANGED <<vars, planVars>>
Admits == part \in AccessParts
MCSpec ==
    /\ MCInit /\ [][MCNext]_<<part, vars, planVars, windows>>
    /\ WF_vars(Admits /\ Tick)
    /\ \A r \in Requests :
         /\ WF_vars(Admits /\ Ask(r)) /\ WF_vars(Admits /\ Serve(r))
         /\ WF_vars(Admits /\ Arrive(r)) /\ WF_vars(Admits /\ Unusable(r))

-----------------------------------------------------------------------------
(* A member is admitted again and nobody else is, once keys and file rest.  *)
AdmissionSettles == Admits => AdmissionCatchesUp

(* The schedule hides no sequence behind another and leaves no lane empty   *)
(* (allocatePlanTimeline).                                                  *)
LanesAreRight == (part = "schedule") => Schedule!LanesAreRight
=============================================================================
