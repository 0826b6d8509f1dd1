------------------------------- MODULE MCBrowser -------------------------------
(* The parts of the workspace in the browser for TLC: the open Project, the  *)
(* live projection, the review of an Asset, the intake of Assets into        *)
(* Processing.  A behaviour follows one part while the others rest in an     *)
(* initial state.                                                            *)
EXTENDS Browser

VARIABLE part

deskVars ==
    <<truth, notices, cursor, announced, lastBootstrapCursor, currentRoute,
      routeGeneration, processPairCommitGeneration, process, calls, operations,
      deskFailures, restarts>>
liveVars ==
    <<liveTruth, owed, emitted, connection, stream, messages, errors, client,
      fiber, command, commands>>
reviewVars ==
    <<reviewTruth, reviewRoute, reviewGeneration, libraryDetail, detailFiber,
      reviews, latestReviewOperation, panel, submitted, reviewedElsewhere,
      reviewFailures>>
takingVars ==
    <<receipts, created, revision, known, refused, listGeneration,
      processListReadGeneration, listed, processFiber,
      pendingProjectCreations, intents, intakes, message, left, additions,
      addedElsewhere, intakeFailures>>

\* One Project whose page settles (Settles asks nothing of a late bootstrap).
OneProject == INSTANCE ProjectDesk WITH
    Projects <- {"a"}, MaxFailures <- MaxFailing, LateBootstrap <- FALSE,
    failures <- deskFailures

\* Commands of the browser; faults of the line; a line that recovers.
Commanding == INSTANCE LiveProjection WITH
    MaxChanges <- 2, MaxErrors <- 1, MaxCommands <- 1, Capacity <- 2,
    Kinds <- {"Control", "Plan", "Preview", "Observe", "Preflight"},
    Faults <- {"Purge", "Refuse", "Stall", "Fail"}, truth <- liveTruth
Faulty == INSTANCE LiveProjection WITH
    MaxChanges <- 3, MaxErrors <- 2, MaxCommands <- 0, Capacity <- 2,
    Kinds <- {}, Faults <- {"Purge", "Refuse", "Stall", "Fail"},
    truth <- liveTruth
Listening == INSTANCE LiveProjection WITH
    MaxChanges <- 3, MaxErrors <- 2, MaxCommands <- 0, Capacity <- 12,
    Kinds <- {}, Faults <- {}, truth <- liveTruth

\* Reviews of two Assets; a panel of one of them.
Reviewing == INSTANCE AssetReview WITH
    Assets <- {"a", "b"}, MaxRoutes <- 3, MaxReviews <- 2,
    MaxElsewhere <- 0, MaxFailures <- 1,
    truth <- reviewTruth, currentRoute <- reviewRoute,
    routeGeneration <- reviewGeneration, elsewhere <- reviewedElsewhere,
    failures <- reviewFailures
OneAsset == INSTANCE AssetReview WITH
    Assets <- {"a"}, MaxRoutes <- 3, MaxReviews <- 2,
    MaxElsewhere <- 1, MaxFailures <- 1,
    truth <- reviewTruth, currentRoute <- reviewRoute,
    routeGeneration <- reviewGeneration, elsewhere <- reviewedElsewhere,
    failures <- reviewFailures

\* Two forms at once; a service that refuses; a creation tried again.
Adding == INSTANCE ProjectIntake WITH
    Keys <- {"k"}, Projects <- {"p"}, Forms <- {"library", "source"},
    MaxIntents <- 2, MaxAdditions <- 1, MaxElsewhere <- 1, MaxRoutes <- 2,
    MaxFailures <- 1, Refusals <- FALSE,
    routeGeneration <- listGeneration, process <- listed,
    elsewhere <- addedElsewhere, failures <- intakeFailures
Refusing == INSTANCE ProjectIntake WITH
    Keys <- {"k"}, Projects <- {"p"}, Forms <- {"library"},
    MaxIntents <- 2, MaxAdditions <- 1, MaxElsewhere <- 1, MaxRoutes <- 2,
    MaxFailures <- 1, Refusals <- TRUE,
    routeGeneration <- listGeneration, process <- listed,
    elsewhere <- addedElsewhere, failures <- intakeFailures
Creating == INSTANCE ProjectIntake WITH
    Keys <- {"k"}, Projects <- {}, Forms <- {"library"},
    MaxIntents <- 3, MaxAdditions <- 0, MaxElsewhere <- 0, MaxRoutes <- 2,
    MaxFailures <- 2, Refusals <- FALSE,
    routeGeneration <- listGeneration, process <- listed,
    elsewhere <- addedElsewhere, failures <- intakeFailures

ASSUME PartsAssumption ==
    /\ OneProject!DeskAssumption
    /\ Commanding!LiveAssumption /\ Faulty!LiveAssumption
    /\ Listening!LiveAssumption
    /\ Reviewing!ReviewAssumption /\ OneAsset!ReviewAssumption
    /\ Adding!TakingAssumption /\ Refusing!TakingAssumption
    /\ Creating!TakingAssumption

DeskParts == {"desk", "project"}
LiveParts == {"commanding", "faulty", "listening"}
ReviewParts == {"reviewing", "panel"}
TakingParts == {"adding", "refusing", "creating"}

\* What the service, the line and the browser do by themselves.
DeskGoesOn == part = "project" /\ OneProject!GoesOn
PanelGoesOn == part = "panel" /\ OneAsset!GoesOn
LiveGoesOn ==
    \/ part = "commanding" /\ Commanding!GoesOn
    \/ part = "faulty" /\ Faulty!GoesOn
    \/ part = "listening" /\ Listening!GoesOn

MCInit ==
    /\ part \in DeskParts \cup LiveParts \cup ReviewParts \cup TakingParts
    /\ IF part = "desk" THEN Desk!Init ELSE OneProject!Init
    /\ IF part \in {"commanding", "faulty"} THEN Faulty!Init
       ELSE Listening!Init
    /\ IF part = "reviewing" THEN Reviewing!Init ELSE OneAsset!Init
    /\ CASE part = "adding" -> Adding!Init
         [] part = "refusing" -> Refusing!Init
         [] OTHER -> Creating!Init
MCNext ==
    /\ UNCHANGED part
    /\ \/ /\ \/ part = "desk" /\ Desk!Next
             \/ part = "project" /\ OneProject!Next
          /\ UNCHANGED <<liveVars, reviewVars, takingVars>>
       \/ /\ \/ part = "commanding" /\ Commanding!Next
             \/ part = "faulty" /\ Faulty!Next
             \/ part = "listening" /\ Listening!Next
          /\ UNCHANGED <<deskVars, reviewVars, takingVars>>
       \/ /\ \/ part = "reviewing" /\ Reviewing!Next
             \/ part = "panel" /\ OneAsset!Next
          /\ UNCHANGED <<deskVars, liveVars, takingVars>>
       \/ /\ \/ part = "adding" /\ Adding!Next
             \/ part = "refusing" /\ Refusing!Next
             \/ part = "creating" /\ Creating!Next
          /\ UNCHANGED <<deskVars, liveVars, reviewVars>>
MCSpec ==
    /\ MCInit
    /\ [][MCNext]_<<part, deskVars, liveVars, reviewVars, takingVars>>
    \* ProjectDesk, LiveProjection, AssetReview: FairSpec
    /\ WF_deskVars(DeskGoesOn)
    /\ WF_liveVars(LiveGoesOn)
    /\ WF_reviewVars(PanelGoesOn)
    \* ProjectIntake: FairSpec
    /\ WF_takingVars(part = "creating" /\ Creating!ListRead)
    /\ WF_takingVars(part = "creating" /\ Creating!loadProcess)
    /\ WF_takingVars(part = "creating" /\ Creating!Answered("library"))
    /\ WF_takingVars(part = "creating" /\ Creating!Intake("library"))

-----------------------------------------------------------------------------
(* The variables keep their shape (TypeOK of the parts).                    *)
PartsTyped ==
    /\ IF part = "desk" THEN Desk!TypeOK ELSE OneProject!TypeOK
    /\ part \in LiveParts => Faulty!TypeOK \/ Commanding!TypeOK
         \/ Listening!TypeOK
    /\ part = "reviewing" => Reviewing!TypeOK
    /\ part = "adding" => Adding!TypeOK
    /\ part = "refusing" => Refusing!TypeOK

(* The page of a Project settles on what the service has announced or later  *)
(* has (publishProjectPair and the bootstrap states that read the pair       *)
(* again), also with a service that restarts and loses its notices.          *)
PageSettles == (part = "project") => OneProject!Settles

(* The browser shows the service's truth in the end, or one of the named     *)
(* ways not to has happened (CatchesUp of the parts, as one formula).        *)
BrowserCatchesUp ==
    (part \in LiveParts) =>
      \/ <>(IF part = "listening" THEN Listening!Lapses ELSE Faulty!Lapses)
      \/ <>[](IF part = "listening" THEN Listening!CaughtUp
             ELSE Faulty!CaughtUp)

(* A waiting panel and a loading detail are released (Told, loadDetail).    *)
PanelIsReleased == (part = "panel") => OneAsset!Released

(* A creation that is tried again goes through (CreateProject, create).     *)
CreationGoesThrough == (part = "creating") => Creating!IntakeGoesThrough

(* Every page settles: the Project is shown as it was announced or is, the   *)
(* panel released, the creation accepted, the projection at the service's    *)
(* cursor unless the line was cut, the queue overflowed or a load was        *)
(* overtaken; the variables keep their shape meanwhile.                      *)
PagesSettle ==
  /\ []PartsTyped /\ PageSettles /\ PanelIsReleased /\ CreationGoesThrough
  /\ BrowserCatchesUp
=============================================================================
