------------------------------- MODULE Browser -------------------------------
(* The workspace in the browser: the page of an open Project, the live      *)
(* projection, the review of an Asset and the intake of Assets into         *)
(* Processing.  The parts share nothing but the page they are on, so the    *)
(* browser does what each of them does.                                     *)
EXTENDS Integers, Sequences, FiniteSets

CONSTANTS
  Projects, Assets, Keys, Forms,
  Kinds, Faults, Capacity, LateBootstrap, Refusals,
  \* the bounds of the parts
  MaxRevision, MaxOperations, MaxRestarts, MaxChanges, MaxErrors, MaxCommands,
  MaxReviews, MaxIntents, MaxAdditions, MaxRoutes, MaxFailing, MaxElsewhere

VARIABLES
  \* ProjectDesk
  truth, notices, cursor, announced, lastBootstrapCursor, currentRoute, routeGeneration,
  processPairCommitGeneration, process, calls, operations, deskFailures,
  restarts,
  \* LiveProjection
  liveTruth, owed, emitted, connection, stream, messages, errors, client,
  fiber, command, commands,
  \* AssetReview
  reviewTruth, reviewRoute, reviewGeneration, libraryDetail, detailFiber,
  reviews, latestReviewOperation, panel, submitted, reviewedElsewhere,
  reviewFailures,
  \* ProjectIntake
  receipts, created, revision, known, refused, listGeneration,
  processListReadGeneration, listed, processFiber, pendingProjectCreations,
  intents, intakes, message, left, additions, addedElsewhere, intakeFailures

Desk == INSTANCE ProjectDesk WITH
  MaxFailures <- MaxFailing, failures <- deskFailures
Live == INSTANCE LiveProjection WITH truth <- liveTruth
Review == INSTANCE AssetReview WITH
  MaxFailures <- MaxFailing, truth <- reviewTruth, currentRoute <- reviewRoute,
  routeGeneration <- reviewGeneration, elsewhere <- reviewedElsewhere,
  failures <- reviewFailures
Taking == INSTANCE ProjectIntake WITH
  MaxFailures <- MaxFailing,
  routeGeneration <- listGeneration, process <- listed,
  elsewhere <- addedElsewhere, failures <- intakeFailures

ASSUME BrowserAssumption ==
  /\ Desk!DeskAssumption /\ Live!LiveAssumption
  /\ Review!ReviewAssumption /\ Taking!TakingAssumption

BrowserSpec == Desk!Spec /\ Live!Spec /\ Review!Spec /\ Taking!Spec

-----------------------------------------------------------------------------
(* What a page shows as current is of its route, and a browser that waits   *)
(* for a whole snapshot does not count as current (routeChanged,            *)
(* ownsCurrentAssetRoute, receiveEvent).                                    *)
PagesAreRouted ==
  /\ Desk!RoutedProject /\ Review!DetailOfRoute /\ Live!WaitingIsNotCurrent

(* A repeated creation makes no second Project (pendingProjectCreations).   *)
CreatedOnce == Taking!CreatedOnce

(* No late read, event, answer or failure overtakes a newer one: nothing    *)
(* the browser shows becomes older or unavailable by it (ownsResult,        *)
(* receiveDecodedEvent, ownsCurrentAssetRoute, ownsProcessListRead).  The   *)
(* live snapshot alone may fall back, when a load that was overtaken ends   *)
(* (installSnapshot), but not behind what was shown when the load began.    *)
NothingOvertakes ==
  /\ Desk!ShownNeverOlder /\ Desk!NoLateFailure
  /\ Live!KeepsForward /\ Live!KeepsShown /\ Live!RecoversBySnapshot
  /\ Review!ReviewNeverOlder /\ Taking!ListNeverOlder
=============================================================================
