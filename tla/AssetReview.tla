----------------------------- MODULE AssetReview -----------------------------
(* Reviewing an Asset in the Library: the detail the runtime shows, the     *)
(* reviews in flight and the panel that submits them.                       *)
(*                                                                          *)
(* One number stands for the revisions of an Asset and of its review: the   *)
(* service accepts a review only when both are the ones the page shows.     *)
EXTENDS Integers, FiniteSets

CONSTANTS
  Assets,
  MaxRoutes,       \* bound: route changes
  MaxReviews,      \* bound: reviews submitted
  MaxElsewhere,    \* bound: changes by others
  MaxFailures      \* bound: requests that fail

ReviewAssumption ==
  /\ {MaxRoutes, MaxReviews, MaxElsewhere, MaxFailures} \subseteq Nat
  /\ Assets \cap {"Library", "Nothing"} = {}

VARIABLES
  truth,           \* revision of each Asset's review at the service
  currentRoute,    \* the Asset of the route, or Library
  routeGeneration,
  libraryDetail,   \* the detail the runtime shows
  detailFiber,     \* the read of the route's detail, if one is under way
  reviews,         \* the reviews in flight
  latestReviewOperation,
  panel,           \* the review panel of the page
  submitted, elsewhere, failures

runtime == <<currentRoute, routeGeneration, latestReviewOperation>>
bounds == <<submitted, elsewhere, failures>>
vars == <<truth, runtime, libraryDetail, detailFiber, reviews, panel, bounds>>

Revisions == 0..(MaxReviews + MaxElsewhere)
Unread == -1
Operations == 1..MaxReviews
NoRead == [assetId |-> "Nothing"]
NoReview == [at |-> "None"]
NoDetail == [assetId |-> "Nothing", revision |-> 0, state |-> "shown"]

Seen(detail) == <<detail.assetId, detail.revision>>
Mounted(mount, detail) ==
  [mount |-> mount, seen |-> Seen(detail), pending |-> 0, result |-> "none"]

TypeOK ==
  /\ truth \in [Assets -> Revisions]
  /\ currentRoute \in Assets \cup {"Library"}
  /\ routeGeneration \in 0..MaxRoutes
  /\ libraryDetail \in [assetId : Assets \cup {"Nothing"},
                        revision : Revisions,
                        state : {"shown", "loading", "unavailable"}]
  /\ detailFiber = NoRead \/
     detailFiber \in [assetId : Assets, generation : 0..MaxRoutes,
                      revision : Revisions \cup {Unread}]
  /\ \A o \in Operations :
       reviews[o] = NoReview \/
       reviews[o] \in [at : {"Sent", "Accepted", "Failed", "Read", "Saved",
                             "NotSaved"},
                       assetId : Assets, generation : 0..MaxRoutes,
                       mount : Nat, expected : Revisions,
                       revision : Revisions]
  /\ latestReviewOperation \in 0..MaxReviews
  /\ panel.pending \in 0..MaxReviews
  /\ panel.result \in {"none", "saved", "notSaved"}
  /\ submitted \in 0..MaxReviews
  /\ elsewhere \in 0..MaxElsewhere /\ failures \in 0..MaxFailures

Init ==
  /\ truth = [a \in Assets |-> 0]
  /\ currentRoute = "Library" /\ routeGeneration = 0
  /\ libraryDetail = NoDetail /\ detailFiber = NoRead
  /\ reviews = [o \in Operations |-> NoReview]
  /\ latestReviewOperation = 0
  /\ panel = Mounted(0, NoDetail)
  /\ submitted = 0 /\ elsewhere = 0 /\ failures = 0

Failing ==
  /\ failures < MaxFailures
  /\ failures' = failures + 1
  /\ UNCHANGED <<submitted, elsewhere>>

-----------------------------------------------------------------------------
(* The route and its detail                                                 *)

(* Another client reviews the Asset, or a worker revises it.                *)
ChangedElsewhere(a) ==
  /\ elsewhere < MaxElsewhere
  /\ elsewhere' = elsewhere + 1
  /\ truth' = [truth EXCEPT ![a] = @ + 1]
  /\ UNCHANGED <<runtime, libraryDetail, detailFiber, reviews, panel,
                 submitted, failures>>

(* A detail of the same Asset is kept while it is read again; any other is  *)
(* dropped, and its panel with it.                                          *)
routeChanged(route) ==
  /\ routeGeneration < MaxRoutes
  /\ routeGeneration' = routeGeneration + 1
  /\ currentRoute' = route
  /\ LET kept == route # "Library" /\ libraryDetail.assetId = route
         detail == IF kept THEN libraryDetail ELSE NoDetail
     IN  /\ libraryDetail' = [detail EXCEPT !.state =
                                IF route = "Library" THEN "shown"
                                ELSE "loading"]
         /\ panel' = IF kept THEN panel ELSE Mounted(panel.mount + 1, detail)
  /\ detailFiber' = IF route = "Library" THEN NoRead
                    ELSE [assetId |-> route, revision |-> Unread,
                          generation |-> routeGeneration + 1]
  /\ UNCHANGED <<truth, reviews, latestReviewOperation, bounds>>

DetailRead ==
  /\ detailFiber # NoRead
  /\ detailFiber.revision = Unread
  /\ detailFiber' = [detailFiber EXCEPT !.revision =
                       truth[detailFiber.assetId]]
  /\ UNCHANGED <<truth, runtime, libraryDetail, reviews, panel, bounds>>

Show(assetId, revision) ==
  libraryDetail' = [assetId |-> assetId, revision |-> revision,
                    state |-> "shown"]

loadDetail ==
  /\ detailFiber # NoRead
  /\ detailFiber' = NoRead
  /\ LET owns == detailFiber.generation = routeGeneration
     IN  \/ /\ detailFiber.revision # Unread
            /\ IF owns THEN Show(detailFiber.assetId, detailFiber.revision)
               ELSE UNCHANGED libraryDetail
            /\ UNCHANGED bounds
         \/ /\ Failing
            /\ libraryDetail' =
                 IF owns THEN [libraryDetail EXCEPT !.state = "unavailable"]
                 ELSE libraryDetail
  /\ UNCHANGED <<truth, runtime, reviews, panel>>

-----------------------------------------------------------------------------
(* Reviews                                                                  *)

(* The panel submits one review at a time of a detail that is shown.        *)
ReviewCurrentLibraryAsset ==
  /\ submitted < MaxReviews
  /\ currentRoute \in Assets
  /\ libraryDetail.assetId = currentRoute
  /\ libraryDetail.state = "shown"
  /\ panel.pending = 0
  /\ submitted' = submitted + 1
  /\ latestReviewOperation' = submitted'
  /\ panel' = [panel EXCEPT !.pending = submitted', !.result = "none"]
  /\ reviews' = [reviews EXCEPT ![submitted'] =
       [at |-> "Sent", assetId |-> currentRoute,
        generation |-> routeGeneration, mount |-> panel.mount,
        expected |-> libraryDetail.revision, revision |-> 0]]
  /\ UNCHANGED <<truth, currentRoute, routeGeneration, libraryDetail,
                 detailFiber, elsewhere, failures>>

(* The service commits a review of what it has; the answer, or the request, *)
(* may be lost.                                                             *)
review(o) ==
  /\ reviews[o].at = "Sent"
  /\ LET a == reviews[o].assetId
         current == reviews[o].expected = truth[a]
     IN  \/ /\ current
            /\ truth' = [truth EXCEPT ![a] = @ + 1]
            /\ \/ /\ reviews' = [reviews EXCEPT
                       ![o].at = "Accepted", ![o].revision = truth[a] + 1]
                  /\ UNCHANGED bounds
               \/ reviews' = [reviews EXCEPT ![o].at = "Failed"] /\ Failing
         \/ /\ reviews' = [reviews EXCEPT ![o].at = "Failed"]
            /\ current => Failing
            /\ ~current => UNCHANGED bounds
            /\ UNCHANGED truth
  /\ UNCHANGED <<runtime, libraryDetail, detailFiber, panel>>

ownsCurrentAssetRoute(o) ==
  /\ reviews[o].generation = routeGeneration
  /\ currentRoute = reviews[o].assetId
  /\ latestReviewOperation = o

AcceptedReview(o) ==
  /\ reviews[o].at = "Accepted"
  /\ reviews' = [reviews EXCEPT ![o].at = "Saved"]
  /\ IF ownsCurrentAssetRoute(o)
        /\ libraryDetail.assetId = reviews[o].assetId
     THEN Show(reviews[o].assetId, reviews[o].revision)
     ELSE UNCHANGED libraryDetail
  /\ UNCHANGED <<truth, runtime, detailFiber, panel, bounds>>

(* A review that failed reads the detail again.                             *)
ReconcileRead(o) ==
  /\ reviews[o].at = "Failed"
  /\ reviews' = [reviews EXCEPT ![o].at = "Read",
                                ![o].revision = truth[reviews[o].assetId]]
  /\ UNCHANGED <<truth, runtime, libraryDetail, detailFiber, panel, bounds>>

Reconciled(o) ==
  /\ reviews' = [reviews EXCEPT ![o].at = "NotSaved"]
  /\ LET owns == ownsCurrentAssetRoute(o)
     IN  \/ /\ reviews[o].at = "Read"
            /\ IF owns THEN Show(reviews[o].assetId, reviews[o].revision)
               ELSE UNCHANGED libraryDetail
            /\ UNCHANGED bounds
         \/ /\ reviews[o].at = "Failed"
            /\ Failing
            /\ libraryDetail' =
                 IF owns THEN [libraryDetail EXCEPT !.state = "unavailable"]
                 ELSE libraryDetail
  /\ UNCHANGED <<truth, runtime, detailFiber, panel>>

(* The panel that submitted the review, if it is still there, says how it   *)
(* went.                                                                    *)
Told(o) ==
  /\ reviews[o].at \in {"Saved", "NotSaved"}
  /\ reviews' = [reviews EXCEPT ![o] = NoReview]
  /\ panel' = IF reviews[o].mount # panel.mount THEN panel
              ELSE [panel EXCEPT !.pending = 0, !.result =
                      IF reviews[o].at = "Saved" THEN "saved"
                      ELSE "notSaved"]
  /\ UNCHANGED <<truth, runtime, libraryDetail, detailFiber, bounds>>

(* A panel starts anew when the review it shows is another one.             *)
PanelReset ==
  /\ panel.seen # Seen(libraryDetail)
  /\ panel' = Mounted(panel.mount, libraryDetail)
  /\ UNCHANGED <<truth, runtime, libraryDetail, detailFiber, reviews, bounds>>

-----------------------------------------------------------------------------
Answered(o) ==
  review(o) \/ AcceptedReview(o) \/ ReconcileRead(o) \/ Reconciled(o) \/ Told(o)

Next ==
  \/ \E a \in Assets : ChangedElsewhere(a)
  \/ \E route \in Assets \cup {"Library"} : routeChanged(route)
  \/ DetailRead \/ loadDetail
  \/ ReviewCurrentLibraryAsset \/ PanelReset
  \/ \E o \in Operations : Answered(o)

Spec == Init /\ [][Next]_vars

(* Requests are answered or fail, and React runs its effects.               *)
GoesOn ==
  \/ DetailRead \/ loadDetail \/ PanelReset
  \/ \E o \in Operations : Answered(o)

FairSpec == Spec /\ WF_vars(GoesOn)

-----------------------------------------------------------------------------
(* A detail is of the Asset the route names: no late answer shows another   *)
(* Asset (ownsCurrentAssetRoute).                                           *)
DetailOfRoute ==
  libraryDetail.assetId \in {currentRoute, "Nothing"}

(* The review that is shown of an Asset never becomes an older one,         *)
(* whatever reviews and reads overlap.                                      *)
ReviewNeverOlder ==
  [][libraryDetail'.assetId = libraryDetail.assetId
       => libraryDetail'.revision >= libraryDetail.revision]_vars

(* A panel that waits for a review is released in the end, and a detail     *)
(* that is being read is shown or said to be unavailable.                   *)
Released ==
  /\ panel.pending # 0 ~> panel.pending = 0
  /\ libraryDetail.state = "loading" ~> libraryDetail.state # "loading"
=============================================================================
