------------------------------ MODULE MCLibrary ------------------------------
(* The parts of the Library's service for TLC: the publisher with its        *)
(* outbox, the intake of captured frames, the previews of frames.  A         *)
(* behaviour follows one part while the others rest in their initial state.  *)
EXTENDS Publisher, FrameIntake

VARIABLES
    part,
    now, activePreviews, lastDelivered, reading

previewVars == <<now, activePreviews, lastDelivered, reading>>

\* Two works for one asset, one for another, one for an asset without a row;
\* or the third fails for ever.
GoodWorks == <<[asset |-> "m", sum |-> "x"], [asset |-> "n", sum |-> "y"],
               [asset |-> "m", sum |-> "x"], [asset |-> "u", sum |-> "x"]>>
TailWorks == <<[asset |-> "m", sum |-> "x"], [asset |-> "n", sum |-> "y"],
               [asset |-> "m", sum |-> "z"], [asset |-> "u", sum |-> "x"]>>
Files == [a \in Assets |-> IF a = "n" THEN "y" ELSE "x"]

Pair == INSTANCE Publisher WITH MaxFaults <- 1, MaxReviews <- 0
Alone == INSTANCE Publisher WITH Workers <- {"p"}
Poisoned == INSTANCE Publisher WITH Workers <- {"p"}, Works <- TailWorks

TwoImages == INSTANCE FrameIntake WITH MaxIntakeFaults <- 4
OneImage == INSTANCE FrameIntake WITH Images <- {"x"}
Preview == INSTANCE LibraryPreview WITH
    Clients <- {"a", "b"}, Requests <- {1, 2, 3}, Limit <- 2, Refresh <- 2,
    MaxNow <- 4

ASSUME PreviewsAssumption == Preview!PreviewAssumption

MCInit ==
    /\ part \in {"publisher", "alone", "poisoned", "intake", "again", "preview"}
    /\ IF part \in {"alone", "poisoned"} THEN Alone!Init ELSE Init
    /\ IntakeInit /\ Preview!Init
MCNext ==
    /\ UNCHANGED part
    /\ \/ /\ \/ part = "publisher" /\ Pair!Next
             \/ part = "alone" /\ Alone!Next
             \/ part = "poisoned" /\ Poisoned!Next
          /\ UNCHANGED <<intakeVars, previewVars>>
       \/ /\ \/ part = "intake" /\ TwoImages!IntakeNext
             \/ part = "again" /\ OneImage!IntakeNext
          /\ UNCHANGED <<vars, previewVars>>
       \/ /\ part = "preview" /\ Preview!Next
          /\ UNCHANGED <<vars, intakeVars>>
MCSpec ==
    /\ MCInit /\ [][MCNext]_<<part, vars, intakeVars, previewVars>>
    /\ WF_vars(part = "alone" /\ Alone!Step("p"))
    /\ \A i \in Ids : WF_vars(part = "alone" /\ Alone!LeaseLapses(i))
    /\ WF_intakeVars(part = "again" /\ OneImage!IntakeNext)

-----------------------------------------------------------------------------
(* Of what a publisher that lost its claim still does, its record alone     *)
(* reaches an asset that is dispatched (StaleWorkIsQuiet), and with one     *)
(* publisher, which loses no claim, a download stays (KeepsPublished).      *)
PublishedStays ==
    [][/\ part \in {"publisher", "alone", "poisoned"} => StaleWorkIsQuiet
       /\ part = "alone" => KeepsPublished]_vars

(* Good work is published across stops and failures (GoodWorkIsPublished).  *)
AloneIsPublished == (part = "alone") => Alone!GoodWorkIsPublished

(* A caller that brings the same image again is served (the receipt, the    *)
(* reconciliation).                                                         *)
RetriesAreRetained == (part = "again") => RetryIsRetained

(* Places for previews do not leak (the finalizer of the preview).          *)
PlacesAreTaken == Preview!PlacesAreTaken

(* What two publishers, of which one lost its claim, do to an asset that is *)
(* dispatched is no more than record its publication anew; an original that *)
(* is in its place stays there; a place for previews is held only by a      *)
(* preview that is running (settleFailure, settlePublished, the rename of   *)
(* an original, the finalizer of a preview).                                *)
KeptForGood == PublishedStays /\ OriginalStays /\ []PlacesAreTaken

(* Good work is published and a repeated frame retained in the end.         *)
WorkGetsDone == AloneIsPublished /\ RetriesAreRetained
=============================================================================
