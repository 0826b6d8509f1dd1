-------------------------------- MODULE Origin --------------------------------
(* An origin and the Plan page of a browser it has admitted: the door every *)
(* request passes, and the page's requests between snapshot and click.      *)
EXTENDS AccessAdmission

CONSTANTS
  Edits,  \* changes a person can make to a sequence
  \* the bounds of the page
  MaxSaves, MaxPreviews, MaxMoves, MaxTurns, MaxLost

VARIABLES server, snap, shown, draft, confirm, planPending, phone, stray,
  turns, lost

Plan == INSTANCE PlanPage WITH MaxRevision <- MaxSaves, pending <- planPending

ASSUME PlanAssumption == Plan!PlanPageOK

(* The Plan page does what it showed the person who pressed, and a draft is *)
(* made from the revision the page shows (submit and prepareAction).        *)
PlanIsAsShown == Plan!PlanIsAsShown
=============================================================================
