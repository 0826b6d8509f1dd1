---------------------------- MODULE FrameIntake ----------------------------
(***************************************************************************)
(* Intake of one captured frame (services/captured-frame-intake.ts): the   *)
(* image is written beside its place, renamed into it and then recorded in *)
(* the library. The origin may stop between any two of these steps, the    *)
(* disk and the database may refuse, and the caller comes again under the  *)
(* same idempotency key, with the image it has then.                       *)
(***************************************************************************)
EXTENDS Naturals

CONSTANTS
    Images,          \* the bytes a caller may bring
    Facts,           \* the facts it may bring with them, the time among them
    MaxIntakeFaults  \* bound: stops and refusals

ASSUME IntakeAssumption ==
    MaxIntakeFaults \in Nat /\ {"none", "part"} \cap Images = {}

VARIABLES
    pc,        \* where the intake is
    request,   \* what it was called with
    temporary, \* the file written first: none, part of an image, an image
    final,     \* the original in its place
    recorded,  \* library row, event and receipt: the request they are of
    orphans,   \* captured_frame_orphans: images left without a row
    intakeFaults

intakeVars ==
    <<pc, request, temporary, final, recorded, orphans, intakeFaults>>
files == <<temporary, final>>
database == <<recorded, orphans>>

Requests == [image : Images, facts : Facts]
None == [image |-> "none", facts |-> "none"]

IntakeInit ==
    /\ pc = "idle" /\ request = None
    /\ temporary = "none" /\ final = "none"
    /\ recorded = None /\ orphans = {}
    /\ intakeFaults = 0

Answer == pc' = "idle" /\ request' = None
GoOn(label) == pc' = label /\ UNCHANGED request

\* Once there is a receipt it answers its own request, refuses any other,
\* and nothing changes.
Call(r) ==
    /\ pc = "idle" /\ recorded = None
    /\ pc' = "files" /\ request' = r
    /\ UNCHANGED <<files, database, intakeFaults>>

\* An original with other bytes stays, and is noted as an orphan.
Reconcile ==
    /\ pc = "files"
    /\ CASE final \notin {"none", request.image} ->
              /\ orphans' = orphans \cup {final}
              /\ temporary' = "none"
              /\ Answer
              /\ UNCHANGED final
         [] final = request.image ->
              /\ temporary' = "none"
              /\ GoOn("commit")
              /\ UNCHANGED <<final, orphans>>
         [] final = "none" /\ temporary = request.image ->
              /\ final' = temporary /\ temporary' = "none"
              /\ GoOn("commit")
              /\ UNCHANGED orphans
         [] OTHER ->
              /\ temporary' = "none"
              /\ GoOn("write")
              /\ UNCHANGED <<final, orphans>>
    /\ UNCHANGED <<recorded, intakeFaults>>

Write ==
    /\ pc = "write"
    /\ temporary' = "part"
    /\ GoOn("written")
    /\ UNCHANGED <<final, database, intakeFaults>>

Written ==
    /\ pc = "written"
    /\ temporary' = request.image
    /\ GoOn("rename")
    /\ UNCHANGED <<final, database, intakeFaults>>

Rename ==
    /\ pc = "rename"
    /\ final' = temporary /\ temporary' = "none"
    /\ GoOn("commit")
    /\ UNCHANGED <<database, intakeFaults>>

\* Mutant: the orphan note of the original stays.
CommitNoting ==
    /\ pc = "commit"
    /\ recorded' = request
    /\ Answer
    /\ UNCHANGED <<files, orphans, intakeFaults>>

Commit ==
    /\ pc = "commit"
    /\ recorded' = request
    /\ orphans' = orphans \ {request.image}
    /\ Answer
    /\ UNCHANGED <<files, intakeFaults>>

Fault == intakeFaults < MaxIntakeFaults /\ intakeFaults' = intakeFaults + 1

WriteFails ==
    /\ pc \in {"write", "written", "rename"} /\ Fault
    /\ temporary' = "none"
    /\ Answer
    /\ UNCHANGED <<final, database>>

CommitFails ==
    /\ pc = "commit" /\ Fault
    /\ orphans' = orphans \cup {request.image}
    /\ Answer
    /\ UNCHANGED <<files, recorded>>

OriginStops ==
    /\ pc # "idle" /\ Fault
    /\ Answer
    /\ UNCHANGED <<files, database>>

IntakeNext ==
    \/ \E r \in Requests : Call(r)
    \/ Reconcile \/ Write \/ Written \/ Rename \/ Commit
    \/ WriteFails \/ CommitFails \/ OriginStops

IntakeSpec == IntakeInit /\ [][IntakeNext]_intakeVars

\* The caller comes again until it is answered, and the origin goes on.
FairIntakeSpec == IntakeSpec /\ WF_intakeVars(IntakeNext)

-----------------------------------------------------------------------------
(* Shape of the files and the records.                                     *)
IntakeTypeOK ==
    /\ request \in Requests \cup {None}
    /\ temporary \in Images \cup {"none", "part"}
    /\ final \in Images \cup {"none"}
    /\ recorded \in Requests \cup {None}
    /\ orphans \subseteq Images

(* The library never shows a frame whose original is missing or other than *)
(* it says.                                                                *)
RecordedHasBytes == recorded # None => final = recorded.image

(* An original once in its place is whole and is never replaced.           *)
OriginalStays == [][final # "none" => final' = final]_final

(* A frame known to the library is no orphan of it.                        *)
NoRecordedOrphan == recorded # None => recorded.image \notin orphans

(* A frame of the library has its original, which is no orphan             *)
(* (materializeCapturedFrame, its reconciliation).                         *)
IntakeIsSound == IntakeTypeOK /\ RecordedHasBytes /\ NoRecordedOrphan

(* A caller that brings the same image again is served in the end, where   *)
(* ever the intake stopped before.                                         *)
RetryIsRetained == <>(recorded # None)
=============================================================================
