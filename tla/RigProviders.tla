---------------------------- MODULE RigProviders ----------------------------
(* The providers of a rig side by side: an attempt of the Acquire session,  *)
(* the camera's calls and a preflight observation.  They share nothing but  *)
(* the rig.                                                                 *)
EXTENDS AcquireProvider

CONSTANTS
    Requests, Selected, Limit, Devices,
    \* the bounds of camera and preflight
    MaxStarts, MaxSelects, MaxRestarts, MaxCuts, MaxChanges, MaxFailed

VARIABLES
    \* AlpacaCamera
    lone, sim, asked, outcomes, begun, given, aborted, selects, restarts, cuts,
    \* AlpacaPreflight
    facts, observing, snapshot, seen, changes, failed

Camera == INSTANCE AlpacaCamera
Preflight == INSTANCE AlpacaPreflight

ASSUME RigAssumption == Camera!AlpacaCameraOK /\ Preflight!AlpacaPreflightOK

RigSpec == Spec /\ Camera!Spec /\ Preflight!Spec

(* What a caller is told of a command is what the camera did, what it reads *)
(* is a whole image of one exposure, once and in order for one caller, and  *)
(* what a verdict says of the rig it was (commandOutcome, imageBytes,       *)
(* observe).                                                                *)
ProvidersTellTruth == Camera!CameraTellsTruth /\ Preflight!VerdictIsSeen
=============================================================================
