------------------------- MODULE MCAcquireProvider -------------------------
(* The providers of a rig for TLC.  A behaviour follows one scenario: two   *)
(* calls of the configured provider, one call with stops, one beside direct *)
(* exposures, the development simulation (attempts, by its setting), the    *)
(* camera's calls of one caller or several, or a preflight observation; the *)
(* parts a scenario does not follow rest in their initial state.            *)
EXTENDS RigProviders

VARIABLE scenario

Centring == <<"initial", "correct", "image">>

Two == [configured |-> TRUE, direct |-> FALSE, calls |-> {"a", "b"},
        faults |-> 2]
Alone == [configured |-> TRUE, direct |-> FALSE, calls |-> {"a"},
          faults |-> 4]
Shared == [Alone EXCEPT !.direct = TRUE]
Simulated == [Two EXCEPT !.configured = FALSE]
AllSettings == {Two, Alone, Shared, Simulated}

RigDevices == <<"camera", "telescope", "focuser">>
\* What is selected for one caller, and for several.
CallerScenarios == {"focus-quality-degradation", "reconciliation-failure"}
CallersScenarios == {"ready-rig", "provider-error", "retrieval-failure",
                     "retrieval-oversize"}
AllSelected == CallerScenarios \cup CallersScenarios

cameraVars == <<lone, sim, asked, outcomes, begun, given, aborted, selects,
                restarts, cuts>>
preflightVars == <<facts, observing, snapshot, seen, changes, failed>>

MCInit ==
    /\ Init /\ Camera!Init /\ Preflight!Init
    /\ \/ scenario \in {"caller", "callers", "preflight"} /\ setting = Alone
       \/ scenario = "alone" /\ setting = Alone
       \/ scenario = "attempts" /\ setting # Alone
    /\ IF scenario = "callers"
       THEN ~lone /\ sim.scenario \in CallersScenarios
       ELSE lone /\ sim.scenario \in CallerScenarios
    /\ scenario # "caller" => sim.scenario # "reconciliation-failure"

\* One caller uses one slot, its connections hold, and nobody selects.
Caller ==
    /\ Camera!Next
    /\ asked'["s"].at = "none" /\ selects' = 0 /\ cuts' = 0
Callers ==
    /\ Camera!Next
    /\ begun' <= 2 /\ restarts' = 0 /\ sim'.scenario \in CallersScenarios

MCNext ==
    /\ UNCHANGED scenario
    /\ \/ /\ scenario \in {"alone", "attempts"} /\ Next
          /\ UNCHANGED <<cameraVars, preflightVars>>
       \/ /\ \/ scenario = "caller" /\ Caller
             \/ scenario = "callers" /\ Callers
          /\ UNCHANGED <<setting, vars, preflightVars>>
       \/ /\ scenario = "preflight" /\ Preflight!Next
          /\ UNCHANGED <<setting, vars, cameraVars>>
MCSpec ==
    /\ MCInit
    /\ [][MCNext]_<<scenario, setting, vars, cameraVars, preflightVars>>
    /\ WF_vars(scenario = "alone" /\ Rig)
    /\ WF_vars(scenario = "alone" /\ ReturnRecorded)
    /\ WF_vars(scenario = "alone" /\ Begin("a"))
    /\ WF_vars(scenario = "alone" /\ Step("a"))

-----------------------------------------------------------------------------
(* A retained frame is solved across failures and stops (RetainedIsSolved). *)
AloneRetainedIsSolved == (scenario = "alone") => RetainedIsSolved
=============================================================================
