---------------------------- MODULE AlpacaCamera ----------------------------
(***************************************************************************)
(* The camera provider's calls (providers/alpaca-camera-provider.ts) and   *)
(* the simulator that answers them (simulator/alpaca-simulator.ts).  The   *)
(* simulator decides on a request, waits for its body or for a file, and   *)
(* only then changes its state; the provider makes an outcome of what the  *)
(* connection brings: whole, cut short, or longer than was declared.       *)
(***************************************************************************)
EXTENDS Naturals, FiniteSets

CONSTANTS
  Requests,   \* requests the simulator may have in hand at once
  Selected,   \* the simulation scenarios somebody selects
  Limit,      \* maxImageBytes, in chunks of a body
  MaxStarts,  \* bound: exposures begun
  MaxSelects, \* bound: scenarios selected
  MaxRestarts, \* bound: restarts of the simulated camera
  MaxCuts     \* bound: connections cut

VARIABLES
  lone,     \* one caller, who awaits each call before the next, for good
  sim,      \* SimulatorState, and the number of its last exposure
  asked,    \* the requests: where the simulator is, whether the caller waits
  outcomes, \* what the provider made of a slot's last call
  begun,    \* exposures begun
  given,    \* how often the image of an exposure was written, and its frame
  aborted,  \* exposures aborted
  selects, restarts, cuts

hands == <<lone, selects, restarts, cuts>>
device == <<sim, begun, given, aborted>>
cameraVars == <<device, asked, outcomes, hands>>

\* The scenarios that differ at the camera; the others are as ready-rig.
SimulationScenarios ==
  {"ready-rig", "provider-error", "retrieval-failure", "retrieval-oversize",
   "reconciliation-failure", "target-evidence-progression",
   "solve-success-no-solution", "focus-quality-degradation"}

ScenarioFrames(s) ==
  CASE s = "solve-success-no-solution"   -> 4
    [] s = "target-evidence-progression" -> 3
    [] s = "focus-quality-degradation"   -> 2
    [] OTHER                             -> 1

AlpacaCameraOK ==
  /\ IsFiniteSet(Requests)
  /\ Selected \subseteq SimulationScenarios
  /\ {Limit, MaxStarts, MaxSelects, MaxRestarts, MaxCuts} \subseteq Nat

Kinds == {"start", "abort", "state", "image"}
Starts == 1 .. MaxStarts
\* did: the request changed the camera; of: the exposure it was decided on.
Unasked == [at |-> "none", kind |-> "none", waits |-> FALSE, did |-> FALSE,
            of |-> 0, answer |-> "none", declared |-> 0, rest |-> 0,
            got |-> 0]
None == [tag |-> "none", kind |-> "none", did |-> FALSE, of |-> 0, size |-> 0]

Fresh(s) ==
  [scenario |-> s, phase |-> "idle", ready |-> FALSE, exposure |-> 0,
   cursor |-> 0, logged |-> FALSE]

Init ==
  /\ lone \in BOOLEAN
  /\ sim \in {Fresh(s) : s \in Selected}
  /\ asked = [r \in Requests |-> Unasked]
  /\ outcomes = [r \in Requests |-> None]
  /\ begun = 0 /\ given = [e \in Starts |-> [times |-> 0, frame |-> 0]]
  /\ aborted = {} /\ selects = 0 /\ restarts = 0 /\ cuts = 0

-----------------------------------------------------------------------------
\* The provider calls, and the simulator takes the request.

At(r, at) == asked[r].at = at

Call(r, kind) ==
  /\ At(r, "none")
  /\ lone => \A q \in Requests : ~asked[q].waits
  /\ asked' = [asked EXCEPT ![r] = [Unasked EXCEPT
       !.at = "sent", !.waits = TRUE, !.kind = kind]]
  /\ outcomes' = [outcomes EXCEPT ![r] = None]
  /\ UNCHANGED <<device, hands>>

Answer(r, answer) ==
  asked' = [asked EXCEPT ![r].at = "answered", ![r].answer = answer]
Refuse(r) == Answer(r, "error") /\ UNCHANGED device
Wait(r, at) ==
  /\ asked' = [asked EXCEPT ![r].at = at, ![r].of = sim.exposure]
  /\ UNCHANGED device
Did(r, answer) ==
  asked' = [asked EXCEPT ![r].at = "answered", ![r].answer = answer,
                         ![r].did = TRUE]
Cleared == [sim EXCEPT !.phase = "idle", !.ready = FALSE]

TakeStart(r) ==
  IF sim.scenario = "provider-error" \/ sim.phase # "idle"
  THEN Refuse(r) ELSE Wait(r, "body")

\* An abort discards the image with the exposure.
TakeAbort(r) ==
  IF sim.phase = "idle" THEN Refuse(r)
  ELSE /\ sim' = Cleared
       /\ aborted' = aborted \cup {sim.exposure}
       /\ Did(r, "done")
       /\ UNCHANGED <<begun, given>>

TakeState(r) ==
  IF sim.scenario = "reconciliation-failure" /\ sim.logged
  THEN Refuse(r) ELSE Answer(r, sim.phase) /\ UNCHANGED device

TakeImage(r) ==
  CASE sim.scenario = "retrieval-failure" ->
         Answer(r, "failure") /\ UNCHANGED device
    [] sim.scenario = "retrieval-oversize" ->
         /\ asked' = [asked EXCEPT ![r].at = "reading",
                                   ![r].declared = Limit + 1]
         /\ UNCHANGED device
    [] OTHER ->
         IF ~sim.ready \/ sim.cursor >= ScenarioFrames(sim.scenario)
         THEN Refuse(r) ELSE Wait(r, "file")

Take(r) ==
  /\ At(r, "sent")
  /\ CASE asked[r].kind = "start" -> TakeStart(r)
       [] asked[r].kind = "abort" -> TakeAbort(r)
       [] asked[r].kind = "state" -> TakeState(r)
       [] OTHER                   -> TakeImage(r)
  /\ UNCHANGED <<outcomes, hands>>

\* The body has been read: whatever began meanwhile is replaced.
StartBody(r) ==
  /\ At(r, "body") /\ begun < MaxStarts
  /\ begun' = begun + 1
  /\ sim' = [sim EXCEPT !.phase = "exposing", !.ready = FALSE,
                        !.exposure = begun + 1, !.logged = TRUE]
  /\ asked' = [asked EXCEPT ![r].at = "answered", ![r].answer = "done",
                            ![r].did = TRUE, ![r].of = begun + 1]
  /\ UNCHANGED <<given, aborted, outcomes, hands>>

\* The file has been read: the image is written and gone.  A rig declares
\* the size of a body or not, and may close the connection early or late.
ImageFile(r) ==
  /\ At(r, "file")
  /\ \E declared \in {0} \cup 1 .. Limit + 1, size \in 0 .. Limit + 1 :
       asked' = [asked EXCEPT ![r].at = "reading", ![r].did = TRUE,
                              ![r].declared = declared, ![r].rest = size]
  /\ given' = [given EXCEPT ![asked[r].of] =
                 [times |-> @.times + 1, frame |-> sim.cursor + 1]]
  /\ sim' = [sim EXCEPT !.cursor = @ + 1, !.ready = FALSE]
  /\ UNCHANGED <<begun, aborted, outcomes, hands>>

-----------------------------------------------------------------------------
\* What the provider makes of the answer.

Settle(r, tag, size) ==
  /\ asked' = [asked EXCEPT ![r] = Unasked]
  /\ outcomes' = IF asked[r].waits
       THEN [outcomes EXCEPT ![r] =
              [tag |-> tag, kind |-> asked[r].kind, did |-> asked[r].did,
               of |-> asked[r].of, size |-> size]]
       ELSE outcomes
  /\ UNCHANGED <<device, hands>>

\* Mutant: any answer to a command acknowledges it.
ReceiveTrusting(r) ==
  /\ At(r, "answered")
  /\ LET command == asked[r].kind \in {"start", "abort"}
     IN Settle(r, IF command THEN "Acknowledged" ELSE asked[r].answer, 0)

\* commandOutcome, decode: an envelope with an error rejects a command and
\* fails a read.
Receive(r) ==
  /\ At(r, "answered")
  /\ LET command == asked[r].kind \in {"start", "abort"}
     IN Settle(r, CASE command /\ asked[r].answer = "done"  -> "Acknowledged"
                    [] command /\ asked[r].answer = "error" -> "Rejected"
                    [] ~command /\ asked[r].answer = "error" -> "failed"
                    [] asked[r].answer = "failure" -> "failed"
                    [] OTHER -> asked[r].answer,
               0)

\* readBoundedBytes, a chunk at a time.
Bound(r) == IF asked[r].declared = 0 THEN Limit ELSE asked[r].declared
Chunk(r) ==
  /\ At(r, "reading") /\ asked[r].declared <= Limit
  /\ asked[r].rest > 0 /\ asked[r].got < Bound(r)
  /\ asked' = [asked EXCEPT ![r].rest = @ - 1, ![r].got = @ + 1]
  /\ UNCHANGED <<device, outcomes, hands>>

Whole(r) ==
  /\ asked[r].declared <= Limit /\ asked[r].rest = 0 /\ asked[r].got > 0
  /\ asked[r].declared \in {0, asked[r].got}

\* imageBytes, jsonImageBytes: a FITS header counts unless ImageBytes were
\* promised, and a valid ImageBytes header unless FITS was.
Format(content, bytes) ==
  CASE bytes = "fits" /\ content # "imageBytes" -> "fits"
    [] bytes = "imageBytes" /\ content # "fits" -> "cameraRaw"
    [] OTHER -> "failed"

Formats ==
  {Format(content, bytes) : content \in {"imageBytes", "fits", "json"},
                            bytes \in {"imageBytes", "fits", "malformed"}}

ReadEnds(r) ==
  /\ At(r, "reading")
  /\ \/ asked[r].declared > Limit \/ asked[r].rest = 0
     \/ asked[r].got = Bound(r)
  /\ \E format \in IF Whole(r) THEN Formats ELSE {"failed"} :
       Settle(r, format, asked[r].got)

\* The connection is cut: the call fails, and the simulator goes on.
Cut(r) ==
  /\ asked[r].waits /\ cuts < MaxCuts
  /\ cuts' = cuts + 1
  /\ asked' = [asked EXCEPT ![r].waits = FALSE]
  /\ outcomes' = [outcomes EXCEPT ![r] = [None EXCEPT
                    !.tag = "failed", !.kind = asked[r].kind]]
  /\ UNCHANGED <<device, lone, selects, restarts>>

-----------------------------------------------------------------------------
\* The simulated clock, and the hands of a person.

Advance ==
  /\ sim.phase # "idle"
  /\ sim' = IF sim.phase = "exposing" THEN [sim EXCEPT !.phase = "reading"]
            ELSE [sim EXCEPT !.phase = "idle", !.ready = TRUE]
  /\ UNCHANGED <<begun, given, aborted, asked, outcomes, hands>>

\* A restart keeps the command log and the frame cursor.
Restart ==
  /\ restarts < MaxRestarts
  /\ restarts' = restarts + 1
  /\ sim' = Cleared
  /\ UNCHANGED <<begun, given, aborted, asked, outcomes, lone, selects, cuts>>

SelectScenario(s) ==
  /\ selects < MaxSelects
  /\ selects' = selects + 1
  /\ sim' = [Fresh(s) EXCEPT !.exposure = sim.exposure]
  /\ UNCHANGED <<begun, given, aborted, asked, outcomes, lone, restarts, cuts>>

Next ==
  \/ \E r \in Requests :
       \/ \E kind \in Kinds : Call(r, kind)
       \/ Take(r) \/ StartBody(r) \/ ImageFile(r)
       \/ Receive(r) \/ Chunk(r) \/ ReadEnds(r) \/ Cut(r)
  \/ Advance \/ Restart
  \/ \E s \in Selected : SelectScenario(s)

Spec == Init /\ [][Next]_cameraVars

-----------------------------------------------------------------------------
TypeOK ==
  /\ sim \in [scenario : Selected, phase : {"idle", "exposing", "reading"},
              ready : BOOLEAN, exposure : 0 .. MaxStarts, cursor : Nat,
              logged : BOOLEAN]
  /\ begun \in 0 .. MaxStarts /\ aborted \subseteq Starts
  /\ given \in [Starts -> [times : Nat, frame : Nat]]
  /\ \A r \in Requests : asked[r].waits => ~At(r, "none")

\* What a command's caller is told is what the camera did: acknowledged when
\* it did, rejected when it did not.
OutcomeIsTrue ==
  \A r \in Requests :
    /\ outcomes[r].tag = "Acknowledged" => outcomes[r].did
    /\ outcomes[r].tag = "Rejected" => ~outcomes[r].did

\* An image is bytes the rig wrote for an exposure, within the bound.
ImageIsWhole ==
  \A r \in Requests :
    outcomes[r].tag \in {"fits", "cameraRaw"} =>
      outcomes[r].of \in Starts /\ outcomes[r].size \in 1 .. Limit

\* One caller, whose connections hold, and a scenario that stays: the image
\* of an exposure is written once, in the order of the frames, and never
\* after an abort.
ImageIsOnce ==
  lone /\ cuts = 0 /\ selects = 0 =>
    /\ \A e \in Starts : given[e].times <= 1
    /\ \A e \in aborted : given[e].times = 0
    /\ sim.cursor = Cardinality({e \in Starts : given[e].times > 0})
    /\ \A e, f \in Starts :
         e < f /\ given[e].times > 0 /\ given[f].times > 0 =>
           given[e].frame < given[f].frame

\* However many ask: the frames of a sequence are counted, a camera that is
\* busy holds no image, and only a body or a file in hand can overrun.
CountsFrames ==
  sim.cursor < ScenarioFrames(sim.scenario) + Cardinality(Requests)
BusyHoldsNone == sim.phase # "idle" => ~sim.ready

\* What a caller is told of a command is what the camera did, and what it
\* reads is a whole image of one exposure.
CameraTellsTruth ==
  /\ TypeOK /\ OutcomeIsTrue /\ ImageIsWhole /\ ImageIsOnce
  /\ CountsFrames /\ BusyHoldsNone
=============================================================================
