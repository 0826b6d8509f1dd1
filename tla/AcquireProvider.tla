-------------------------- MODULE AcquireProvider --------------------------
(***************************************************************************)
(* How the target acquisition providers work the mount and the camera for  *)
(* an attempt (services/configured-target-acquisition-provider.ts,         *)
(* development-target-acquisition-provider.ts), with the evidence of       *)
(* workers/plate-solve-worker.ts: each consequential write is claimed in   *)
(* the database before it is sent, the origin may stop at any await, and a *)
(* later command for the same attempt must go on without sending it again. *)
(*                                                                         *)
(* Plan is the work the session awaits, one after the other: an initial    *)
(* attempt slews to the target and takes an image, a correction moves the  *)
(* mount, a retry or verification takes an image where the mount is.       *)
(***************************************************************************)
EXTENDS Naturals, Sequences, FiniteSetsExt

CONSTANTS
    Calls,    \* provider calls the origin may have in flight
    Plan,     \* a sequence of "initial", "correct" and "image"
    Settings  \* how the origin may be started and used

VARIABLES
    setting,   \* one of Settings, for good
    current,   \* the work the session awaits, past the plan when done
    pointing,  \* configured_acquire_work: slews and corrections
    exposure,  \* configured_acquire_work: exposures
    calls,     \* the calls in flight: the work, where they are, new claim
    wire,      \* writes sent and not yet taken by their device
    taken,     \* how often a device took a write
    mount,     \* where the mount is, and whether it slews
    camera,    \* the exposure under way or whose image is held
    reads,     \* how often the image of a work was read
    originals, \* retained frames: which exposure, at which pointing
    results,   \* plate_solve_runs: the provider result bound to a work
    faults

vars == <<current, pointing, exposure, calls, wire, taken, mount, camera,
          reads, originals, results, faults>>
session == <<current, results>>
ledger == <<pointing, exposure>>
rig == <<wire, taken, mount, camera>>
frames == <<reads, originals>>

Works == 1 .. Len(Plan)
Moves(w) == Plan[w] \in {"initial", "correct"}
Images(w) == Plan[w] \in {"initial", "image"}

ASSUME PlanAssumption ==
    /\ Plan \in Seq({"initial", "correct", "image"})
    /\ Plan # <<>> /\ Plan[1] = "initial"
    /\ Settings \subseteq [configured : BOOLEAN, direct : BOOLEAN,
                           calls : SUBSET Calls, faults : Nat]

Configured == setting.configured \* or the development simulation
Direct == setting.direct \* an operator exposes with direct commands as well
MaxFaults == setting.faults  \* bound: failing calls and stops of the origin

\* The pointing an image of work w is asked for: that of the last movement.
Pointing(w) == Max({v \in 1 .. w : Moves(v)})

Idle == [work |-> 0, pc |-> "idle", new |-> FALSE]
None == [of |-> 0, at |-> 0]
Foreign == Len(Plan) + 1   \* an exposure that is no work of the plan

Init ==
    /\ setting \in Settings
    /\ current = 1
    /\ pointing = [w \in Works |-> "none"]
    /\ exposure = [w \in Works |-> "none"]
    /\ calls = [k \in Calls |-> Idle]
    /\ wire = [kind \in {"point", "expose"} |-> [w \in Works |-> 0]]
    /\ taken = wire
    /\ mount = [at |-> 0, slewing |-> FALSE]
    /\ camera = [active |-> FALSE, of |-> 0, at |-> 0]
    /\ reads = [w \in Works |-> 0]
    /\ originals = [w \in Works |-> None]
    /\ results = [w \in Works |-> "none"]
    /\ faults = 0

-----------------------------------------------------------------------------
(* Steps of a call.                                                        *)

At(k, pc) == calls[k].pc = pc
Goto(k, pc) == calls' = [calls EXCEPT ![k].pc = pc]
End(k) == calls' = [calls EXCEPT ![k] = Idle]
Throw(k) == End(k) /\ UNCHANGED <<session, ledger, rig, frames, faults>>

Send(kind, w) == wire' = [wire EXCEPT ![kind][w] = @ + 1]
Proven(w) == mount.at = w /\ ~mount.slewing

\* Mutant: a call that finds the claim of another sends the write as well.
ClaimShared(k, w, pc) ==
    /\ calls' = [calls EXCEPT ![k] = [work |-> w, pc |-> pc, new |-> TRUE]]
    /\ pointing' = [pointing EXCEPT ![w] = IF @ = "none" THEN "claimed"
                                                         ELSE @]

\* INSERT OR IGNORE: the call that inserts the row is the one that writes.
Claim(k, w, pc) ==
    /\ calls' = [calls EXCEPT ![k] = [work |-> w, pc |-> pc,
                                      new |-> pointing[w] = "none"]]
    /\ pointing' = [pointing EXCEPT ![w] = IF @ = "none" THEN "claimed"
                                                         ELSE @]

(* The command service calls the provider for the work the session awaits. *)
(* A recorded result is returned again, and the session moves on.          *)
Recorded(w) ==
    IF Plan[w] = "correct" THEN pointing[w] = "completed"
                           ELSE results[w] # "none"

Enter(k, w, pc) ==
    calls' = [calls EXCEPT ![k] = [work |-> w, pc |-> pc, new |-> FALSE]]

Begin(k) ==
    /\ At(k, "idle")
    /\ current \in Works
    /\ ~Recorded(current)
    /\ LET w == current
           aims == Plan[w] = "correct" /\ Configured /\ pointing[w] = "none"
       IN \/ Plan[w] = "image" /\ Enter(k, w, "expose") /\ UNCHANGED pointing
          \/ aims /\ Enter(k, w, "aim") /\ UNCHANGED pointing
          \/ Plan[w] # "image" /\ ~aims /\ Claim(k, w, "observe")
    /\ UNCHANGED <<session, exposure, rig, frames, faults>>

ReturnRecorded ==
    /\ current \in Works
    /\ Recorded(current)
    /\ \E k \in setting.calls : At(k, "idle")
    /\ current' = current + 1
    /\ UNCHANGED <<results, ledger, calls, rig, frames, faults>>

\* A correction aims from the observed position; two calls that aimed from
\* different positions do not share a claim.
Aim(k) ==
    /\ At(k, "aim")
    /\ \/ /\ Claim(k, calls[k].work, "observe")
          /\ UNCHANGED <<session, exposure, rig, frames, faults>>
       \/ pointing[calls[k].work] # "none" /\ Throw(k)

Pointed(k, w) ==
    IF Plan[w] = "correct"
    THEN /\ End(k)
         /\ current' = IF current = w THEN w + 1 ELSE current
    ELSE Goto(k, "expose") /\ UNCHANGED current

Settled(k, w) ==
    /\ pointing' = [pointing EXCEPT ![w] = "completed"]
    /\ Pointed(k, w)
    /\ UNCHANGED <<results, exposure, rig, frames, faults>>

Observe(k) ==
    /\ At(k, "observe")
    /\ LET w == calls[k].work
           claimed == pointing[w] = "claimed"
           proven == Configured /\ Proven(w)
       IN \/ /\ pointing[w] = "completed"
             /\ Pointed(k, w)
             /\ UNCHANGED <<results, ledger, rig, frames, faults>>
          \/ /\ pointing[w] = "acknowledged"
             /\ Goto(k, "poll")
             /\ UNCHANGED <<session, ledger, rig, frames, faults>>
          \/ claimed /\ proven /\ Settled(k, w)
          \/ /\ claimed /\ ~proven /\ calls[k].new
             /\ Send("point", w)
             /\ Goto(k, "write")
             /\ UNCHANGED <<session, ledger, taken, mount, camera, frames,
                            faults>>
          \/ /\ claimed /\ ~proven /\ ~calls[k].new
             /\ ~(Configured /\ mount.slewing)
             /\ Throw(k)

WriteReplies(k) ==
    /\ At(k, "write")
    /\ LET w == calls[k].work
       IN /\ taken["point"][w] > 0
          /\ IF Configured
             THEN /\ pointing' = [pointing EXCEPT ![w] = "acknowledged"]
                  /\ Goto(k, "poll")
                  /\ UNCHANGED <<session, exposure, rig, frames, faults>>
             ELSE Settled(k, w)

PollPointing(k) ==
    At(k, "poll") /\ Proven(calls[k].work) /\ Settled(k, calls[k].work)

Lost == <<"lost", "lost">>

\* Mutant: a claimed exposure is awaited without a look at the camera.
RecoveryTrusting(w) ==
    CASE exposure[w] \in {"claimed", "acknowledged", "observed"} ->
           <<"observed", "await">>
      [] exposure[w] \in {"retained", "completed"} ->
           <<exposure[w], "solve">>
      [] OTHER -> Lost

\* Mutant: a retrieval found under way is not looked up among the frames.
RecoveryForgetful(w) ==
    CASE exposure[w] = "claimed" /\ camera.active -> <<"observed", "await">>
      [] exposure[w] = "acknowledged" -> <<"acknowledged", "watch">>
      [] exposure[w] = "observed" -> <<"observed", "await">>
      [] exposure[w] \in {"retained", "completed"} ->
           <<exposure[w], "solve">>
      [] OTHER -> Lost

\* How a call goes on from the row it finds: the row's next state, and where.
Recovery(w) ==
    CASE exposure[w] = "claimed" /\ Configured /\ camera.active ->
           <<"observed", "await">>
      [] exposure[w] = "acknowledged" ->
           <<"acknowledged", IF Configured THEN "watch" ELSE "await">>
      [] exposure[w] = "observed" -> <<"observed", "await">>
      [] exposure[w] = "retrieving" /\ Configured /\ originals[w] # None ->
           <<"retained", "solve">>
      [] exposure[w] \in {"retained", "completed"} /\ Configured ->
           <<exposure[w], "solve">>
      [] OTHER -> Lost

GoOn(k, w, settled, pc) ==
    /\ exposure' = [exposure EXCEPT ![w] = settled]
    /\ Goto(k, pc)
    /\ UNCHANGED <<session, pointing, taken, mount, camera, frames, faults>>

Expose(k) ==
    /\ At(k, "expose")
    /\ LET w == calls[k].work
       IN \/ /\ exposure[w] = "none"
             /\ GoOn(k, w, "claimed", "started")
             /\ Send("expose", w)
          \/ /\ exposure[w] # "none" /\ Recovery(w) # Lost
             /\ GoOn(k, w, Recovery(w)[1], Recovery(w)[2])
             /\ UNCHANGED wire
          \/ exposure[w] # "none" /\ Recovery(w) = Lost /\ Throw(k)

StartReplies(k) ==
    /\ At(k, "started")
    /\ LET w == calls[k].work
       IN /\ taken["expose"][w] > 0
          /\ exposure' = [exposure EXCEPT ![w] = "acknowledged"]
          /\ Goto(k, IF Configured THEN "watch" ELSE "await")
    /\ UNCHANGED <<session, pointing, rig, frames, faults>>

\* The camera is seen active, and the row settled when the answer arrives.
Watch(k) ==
    /\ At(k, "watch") /\ camera.active
    /\ Goto(k, "seen")
    /\ UNCHANGED <<session, ledger, rig, frames, faults>>

Seen(k) ==
    /\ At(k, "seen")
    /\ exposure' = [exposure EXCEPT ![calls[k].work] = "observed"]
    /\ Goto(k, "await")
    /\ UNCHANGED <<session, pointing, rig, frames, faults>>

Await(k) ==
    /\ At(k, "await") /\ ~camera.active
    /\ LET w == calls[k].work
       IN IF exposure[w] = (IF Configured THEN "observed" ELSE "acknowledged")
          THEN /\ exposure' = [exposure EXCEPT ![w] = "retrieving"]
               /\ Goto(k, "read")
               /\ UNCHANGED <<session, pointing, rig, frames, faults>>
          ELSE Throw(k)

\* The frame is retained once: a second intake has another time under the
\* same key and is refused.
Read(k) ==
    /\ At(k, "read")
    /\ LET w == calls[k].work
       IN /\ reads' = [reads EXCEPT ![w] = @ + 1]
          /\ IF originals[w] = None
             THEN /\ originals' = [originals EXCEPT ![w] =
                       [of |-> camera.of, at |-> camera.at]]
                  /\ Goto(k, "retain")
             ELSE End(k) /\ UNCHANGED originals
    /\ UNCHANGED <<session, ledger, rig, faults>>

Retain(k) ==
    /\ At(k, "retain")
    /\ exposure' = [exposure EXCEPT ![calls[k].work] =
                      IF Configured THEN "retained" ELSE @]
    /\ Goto(k, "solve")
    /\ UNCHANGED <<session, pointing, rig, frames, faults>>

\* The solver starts only for the attempt the session still awaits.
Solve(k) ==
    /\ At(k, "solve")
    /\ IF Configured /\ current # calls[k].work
       THEN Throw(k)
       ELSE /\ Goto(k, "solving")
            /\ UNCHANGED <<session, ledger, rig, frames, faults>>

SolverReturns(k) ==
    /\ At(k, "solving")
    /\ LET w == calls[k].work
       IN /\ \E result \in {"Solved", "NoSolution"} :
               results' = [results EXCEPT ![w] = result]
          /\ exposure' = [exposure EXCEPT ![w] = "completed"]
          /\ current' = IF current = w THEN w + 1 ELSE current
    /\ End(k)
    /\ UNCHANGED <<pointing, rig, frames, faults>>

\* A device refuses or does not answer, a poll runs out, an intake fails.
Fails(k) ==
    /\ ~At(k, "idle")
    /\ faults < MaxFaults
    /\ faults' = faults + 1
    /\ End(k)
    /\ UNCHANGED <<session, ledger, rig, frames>>

Stop ==
    /\ faults < MaxFaults
    /\ faults' = faults + 1
    /\ \E k \in Calls : ~At(k, "idle")
    /\ calls' = [k \in Calls |-> Idle]
    /\ UNCHANGED <<session, ledger, rig, frames>>

-----------------------------------------------------------------------------
(* The rig takes what was sent in its own time, also after the call that   *)
(* sent it is gone.                                                        *)

MountTakes(w) ==
    /\ wire["point"][w] > 0
    /\ wire' = [wire EXCEPT !["point"][w] = @ - 1]
    /\ taken' = [taken EXCEPT !["point"][w] = @ + 1]
    /\ mount' = [at |-> w, slewing |-> TRUE]
    /\ UNCHANGED <<session, ledger, calls, camera, frames, faults>>

MountSettles ==
    /\ mount.slewing
    /\ mount' = [mount EXCEPT !.slewing = FALSE]
    /\ UNCHANGED <<session, ledger, calls, wire, taken, camera, frames,
                   faults>>

Exposing(of) ==
    [active |-> TRUE, of |-> of, at |-> IF mount.slewing THEN 0 ELSE mount.at]

CameraTakes(w) ==
    /\ wire["expose"][w] > 0
    /\ wire' = [wire EXCEPT !["expose"][w] = @ - 1]
    /\ IF camera.active
       THEN UNCHANGED <<taken, camera>>
       ELSE /\ taken' = [taken EXCEPT !["expose"][w] = @ + 1]
            /\ camera' = Exposing(w)
    /\ UNCHANGED <<session, ledger, calls, mount, frames, faults>>

CameraEnds ==
    /\ camera.active
    /\ camera' = [camera EXCEPT !.active = FALSE]
    /\ UNCHANGED <<session, ledger, calls, wire, taken, mount, frames, faults>>

DirectExposure ==
    /\ Direct /\ ~camera.active
    /\ camera' = Exposing(Foreign)
    /\ UNCHANGED <<session, ledger, calls, wire, taken, mount, frames, faults>>

Step(k) ==
    \/ Aim(k) \/ Observe(k) \/ WriteReplies(k) \/ PollPointing(k)
    \/ Expose(k) \/ StartReplies(k) \/ Watch(k) \/ Seen(k) \/ Await(k)
    \/ Read(k) \/ Retain(k) \/ Solve(k) \/ SolverReturns(k)

Rig ==
    \/ \E w \in Works : MountTakes(w) \/ CameraTakes(w)
    \/ MountSettles \/ CameraEnds

Next ==
    /\ UNCHANGED setting
    /\ \/ \E k \in setting.calls : Begin(k) \/ Step(k) \/ Fails(k)
       \/ ReturnRecorded \/ Stop \/ Rig \/ DirectExposure

Spec == Init /\ [][Next]_<<setting, vars>>

\* Of one call without direct exposures: the client asks again for work
\* that is not done, the origin's calls go on and the rig obeys; what fails
\* or stops does so a bounded number of times.
OneCall == \A k, l \in setting.calls : k = l
Lone == OneCall /\ Configured /\ ~Direct

FairSpec ==
    /\ Spec
    /\ WF_vars(Lone /\ Rig) /\ WF_vars(Lone /\ ReturnRecorded)
    /\ \A k \in Calls : /\ WF_vars(Lone /\ k \in setting.calls /\ Begin(k))
                       /\ WF_vars(Lone /\ k \in setting.calls /\ Step(k))

-----------------------------------------------------------------------------
Pointings == {"none", "claimed", "acknowledged", "completed"}
Exposures == {"none", "claimed", "acknowledged", "observed", "retrieving",
              "retained", "completed"}

Codes == {"idle", "aim", "observe", "write", "poll", "expose", "started",
          "watch", "seen", "await", "read", "retain", "solve", "solving"}

(* The ledger and the calls keep their shape (configured_acquire_work).    *)
TypeOK ==
    /\ current \in 1 .. Len(Plan) + 1
    /\ pointing \in [Works -> Pointings]
    /\ exposure \in [Works -> Exposures]
    /\ calls \in [Calls -> [work : 0 .. Len(Plan), pc : Codes,
                            new : BOOLEAN]]
    /\ wire \in [{"point", "expose"} -> [Works -> Nat]]
    /\ taken \in [{"point", "expose"} -> [Works -> Nat]]
    /\ mount \in [at : 0 .. Len(Plan), slewing : BOOLEAN]
    /\ results \in [Works -> {"none", "Solved", "NoSolution"}]

(* No write is sent a second time, whatever stops, fails or is asked       *)
(* again: each slew, correction and exposure reaches the rig at most once. *)
NothingReplays ==
    \A kind \in {"point", "expose"}, w \in Works :
      wire[kind][w] + taken[kind][w] <= 1

(* A result is bound to a retained frame, and a correction done to a write *)
(* the mount took: the session never goes on without them.                 *)
ProgressIsReal ==
    \A w \in Works : w < current =>
      /\ Images(w) => originals[w] # None /\ results[w] # "none"
      /\ Plan[w] = "correct" => taken["point"][w] > 0

(* No slew or exposure is sent twice for an attempt, across stops and two  *)
(* calls, and the session goes on with what was done only (claimWork,      *)
(* reconcileClaimedPointing, captureAndRetain, recordedProviderResult).    *)
LedgerIsSound == TypeOK /\ NothingReplays /\ ProgressIsReal

(* The frame retained for an attempt is the exposure that was started for  *)
(* it.                                                                     *)
ImageIsOwn == \A w \in Works : originals[w].of \in {None.of, w}

(* It was exposed with the mount settled where the last slew or correction *)
(* before the attempt sent it.                                             *)
ImageShowsTarget ==
    \A w \in Works : originals[w].of = w => originals[w].at = Pointing(w)

(* The image of an attempt is read from the camera once.                   *)
ReadOnce == \A w \in Works : reads[w] <= 1

(* The image of an attempt is read once unless two calls of the configured *)
(* provider meet in it, and with one call and the rig for itself it is the *)
(* attempt's own, taken on target (captureAndRetain, pointingProven,       *)
(* reconciledRetainedCapture).                                             *)
ImageIsTheAttempts ==
    /\ OneCall \/ ~Configured => ReadOnce
    /\ Lone => ImageIsOwn /\ ImageShowsTarget

(* A frame that was retained is solved in the end: a stop between its      *)
(* intake and the settling of its row loses nothing.                       *)
RetainedIsSolved ==
    \A w \in Works : originals[w] # None ~> results[w] # "none"
=============================================================================
