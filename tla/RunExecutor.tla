----------------------------- MODULE RunExecutor -----------------------------
(***************************************************************************)
(* A supervised run under the real executor: the durable work rows and the  *)
(* worker that drives them (workers/run-executor-worker.ts), the Pause and  *)
(* Stop handlers that interrupt it (persistence/run/lifecycle.ts), the      *)
(* preflight refresh, the intake of the captured frame                      *)
(* (services/captured-frame-intake.ts) and the camera behind the provider.  *)
(*                                                                          *)
(* One worker makes one pass at a time, but a pass suspends at each provider *)
(* call: the row was claimed before the call and the run is read again      *)
(* after it, and in between the operator, the camera and the loss of the    *)
(* process act.  Nobody else writes a row the worker holds, so the row it   *)
(* selected and the stored row agree.  The run has one sequence of one      *)
(* frame, the only kind the executor accepts.                               *)
(***************************************************************************)
EXTENDS Naturals

CONSTANTS
  Locked,       \* whether the publisher may hold the database write lock
  MaxRestarts,  \* bound: how often the process is lost
  MaxDirect     \* bound: direct camera commands of the operator

ASSUME ExecutorAssumption ==
  /\ Locked \in BOOLEAN
  /\ MaxRestarts \in Nat
  /\ MaxDirect \in Nat

VARIABLES
  phase,       \* run.phase; "none" while run is null
  mode,        \* the accepted definition: cameraOnly, deepSky or unsupported
  preflight,   \* run.preflight: blocked has a ready camera, but no ready verdict
  refreshing,  \* whether a preflight refresh awaits its provider
  directing,   \* the direct command in flight and the preflight it has read
  acquire,     \* the acquire session of the run
  work,        \* run_executor_work: the state of each row
  acked,       \* acknowledged_at of the StartExposure row, and its age
  file,        \* the original on disk: the exposure it came from, 0 for none
  receipt,     \* captured_frame_receipts: likewise
  worker,      \* what the suspended pass awaits
  transit,     \* camera commands sent and not yet executed or lost
  camera,      \* the device
  exposures,   \* exposures the device has begun (their ids)
  sent,        \* history: how often each command was sent
  captures,    \* history: library assets the intake has inserted
  restarts,    \* processes lost so far
  direct       \* direct commands so far

run == <<phase, mode, preflight, acquire>>
frame == <<file, receipt, captures>>
device == <<transit, camera, exposures>>
awaits == <<refreshing, directing>>
counters == <<restarts, direct>>
vars == <<run, awaits, work, acked, frame, worker, device, sent, counters>>

-----------------------------------------------------------------------------
Commands == {"StartExposure", "AbortExposure"}
Kinds == Commands \cup {"BeginRun", "RetrieveFrame"}
Claimed == {"commandAttempted", "observing", "reconciling"}
Unsettled == Claimed \cup {"pending"}
Settled == {"completed", "rejected", "cancelled"}
Phases == {"none", "preflight", "acquire", "capture", "verify", "recover",
           "paused", "stopped", "completed"}

Idle == [at |-> "idle", kind |-> "none"]
NoDirect == [at |-> "none", read |-> "none"]
Awaiting(what, k) == [at |-> what, kind |-> k]

TypeOK ==
  /\ phase \in Phases
  /\ mode \in {"none", "cameraOnly", "deepSky", "unsupported"}
  /\ preflight \in {"none", "ready", "blocked", "notReady"}
  /\ refreshing \in {"no", "yes"}
  /\ directing \in [at : {"none", "sent", "taken"},
                   read : {"none", "ready", "blocked"}]
  /\ acquire \in {"none", "active", "completed"}
  /\ work \in [Kinds -> Unsettled \cup Settled \cup {"absent"}]
  /\ acked \in {"no", "fresh", "old"}
  /\ file \in Nat /\ receipt \in Nat /\ captures \in Nat
  /\ worker \in [at : {"idle", "command", "state", "image", "inspect"},
                 kind : Kinds \cup {"none"}]
  /\ transit \subseteq Commands
  /\ camera \in [state : {"idle", "starting", "exposing"}, image : Nat,
                ended : {"none", "finished", "aborted"}]
  /\ exposures \in Nat
  /\ sent \in [Commands -> Nat]
  /\ restarts \in Nat /\ direct \in Nat

Init ==
  /\ phase = "none" /\ mode = "none" /\ preflight = "none" /\ acquire = "none"
  /\ refreshing = "no" /\ directing = NoDirect
  /\ work = [k \in Kinds |-> "absent"]
  /\ acked = "no"
  /\ file = 0 /\ receipt = 0 /\ captures = 0
  /\ worker = Idle
  /\ transit = {} /\ exposures = 0
  /\ camera = [state |-> "idle", image |-> 0, ended |-> "none"]
  /\ sent = [k \in Commands |-> 0]
  /\ restarts = 0 /\ direct = 0

-----------------------------------------------------------------------------
(* The device.  An exposure that is starting may still read idle; an aborted *)
(* one leaves no image, and an abort of an idle camera is harmless.          *)
BeginsExposing ==
  /\ exposures' = exposures + 1
  /\ camera' = [state |-> "starting", image |-> 0, ended |-> "none"]

Aborted ==
  IF camera.state = "idle" THEN camera
  ELSE [state |-> "idle", image |-> 0, ended |-> "aborted"]

ReadsIdle == camera.state \in {"idle", "starting"}

-----------------------------------------------------------------------------
(* The operator.  Each handler is one transaction; commands refused by the  *)
(* lease, a revision or a receipt change nothing here.                      *)

StartRun ==
  /\ phase = "none"
  /\ phase' = "preflight"
  /\ mode' \in {"cameraOnly", "deepSky", "unsupported"}
  /\ work' = [work EXCEPT !["BeginRun"] = "pending"]
  /\ UNCHANGED <<preflight, acquire, awaits, acked, frame, worker, device,
                 sent, counters>>

(* The phase is checked before the provider is awaited, not when the        *)
(* snapshot is stored on the run.                                           *)
RefreshPreflight ==
  /\ phase = "preflight"
  /\ refreshing = "no"
  /\ refreshing' = "yes"
  /\ UNCHANGED <<run, work, acked, frame, worker, device, sent,
                 directing, counters>>

PreflightObserved ==
  /\ refreshing = "yes"
  /\ refreshing' = "no"
  /\ preflight' \in {preflight, "ready", "blocked", "notReady"}
  /\ UNCHANGED <<phase, mode, acquire, work, acked, frame, worker, device, sent,
                 directing, counters>>

(* Mutant: an exposure of unknown outcome is not worth an abort.             *)
EnqueueAbortWhenSure(rows) ==
  LET kept == [k \in Kinds |->
                 IF k \in {"BeginRun", "StartExposure"} /\ rows[k] = "pending"
                 THEN "cancelled" ELSE rows[k]]
  IN IF /\ kept["StartExposure"] \in {"commandAttempted", "observing"}
        /\ kept["AbortExposure"] = "absent"
     THEN [kept EXCEPT !["AbortExposure"] = "pending"]
     ELSE kept

(* Mutant: every intervention queues an abort, claimed exposure or not.      *)
EnqueueAbortAlways(rows) ==
  [k \in Kinds |->
     IF k \in {"BeginRun", "StartExposure"} /\ rows[k] = "pending"
     THEN "cancelled"
     ELSE IF k = "AbortExposure" /\ rows[k] = "absent" THEN "pending"
     ELSE rows[k]]

(* What is not yet claimed is cancelled; a claimed exposure gets one abort   *)
(* row, INSERT OR IGNORE under one id per run.                              *)
EnqueueAbort(rows) ==
  LET kept == [k \in Kinds |->
                 IF k \in {"BeginRun", "StartExposure"} /\ rows[k] = "pending"
                 THEN "cancelled" ELSE rows[k]]
  IN IF kept["StartExposure"] \in Claimed /\ kept["AbortExposure"] = "absent"
     THEN [kept EXCEPT !["AbortExposure"] = "pending"]
     ELSE kept

Pause ==
  /\ phase \in {"preflight", "acquire", "capture", "recover"}
  /\ phase' = "paused"
  /\ work' = EnqueueAbort(work)
  /\ UNCHANGED <<mode, preflight, acquire, awaits, acked, frame, worker,
                 device, sent, counters>>

Stop ==
  /\ phase \notin {"none", "completed", "stopped"}
  /\ phase' = "stopped"
  /\ work' = EnqueueAbort(work)
  /\ UNCHANGED <<mode, preflight, acquire, awaits, acked, frame, worker,
                 device, sent, counters>>

(* The acquire commands bring a session to its end (another component); the *)
(* solve exposures leave an image of their own in the camera.               *)
AcquireCompletes ==
  /\ acquire = "active"
  /\ acquire' = "completed"
  /\ camera.state = "idle"
  /\ exposures' = exposures + 1
  /\ camera' = [state |-> "idle", image |-> exposures + 1, ended |-> "finished"]
  /\ UNCHANGED <<phase, mode, preflight, awaits, work, acked, frame, worker,
                 transit, sent, counters>>

(* A direct camera command needs a run with a ready camera check, and looks  *)
(* at neither the phase nor the executor's work.                             *)
DirectCommand ==
  /\ direct < MaxDirect
  /\ directing = NoDirect
  /\ phase # "none" /\ preflight \in {"ready", "blocked"}
  /\ direct' = direct + 1
  /\ directing' = [at |-> "sent", read |-> preflight]
  /\ UNCHANGED <<run, refreshing, work, acked, frame, worker, device, sent,
                 restarts>>

DirectTaken ==
  /\ directing.at = "sent"
  /\ directing' = [directing EXCEPT !.at = "taken"]
  /\ \/ camera.state = "idle" /\ BeginsExposing
     \/ camera' = Aborted /\ UNCHANGED exposures
  /\ UNCHANGED <<run, refreshing, work, acked, frame, worker, transit, sent,
                 counters>>

(* The answer stores the preflight read before the command was sent, over a  *)
(* newer one too: as it was when the outcome was observed, without its       *)
(* verdict but with its checks when it was not.                              *)
DirectAnswered ==
  /\ directing.at # "none"
  /\ preflight' \in {"blocked"}
       \cup (IF directing.at = "taken" THEN {directing.read} ELSE {})
       \cup (IF Locked THEN {preflight} ELSE {})
  /\ directing' = NoDirect
  /\ UNCHANGED <<phase, mode, acquire, refreshing, work, acked, frame, worker,
                 device, sent, counters>>

-----------------------------------------------------------------------------
(* The worker.  A pass takes the abort first, then the rows in the order     *)
(* they were inserted.                                                      *)

Rank == [AbortExposure |-> 0, BeginRun |-> 1, StartExposure |-> 2,
         RetrieveFrame |-> 3]

Selected(k) ==
  /\ worker = Idle
  /\ work[k] \in Unsettled
  /\ \A j \in Kinds : work[j] \in Unsettled => Rank[k] <= Rank[j]

TransitionAlways(p) == p  \* mutant: a late answer moves a halted run

(* commitWorkTransition: a paused or stopped run keeps its phase.            *)
Transition(p) == IF phase \in {"paused", "stopped"} THEN phase ELSE p

(* Rows the worker leaves behind, with the pass over.                        *)
Leaves(rows, p) ==
  /\ work' = rows
  /\ phase' = Transition(p)
  /\ worker' = Idle

SettleFailed(k, s) ==  \* mutant: a state the row schema does not know
  [work EXCEPT ![k] = IF s = "rejected" THEN "failed" ELSE s]
Settle(k, s) == [work EXCEPT ![k] = s]
EnqueueExposure(rows) ==
  [rows EXCEPT !["StartExposure"] = IF @ = "absent" THEN "pending" ELSE @]

BeginRun ==
  /\ Selected("BeginRun")
  /\ phase = "preflight" => preflight = "ready"
  /\ CASE phase # "preflight" ->
            /\ work' = Settle("BeginRun", "cancelled")
            /\ UNCHANGED <<phase, acquire>>
       [] phase = "preflight" /\ mode = "unsupported" ->
            /\ work' = Settle("BeginRun", "rejected")
            /\ phase' = "recover"
            /\ UNCHANGED acquire
       [] phase = "preflight" /\ mode = "deepSky" ->
            /\ work' = Settle("BeginRun", "completed")
            /\ phase' = "acquire"
            /\ acquire' = "active"
       [] OTHER ->
            /\ work' = EnqueueExposure(Settle("BeginRun", "completed"))
            /\ phase' = "capture"
            /\ UNCHANGED acquire
  /\ UNCHANGED <<mode, preflight, awaits, acked, frame, worker, device, sent,
                 counters>>

(* Mutant: the acquisition completed, so the phase is taken for granted.     *)
ContinueAnyAcquire ==
  /\ worker = Idle
  /\ \A k \in Kinds : work[k] \notin Unsettled
  /\ acquire = "completed" /\ work["StartExposure"] = "absent"
  /\ phase' = "capture"
  /\ work' = EnqueueExposure(work)
  /\ UNCHANGED <<mode, preflight, acquire, awaits, acked, frame, worker,
                 device, sent, counters>>

(* With no work left, a completed acquisition lets the run continue.         *)
ContinueCompletedAcquire ==
  /\ worker = Idle
  /\ \A k \in Kinds : work[k] \notin Unsettled
  /\ phase = "acquire"
  /\ acquire = "completed"
  /\ phase' = "capture"
  /\ work' = EnqueueExposure(work)
  /\ UNCHANGED <<mode, preflight, acquire, awaits, acked, frame, worker,
                 device, sent, counters>>

(* The row is claimed before the command is sent and never claimed again.    *)
ClaimCommand(k) ==
  /\ Selected(k)
  /\ work[k] = "pending"
  /\ IF k = "StartExposure" /\ phase # "capture"
     THEN /\ work' = Settle(k, "cancelled")
          /\ UNCHANGED <<worker, transit, sent>>
     ELSE /\ work' = Settle(k, "commandAttempted")
          /\ worker' = Awaiting("command", k)
          /\ transit' = transit \cup {k}
          /\ sent' = [sent EXCEPT ![k] = @ + 1]
  /\ UNCHANGED <<run, awaits, acked, frame, camera, exposures, counters>>

(* Mutant: a claim whose outcome is unknown is sent again.                   *)
ReplayClaim(k) ==
  /\ Selected(k)
  /\ work[k] \in Claimed
  /\ worker' = Awaiting("command", k)
  /\ transit' = transit \cup {k}
  /\ sent' = [sent EXCEPT ![k] = IF @ < 2 THEN @ + 1 ELSE @]
  /\ UNCHANGED <<run, awaits, work, acked, frame, camera, exposures, counters>>

(* An unsettled claim, of this process or of one before it, is only observed. *)
ObserveClaim(k) ==
  /\ Selected(k)
  /\ work[k] \in Claimed
  /\ worker' = Awaiting("state", k)
  /\ UNCHANGED <<run, awaits, work, acked, frame, device, sent, counters>>

Acknowledged(k) ==
  /\ worker = Awaiting("command", k)
  /\ k \notin transit
  /\ acked' = IF k = "StartExposure" THEN "fresh" ELSE acked
  /\ worker' = Awaiting("state", k)
  /\ UNCHANGED <<run, awaits, work, frame, device, sent, counters>>

CommandRejected(k) ==
  /\ worker = Awaiting("command", k)
  /\ k \in transit
  /\ transit' = transit \ {k}
  /\ Leaves(Settle(k, "rejected"), "recover")
  /\ UNCHANGED <<mode, preflight, acquire, awaits, acked, frame, camera,
                 exposures, sent, counters>>

(* No answer: the command may have been executed, or may still be.           *)
OutcomeUnknown(k) ==
  /\ worker \in {Awaiting("command", k), Awaiting("state", k)}
  /\ Leaves(Settle(k, "reconciling"), "recover")
  /\ UNCHANGED <<mode, preflight, acquire, awaits, acked, frame, device,
                 sent, counters>>

(* A start that was acknowledged less than two seconds ago may still read    *)
(* idle; otherwise an idle camera never observed active proves nothing.      *)
IdleBeforeExposure ==
  /\ worker = Awaiting("state", "StartExposure")
  /\ work["StartExposure"] # "observing"
  /\ ReadsIdle
  /\ IF acked = "fresh"
     THEN worker' = Idle /\ UNCHANGED <<work, phase>>
     ELSE Leaves(Settle("StartExposure", "reconciling"), "recover")
  /\ UNCHANGED <<mode, preflight, acquire, awaits, acked, frame, device,
                 sent, counters>>

ExposureObserved(k) ==
  /\ worker = Awaiting("state", k)
  /\ camera.state # "idle"
  /\ camera' = [camera EXCEPT !.state = "exposing"]
  /\ IF work[k] = "observing"
     THEN worker' = Idle /\ UNCHANGED <<work, phase>>
     ELSE Leaves(Settle(k, "observing"), "capture")
  /\ UNCHANGED <<mode, preflight, acquire, awaits, acked, frame, transit,
                 exposures, sent, counters>>

(* Mutant: an acknowledged start and an idle camera make a finished exposure. *)
ExposureAssumed ==
  /\ worker = Awaiting("state", "StartExposure")
  /\ ReadsIdle
  /\ Leaves([work EXCEPT !["StartExposure"] = "completed",
                         !["RetrieveFrame"] = IF @ = "absent" THEN "pending" ELSE @],
            "capture")
  /\ UNCHANGED <<mode, preflight, acquire, awaits, acked, frame, device,
                 sent, counters>>

ExposureConcluded ==
  /\ worker = Awaiting("state", "StartExposure")
  /\ work["StartExposure"] = "observing"
  /\ ReadsIdle
  /\ Leaves([work EXCEPT !["StartExposure"] = "completed",
                         !["RetrieveFrame"] = IF @ = "absent" THEN "pending" ELSE @],
            "capture")
  /\ UNCHANGED <<mode, preflight, acquire, awaits, acked, frame, device,
                 sent, counters>>

(* Mutant: the abort settles its own row only.                               *)
AbortForgetsExposure ==
  /\ worker = Awaiting("state", "AbortExposure")
  /\ ReadsIdle
  /\ Leaves(Settle("AbortExposure", "completed"), "recover")
  /\ UNCHANGED <<mode, preflight, acquire, awaits, acked, frame, device,
                 sent, counters>>

AbortConcluded ==
  /\ worker = Awaiting("state", "AbortExposure")
  /\ ReadsIdle
  /\ Leaves([work EXCEPT !["AbortExposure"] = "completed",
                         !["StartExposure"] = IF @ \in Claimed THEN "completed" ELSE @],
            "recover")
  /\ UNCHANGED <<mode, preflight, acquire, awaits, acked, frame, device,
                 sent, counters>>

-----------------------------------------------------------------------------
(* Mutants: the retrieval never looks for a receipt; a claimed retrieval is  *)
(* taken for one that retained its frame.                                    *)
RetrieveAgain ==
  /\ Selected("RetrieveFrame")
  /\ work' = Settle("RetrieveFrame", "commandAttempted")
  /\ worker' = Awaiting("image", "RetrieveFrame")
  /\ UNCHANGED <<run, awaits, acked, frame, device, sent, counters>>

TrustClaim ==
  /\ Selected("RetrieveFrame")
  /\ IF receipt # 0 \/ work["RetrieveFrame"] = "commandAttempted"
     THEN worker' = Awaiting("inspect", "RetrieveFrame") /\ UNCHANGED work
     ELSE /\ work' = Settle("RetrieveFrame", "commandAttempted")
          /\ worker' = Awaiting("image", "RetrieveFrame")
  /\ UNCHANGED <<run, awaits, acked, frame, device, sent, counters>>

(* Retrieval.  A stored receipt replaces the image read.                     *)

BeginRetrieval ==
  /\ Selected("RetrieveFrame")
  /\ IF receipt # 0
     THEN worker' = Awaiting("inspect", "RetrieveFrame") /\ UNCHANGED work
     ELSE /\ work' = Settle("RetrieveFrame", "commandAttempted")
          /\ worker' = Awaiting("image", "RetrieveFrame")
  /\ UNCHANGED <<run, awaits, acked, frame, device, sent, counters>>

(* The image cannot be read or does not validate, and what the intake wrote  *)
(* before it failed: nothing, or the original without its row.               *)
Written == {file} \cup (IF file = 0 THEN {camera.image} ELSE {})

RetrievalRejected ==
  /\ worker.at = "image"
  /\ file' \in Written
  /\ Leaves(Settle("RetrieveFrame", "rejected"), "recover")
  /\ UNCHANGED <<mode, preflight, acquire, awaits, acked, receipt, captures,
                 device, sent, counters>>

(* materializeCapturedFrame: a matching original is kept, a different one    *)
(* never replaced; asset and receipt are one transaction.                    *)
FrameRetained ==
  /\ worker.at = "image"
  /\ camera.state = "idle" /\ camera.image # 0
  /\ file \in {0, camera.image}
  /\ file' = camera.image
  /\ receipt' = camera.image
  /\ captures' = captures + 1
  /\ worker' = Awaiting("inspect", "RetrieveFrame")
  /\ UNCHANGED <<run, awaits, work, acked, device, sent, counters>>

FrameInspected ==
  /\ worker.at = "inspect"
  /\ Leaves(Settle("RetrieveFrame", "completed"),
            IF mode = "deepSky" THEN "completed" ELSE "verify")
  /\ UNCHANGED <<mode, preflight, acquire, awaits, acked, frame, device,
                 sent, counters>>

-----------------------------------------------------------------------------
(* The camera and the clock.                                                 *)

(* A start on an exposing camera can only be rejected.                       *)
CameraTakes(k) ==
  /\ k \in transit
  /\ transit' = transit \ {k}
  /\ \/ k = "StartExposure" /\ camera.state = "idle" /\ BeginsExposing
     \/ k = "AbortExposure" /\ camera' = Aborted /\ UNCHANGED exposures
  /\ UNCHANGED <<run, awaits, work, acked, frame, worker, sent, counters>>

CommandLost(k) ==
  /\ k \in transit
  /\ worker # Awaiting("command", k)
  /\ transit' = transit \ {k}
  /\ UNCHANGED <<run, awaits, work, acked, frame, worker, camera, exposures,
                 sent, counters>>

CameraFinishes ==
  /\ camera.state # "idle"
  /\ camera' = [state |-> "idle", image |-> exposures, ended |-> "finished"]
  /\ UNCHANGED <<run, awaits, work, acked, frame, worker, transit, exposures,
                 sent, counters>>

ExposureStarts ==
  /\ camera.state = "starting"
  /\ camera' = [camera EXCEPT !.state = "exposing"]
  /\ UNCHANGED <<run, awaits, work, acked, frame, worker, transit, exposures,
                 sent, counters>>

PostAckGraceEnds ==
  /\ acked = "fresh"
  /\ acked' = "old"
  /\ UNCHANGED <<run, awaits, work, frame, worker, device, sent, counters>>

(* The process is lost: the pass is gone wherever it was, also between the   *)
(* original and its row.                                                     *)
Restart ==
  /\ restarts < MaxRestarts
  /\ restarts' = restarts + 1
  /\ worker' = Idle
  /\ refreshing' = "no" /\ directing' = NoDirect
  /\ file' \in IF worker.at = "image" THEN Written ELSE {file}
  /\ UNCHANGED <<run, work, acked, receipt, captures, device, sent, direct>>

(* SQLITE_BUSY on a write after the provider answered: the pass throws, its  *)
(* transaction is rolled back and the loop makes another pass.               *)
PassThrows ==
  /\ Locked
  /\ worker # Idle
  /\ worker' = Idle
  /\ file' \in IF worker.at = "image" THEN Written ELSE {file}
  /\ UNCHANGED <<run, awaits, work, acked, receipt, captures, device, sent,
                 counters>>

-----------------------------------------------------------------------------
Operator ==
  \/ StartRun
  \/ RefreshPreflight
  \/ PreflightObserved
  \/ Pause
  \/ Stop
  \/ AcquireCompletes
  \/ DirectCommand
  \/ DirectTaken
  \/ DirectAnswered

Worker ==
  \/ BeginRun
  \/ ContinueCompletedAcquire
  \/ IdleBeforeExposure
  \/ ExposureConcluded
  \/ AbortConcluded
  \/ BeginRetrieval
  \/ RetrievalRejected
  \/ FrameRetained
  \/ FrameInspected
  \/ \E k \in Commands :
       \/ ClaimCommand(k)
       \/ ObserveClaim(k)
       \/ Acknowledged(k)
       \/ CommandRejected(k)
       \/ OutcomeUnknown(k)
       \/ ExposureObserved(k)

Camera ==
  \/ \E k \in Commands : CameraTakes(k) \/ CommandLost(k)
  \/ CameraFinishes
  \/ ExposureStarts
  \/ PostAckGraceEnds

Next == Operator \/ Worker \/ Camera \/ Restart \/ PassThrows

(* The 250 ms loop never stops passing and every provider call ends; a       *)
(* camera that is read again and again is not unreadable for ever; exposures *)
(* and clocks run out.  Nothing obliges the operator.                        *)
Concludes == ExposureConcluded \/ AbortConcluded

Fairness ==
  /\ WF_vars(Worker)
  /\ SF_vars(Concludes)
  /\ WF_vars(CameraFinishes)
  /\ WF_vars(PostAckGraceEnds)

Spec == Init /\ [][Next]_vars /\ Fairness

-----------------------------------------------------------------------------
(* The rows tell one story: a row follows the one that created it, an abort  *)
(* needs a claimed exposure and a halted run, an exposure waits only in      *)
(* Capture, and the worker holds nothing that is settled or unclaimed.       *)
RowsConsistent ==
  /\ (phase = "none") = (work["BeginRun"] = "absent")
  /\ work["StartExposure"] # "absent" => work["BeginRun"] \in Settled
  /\ work["StartExposure"] = "pending" => phase = "capture"
  /\ work["RetrieveFrame"] # "absent" => work["StartExposure"] = "completed"
  /\ work["AbortExposure"] # "absent" =>
       work["StartExposure"] \in Claimed \cup {"completed", "rejected"}
  /\ work["AbortExposure"] \in Unsettled => phase \in {"paused", "stopped"}
  /\ worker.at \in {"command", "state"} =>
       worker.kind \in Commands /\ work[worker.kind] \in Claimed
  /\ worker.at \in {"image", "inspect"} =>
       worker.kind = "RetrieveFrame" /\ work["RetrieveFrame"] \in Unsettled

(* A camera write is sent at most once per run, whatever fails, restarts or  *)
(* throws in between (beta-real-runtime-plan.md, "claims camera writes once  *)
(* ... never replays a claimed write ... at most one abort").                *)
CommandsSentOnce == \A k \in Commands : sent[k] <= 1

(* Once Pause or Stop was accepted no answer, late or early, moves the run:  *)
(* a stopped run stays stopped and a paused one can only be stopped, since   *)
(* Resume is refused under the real executor.                                *)
HaltedStaysHalted ==
  [][/\ phase = "stopped" => phase' = "stopped"
     /\ phase = "paused" => phase' \in {"paused", "stopped"}]_vars

(* A run halted before its exposure was claimed never exposes the camera:    *)
(* neither a row that was pending nor one a late acquisition would queue.    *)
HaltedRunNeverExposes ==
  [][(phase \in {"paused", "stopped"} /\ sent["StartExposure"] = 0)
       => sent'["StartExposure"] = 0 /\ work'["StartExposure"] # "pending"]_vars

(* Frame retrieval is only queued for an exposure that ran to its end: what  *)
(* the camera then holds is that exposure's image, not an acquisition's, not *)
(* one still exposing and not an aborted one, unless a direct command of the  *)
(* operator used the camera as well.                                         *)
FrameOfFinishedExposure ==
  direct = 0 /\ work["RetrieveFrame"] # "absent" =>
    camera.state = "idle" /\ camera.image = exposures /\ camera.image # 0

(* The frame enters the library at most once and its receipt names the       *)
(* original on disk, across crashes between the two and repeated reads.      *)
FrameRetainedOnce ==
  /\ captures = IF receipt = 0 THEN 0 ELSE 1
  /\ receipt # 0 => file = receipt

(* Only an accepted intake advances the run: a run that reached Verify or    *)
(* completed has its frame in the library and no work left.                  *)
VerifiedIsRetained ==
  phase \in {"verify", "completed"} =>
    receipt # 0 /\ \A k \in Kinds : work[k] \notin Unsettled

(* A stopped run comes to rest: all its work settles, except that an abort   *)
(* the camera rejected leaves an exposure of unknown outcome unresolved.     *)
AllSettled == \A k \in Kinds : work[k] \notin Unsettled
Unresolved ==
  work["AbortExposure"] = "rejected" /\ work["StartExposure"] = "reconciling"
StoppedRunSettles == (phase = "stopped") ~> (AllSettled \/ Unresolved)

(* No image is read off the camera after its exposure was aborted            *)
(* (beta-real-runtime-plan.md, "abort reads no image bytes").                *)
AbortReadsNoImage == worker.at = "image" => camera.ended # "aborted"

(* It holds as long as only the run commands the camera.                     *)
OwnAbortReadsNoImage == direct = 0 => AbortReadsNoImage

(* A run's rows, its phase, the frame and its receipt tell one story in      *)
(* every moment (pass, reconcile, materializeCapturedFrame).                 *)
RunIsSound ==
  TypeOK /\ RowsConsistent /\ FrameRetainedOnce /\ VerifiedIsRetained

(* While only the run commands the camera, the image it reads is that of     *)
(* its own finished exposure and never of an aborted one (reconcile).        *)
OwnImageIsRead == FrameOfFinishedExposure /\ OwnAbortReadsNoImage

(* A halted run stays where the operator left it and never exposes           *)
(* (commitWorkTransition, continueCompletedAcquire, enqueueExposureAbort).   *)
HaltedRunIsLeftAlone == HaltedStaysHalted /\ HaltedRunNeverExposes
=============================================================================
