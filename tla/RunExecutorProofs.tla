-------------------------- MODULE RunExecutorProofs --------------------------
(***************************************************************************)
(* Theorems of RunExecutor for every bound and with or without the second   *)
(* writer.  The inductive invariant is the conjunction of the type           *)
(* invariant, the consistency of the rows, a ledger that ties each command's *)
(* row to how often it was sent, and the facts about the frame's receipt.    *)
(***************************************************************************)
EXTENDS RunExecutor, TLAPS

(* What a row says of its command: it was sent exactly when it was claimed.  *)
Unclaimed == {"absent", "pending", "cancelled"}
Ledger == \A k \in Commands : sent[k] = IF work[k] \in Unclaimed THEN 0 ELSE 1

(* What the receipt says of the frame, and where the worker may be with it.  *)
Retained ==
  /\ FrameRetainedOnce
  /\ worker.at = "image" => receipt = 0
  /\ worker.at = "inspect" => receipt # 0

Inv == TypeOK /\ RowsConsistent /\ Ledger /\ Retained /\ VerifiedIsRetained

-----------------------------------------------------------------------------
(* The rows and the file stay of their types under the helpers.              *)

LEMMA EnqueueAbortType ==
  ASSUME NEW rows \in [Kinds -> Unsettled \cup Settled \cup {"absent"}]
  PROVE  EnqueueAbort(rows) \in [Kinds -> Unsettled \cup Settled \cup {"absent"}]
  BY DEF EnqueueAbort, Kinds, Commands, Unsettled, Settled, Claimed

LEMMA WrittenType ==
  ASSUME TypeOK PROVE Written \subseteq Nat
  BY DEF TypeOK, Written

LEMMA TransitionType ==
  ASSUME TypeOK, NEW p \in Phases PROVE Transition(p) \in Phases
  BY DEF TypeOK, Transition

(* Every step keeps the type invariant, one group of actions at a time.      *)
LEMMA OperatorType ==
  ASSUME TypeOK, Operator PROVE TypeOK'
<1> USE DEF TypeOK, run, frame, device, counters, awaits
<1>1. CASE StartRun
  BY <1>1 DEF StartRun, Phases, Kinds, Commands, Unsettled, Settled
<1>2. CASE RefreshPreflight
  BY <1>2 DEF RefreshPreflight
<1>3. CASE PreflightObserved
  BY <1>3 DEF PreflightObserved
<1>4. CASE Pause
  BY <1>4, EnqueueAbortType DEF Pause, Phases
<1>5. CASE Stop
  BY <1>5, EnqueueAbortType DEF Stop, Phases
<1>6. CASE AcquireCompletes
  BY <1>6 DEF AcquireCompletes
<1>7. CASE DirectCommand
  BY <1>7 DEF DirectCommand
<1>8. CASE DirectTaken
  BY <1>8 DEF DirectTaken, BeginsExposing, Aborted
<1>9. CASE DirectAnswered
  BY <1>9 DEF DirectAnswered, NoDirect
<1> QED
  BY <1>1, <1>2, <1>3, <1>4, <1>5, <1>6, <1>7, <1>8, <1>9 DEF Operator

LEMMA CameraType ==
  ASSUME TypeOK, Camera PROVE TypeOK'
<1> USE DEF TypeOK, run, frame, device, counters, awaits
<1>1. ASSUME NEW k \in Commands, CameraTakes(k) PROVE TypeOK'
  BY <1>1 DEF CameraTakes, BeginsExposing, Aborted
<1>2. ASSUME NEW k \in Commands, CommandLost(k) PROVE TypeOK'
  BY <1>2 DEF CommandLost
<1>3. CASE CameraFinishes
  BY <1>3 DEF CameraFinishes
<1>4. CASE ExposureStarts
  BY <1>4 DEF ExposureStarts
<1>5. CASE PostAckGraceEnds
  BY <1>5 DEF PostAckGraceEnds
<1> QED
  BY <1>1, <1>2, <1>3, <1>4, <1>5 DEF Camera

LEMMA WorkerType ==
  ASSUME TypeOK, Worker PROVE TypeOK'
<1>0. ASSUME NEW k \in Commands PROVE transit \cup {k} \subseteq Commands
  BY <1>0 DEF TypeOK
<1> USE TransitionType, WrittenType
    DEF TypeOK, run, frame, device, counters, awaits, Idle, Awaiting, Leaves, Settle,
        EnqueueExposure, Phases, Kinds, Commands, Unsettled, Settled, Claimed
<1>1. CASE BeginRun
  BY <1>1 DEF BeginRun
<1>2. CASE ContinueCompletedAcquire
  BY <1>2 DEF ContinueCompletedAcquire
<1>3. CASE IdleBeforeExposure
  BY <1>3 DEF IdleBeforeExposure
<1>4. CASE ExposureConcluded
  BY <1>4 DEF ExposureConcluded
<1>5. CASE AbortConcluded
  BY <1>5 DEF AbortConcluded
<1>6. CASE BeginRetrieval
  BY <1>6 DEF BeginRetrieval
<1>7. CASE RetrievalRejected
  BY <1>7 DEF RetrievalRejected
<1>8. CASE FrameRetained
  BY <1>8 DEF FrameRetained
<1>9. CASE FrameInspected
  BY <1>9 DEF FrameInspected
<1>10. ASSUME NEW k \in Commands, ClaimCommand(k) PROVE TypeOK'
  <2>1. transit' \subseteq Commands
    BY <1>10, <1>0 DEF ClaimCommand
  <2>3. sent' \in [Commands -> Nat]
    BY <1>10 DEF ClaimCommand
  <2>2. work' \in [Kinds -> Unsettled \cup Settled \cup {"absent"}]
    BY <1>10 DEF ClaimCommand
  <2> QED BY <1>10, <2>1, <2>2, <2>3 DEF ClaimCommand
<1>11. ASSUME NEW k \in Commands, ObserveClaim(k) PROVE TypeOK'
  BY <1>11 DEF ObserveClaim
<1>12. ASSUME NEW k \in Commands, Acknowledged(k) PROVE TypeOK'
  BY <1>12 DEF Acknowledged
<1>13. ASSUME NEW k \in Commands, CommandRejected(k) PROVE TypeOK'
  BY <1>13 DEF CommandRejected
<1>14. ASSUME NEW k \in Commands, OutcomeUnknown(k) PROVE TypeOK'
  BY <1>14 DEF OutcomeUnknown
<1>15. ASSUME NEW k \in Commands, ExposureObserved(k) PROVE TypeOK'
  BY <1>15 DEF ExposureObserved
<1> QED
  BY <1>1, <1>2, <1>3, <1>4, <1>5, <1>6, <1>7, <1>8, <1>9, <1>10, <1>11, <1>12,
     <1>13, <1>14, <1>15 DEF Worker

LEMMA TypeStep ==
  ASSUME TypeOK, [Next]_vars PROVE TypeOK'
<1>1. CASE Restart
  BY <1>1, WrittenType
  DEF Restart, TypeOK, Idle, NoDirect, run, device
<1>2. CASE PassThrows
  BY <1>2, WrittenType
  DEF PassThrows, TypeOK, Idle, run, device, counters, awaits
<1>3. CASE UNCHANGED vars
  BY <1>3 DEF vars, TypeOK, run, frame, device, counters, awaits
<1> QED
  BY <1>1, <1>2, <1>3, OperatorType, CameraType, WorkerType DEF Next

(* Every state of the executor is of its type: in particular no row ever     *)
(* holds a state outside the ones the worker's schema decodes.               *)
THEOREM TypeCorrect == Spec => []TypeOK
<1>1. Init => TypeOK
  BY DEF Init, TypeOK, Phases, Idle, NoDirect, Kinds, Commands, Unsettled, Settled
<1>2. TypeOK /\ [Next]_vars => TypeOK'
  BY TypeStep
<1> QED
  BY <1>1, <1>2, PTL DEF Spec

-----------------------------------------------------------------------------
(* The inductive invariant.  A row the worker holds is unsettled, so the     *)
(* handlers that cancel pending rows and the pass that settles a claimed one *)
(* never meet; that is what keeps the ledger and the order of the rows.      *)
LEMMA InvInit == Init => Inv
  BY DEF Init, Inv, TypeOK, RowsConsistent, Ledger, Retained, FrameRetainedOnce,
     VerifiedIsRetained, Phases, Idle, NoDirect, Kinds, Commands, Unsettled, Settled,
     Claimed, Unclaimed

LEMMA OperatorInv ==
  ASSUME Inv, Operator PROVE Inv'
<1>0. TypeOK'
  BY OperatorType DEF Inv
<1> USE DEF Inv, RowsConsistent, Ledger, Retained, FrameRetainedOnce,
        VerifiedIsRetained, Unclaimed, Kinds, Commands, Unsettled, Settled, Claimed,
        run, frame, device, counters, awaits
<1>1. CASE StartRun
  BY <1>0, <1>1 DEF StartRun, TypeOK
<1>2. CASE RefreshPreflight
  BY <1>0, <1>2 DEF RefreshPreflight
<1>3. CASE PreflightObserved
  BY <1>0, <1>3 DEF PreflightObserved
<1>4. CASE Pause
  BY <1>0, <1>4 DEF Pause, EnqueueAbort, TypeOK
<1>5. CASE Stop
  BY <1>0, <1>5 DEF Stop, EnqueueAbort, TypeOK
<1>6. CASE AcquireCompletes
  BY <1>0, <1>6 DEF AcquireCompletes
<1>7. CASE DirectCommand \/ DirectTaken \/ DirectAnswered
  BY <1>0, <1>7 DEF DirectCommand, DirectTaken, DirectAnswered
<1> QED
  BY <1>1, <1>2, <1>3, <1>4, <1>5, <1>6, <1>7 DEF Operator

LEMMA CameraInv ==
  ASSUME Inv, Camera PROVE Inv'
<1>0. TypeOK'
  BY CameraType DEF Inv
<1>1. UNCHANGED <<phase, work, worker, sent, frame>>
  BY DEF Camera, CameraTakes, CommandLost, CameraFinishes, ExposureStarts,
     PostAckGraceEnds, run
<1> QED
  BY <1>0, <1>1 DEF Inv, RowsConsistent, Ledger, Retained, FrameRetainedOnce,
     VerifiedIsRetained, frame

LEMMA WorkerInv ==
  ASSUME Inv, Worker PROVE Inv'
<1>0. TypeOK'
  BY WorkerType DEF Inv
<1> USE <1>0 DEF Inv, TypeOK, RowsConsistent, Ledger, Retained,
        FrameRetainedOnce, VerifiedIsRetained, Unclaimed, Kinds, Commands,
        Unsettled, Settled, Claimed, run, frame, device, counters, awaits, Idle,
        Awaiting, Leaves, Settle, EnqueueExposure, Transition
<1>1. CASE BeginRun
  BY <1>1 DEF BeginRun, Selected, Rank
<1>2. CASE ContinueCompletedAcquire
  BY <1>2 DEF ContinueCompletedAcquire
<1>3. CASE IdleBeforeExposure
  BY <1>3 DEF IdleBeforeExposure
<1>4. CASE ExposureConcluded
  BY <1>4 DEF ExposureConcluded
<1>5. CASE AbortConcluded
  BY <1>5 DEF AbortConcluded
<1>6. CASE BeginRetrieval
  BY <1>6 DEF BeginRetrieval, Selected, Rank
<1>7. CASE RetrievalRejected
  BY <1>7 DEF RetrievalRejected, Written
<1>8. CASE FrameRetained
  BY <1>8 DEF FrameRetained
<1>9. CASE FrameInspected
  BY <1>9 DEF FrameInspected
<1>10. ASSUME NEW k \in Commands, ClaimCommand(k) PROVE Inv'
  BY <1>10 DEF ClaimCommand, Selected, Rank
<1>11. ASSUME NEW k \in Commands, ObserveClaim(k) PROVE Inv'
  BY <1>11 DEF ObserveClaim, Selected, Rank
<1>12. ASSUME NEW k \in Commands, Acknowledged(k) PROVE Inv'
  BY <1>12 DEF Acknowledged
<1>13. ASSUME NEW k \in Commands, CommandRejected(k) PROVE Inv'
  BY <1>13 DEF CommandRejected
<1>14. ASSUME NEW k \in Commands, OutcomeUnknown(k) PROVE Inv'
  BY <1>14 DEF OutcomeUnknown
<1>15. ASSUME NEW k \in Commands, ExposureObserved(k) PROVE Inv'
  BY <1>15 DEF ExposureObserved
<1> QED
  BY <1>1, <1>2, <1>3, <1>4, <1>5, <1>6, <1>7, <1>8, <1>9, <1>10, <1>11, <1>12,
     <1>13, <1>14, <1>15 DEF Worker

LEMMA InvStep ==
  ASSUME Inv, [Next]_vars PROVE Inv'
<1>0. TypeOK'
  BY TypeStep DEF Inv
<1> USE <1>0 DEF Inv, RowsConsistent, Ledger, Retained, FrameRetainedOnce,
        VerifiedIsRetained, Idle, run, frame, device, counters, awaits
<1>1. CASE Restart
  BY <1>1 DEF Restart, Written
<1>2. CASE PassThrows
  BY <1>2 DEF PassThrows, Written
<1>3. CASE UNCHANGED vars
  BY <1>3 DEF vars
<1> QED
  BY <1>1, <1>2, <1>3, OperatorInv, CameraInv, WorkerInv DEF Next

LEMMA Invariance == Spec => []Inv
  BY InvInit, InvStep, PTL DEF Spec

(* The rows of a run tell one story, whatever handlers, passes, crashes and  *)
(* restarts interleave.                                                      *)
THEOREM RowsTellOneStory == Spec => []RowsConsistent
<1>1. Inv => RowsConsistent
  BY DEF Inv
<1> QED BY <1>1, Invariance, PTL

(* No camera command is ever sent twice for a run.                           *)
THEOREM WritesClaimedOnce == Spec => []CommandsSentOnce
<1>1. Inv => CommandsSentOnce
  BY DEF Inv, TypeOK, Ledger, CommandsSentOnce
<1> QED BY <1>1, Invariance, PTL

(* One library frame at most, and its receipt names the original on disk.    *)
THEOREM RetainedOnce == Spec => []FrameRetainedOnce
<1>1. Inv => FrameRetainedOnce
  BY DEF Inv, Retained
<1> QED BY <1>1, Invariance, PTL

(* A run in Verify or completed has its frame and no work left.              *)
THEOREM VerifyNeedsIntake == Spec => []VerifiedIsRetained
<1>1. Inv => VerifiedIsRetained
  BY DEF Inv
<1> QED BY <1>1, Invariance, PTL

-----------------------------------------------------------------------------
(* Halting.                                                                  *)

Halted == phase \in {"paused", "stopped"}

LEMMA HaltedStep ==
  ASSUME Inv, [Next]_vars, Halted
  PROVE  /\ phase' = phase \/ phase' = "stopped"
         /\ sent["StartExposure"] = 0 =>
              sent'["StartExposure"] = 0 /\ work'["StartExposure"] # "pending"
<1>0. Inv'
  BY InvStep
<1>1. phase' = phase \/ phase' = "stopped"
  <2> USE DEF Halted, run
  <2>1. CASE Operator
    BY <2>1 DEF Operator, StartRun, RefreshPreflight, PreflightObserved, Pause,
       Stop, AcquireCompletes, DirectCommand, DirectTaken, DirectAnswered
  <2>2. CASE Camera
    BY <2>2 DEF Camera, CameraTakes, CommandLost, CameraFinishes, ExposureStarts,
       PostAckGraceEnds
  <2>3. CASE Worker
    BY <2>3 DEF Worker, BeginRun, ContinueCompletedAcquire, IdleBeforeExposure,
       ExposureConcluded, AbortConcluded, BeginRetrieval, RetrievalRejected,
       FrameRetained, FrameInspected, ClaimCommand, ObserveClaim, Acknowledged,
       CommandRejected, OutcomeUnknown, ExposureObserved, Leaves, Transition
  <2>4. CASE Restart \/ PassThrows \/ UNCHANGED vars
    BY <2>4 DEF Restart, PassThrows, vars
  <2> QED BY <2>1, <2>2, <2>3, <2>4 DEF Next
<1>2. work'["StartExposure"] # "pending"
  BY <1>0, <1>1 DEF Halted, Inv, RowsConsistent
<1>3. ASSUME sent["StartExposure"] = 0 PROVE sent'["StartExposure"] = 0
  <2>1. work["StartExposure"] # "pending"
    BY DEF Halted, Inv, RowsConsistent
  <2>2. ASSUME NEW k \in Commands, ClaimCommand(k)
        PROVE  sent'["StartExposure"] = sent["StartExposure"]
    BY <2>1, <2>2 DEF ClaimCommand, Inv, TypeOK, Commands
  <2>3. UNCHANGED sent \/ \E k \in Commands : ClaimCommand(k)
    BY DEF Next, Operator, StartRun, RefreshPreflight, PreflightObserved, Pause,
       Stop, AcquireCompletes, DirectCommand, DirectTaken, DirectAnswered,
       Camera, CameraTakes, CommandLost, CameraFinishes, ExposureStarts, PostAckGraceEnds, Worker, BeginRun,
       ContinueCompletedAcquire, IdleBeforeExposure, ExposureConcluded,
       AbortConcluded, BeginRetrieval, RetrievalRejected, FrameRetained,
       FrameInspected, ObserveClaim, Acknowledged, CommandRejected,
       OutcomeUnknown, ExposureObserved, Restart, PassThrows, vars
  <2> QED BY <1>3, <2>2, <2>3
<1> QED BY <1>1, <1>2, <1>3

(* No answer of a provider, early or late, moves a paused or a stopped run.  *)
THEOREM HaltSticks == Spec => HaltedStaysHalted
<1>1. Inv /\ [Next]_vars =>
        [/\ phase = "stopped" => phase' = "stopped"
         /\ phase = "paused" => phase' \in {"paused", "stopped"}]_vars
  BY HaltedStep DEF Halted
<1> QED BY <1>1, Invariance, PTL DEF Spec, HaltedStaysHalted

(* A run halted before its exposure was claimed never exposes the camera.    *)
THEOREM HaltPreventsExposure == Spec => HaltedRunNeverExposes
<1>1. Inv /\ [Next]_vars =>
        [(phase \in {"paused", "stopped"} /\ sent["StartExposure"] = 0)
           => sent'["StartExposure"] = 0 /\ work'["StartExposure"] # "pending"]_vars
  BY HaltedStep DEF Halted
<1> QED BY <1>1, Invariance, PTL DEF Spec, HaltedRunNeverExposes

-----------------------------------------------------------------------------
(* The camera seen from the rows, as long as only the run commands it: a     *)
(* command in transit belongs to a claimed row, an exposure in progress to a  *)
(* start that was executed, and an exposure observed active has left its     *)
(* image unless an abort that is still claimed took it.                      *)
Device ==
  /\ directing = NoDirect
  /\ camera.image \in {0, exposures}
  /\ camera.image # 0 => camera.state = "idle" /\ camera.ended = "finished"
  /\ camera.state # "idle" =>
       /\ exposures # 0
       /\ "StartExposure" \notin transit
       /\ work["StartExposure"] \notin Unclaimed
  /\ \A k \in transit : work[k] \notin Unclaimed \cup {"rejected"}
  /\ work["BeginRun"] \notin Settled => acquire = "none"
  /\ acquire = "active" => work["StartExposure"] = "absent"
  /\ work["AbortExposure"] = "completed" => work["StartExposure"] \notin Claimed
  /\ worker \in {Awaiting("command", "StartExposure"), Awaiting("state", "StartExposure")}
       => work["AbortExposure"] \notin Claimed
  /\ work["StartExposure"] = "observing" =>
       /\ "StartExposure" \notin transit
       /\ camera.state # "starting"
       /\ (camera.state = "idle" /\ camera.image = 0) =>
            work["AbortExposure"] \in Claimed /\ "AbortExposure" \notin transit
  /\ work["RetrieveFrame"] # "absent" =>
       "StartExposure" \notin transit /\ camera.state = "idle" /\ camera.image # 0

\* A direct command is never forgotten.
LEMMA DirectStep ==
  ASSUME Inv, [Next]_vars, direct' = 0 PROVE direct = 0
  BY DEF Inv, TypeOK, Next, Operator, Camera, Worker, vars, counters, awaits,
         run, frame, device,
         StartRun, RefreshPreflight, PreflightObserved, Pause, Stop,
         AcquireCompletes, DirectCommand, DirectTaken, DirectAnswered,
         CameraTakes, CommandLost, CameraFinishes, ExposureStarts,
         PostAckGraceEnds, BeginRun, ContinueCompletedAcquire,
         IdleBeforeExposure, ExposureConcluded, AbortConcluded,
         BeginRetrieval, RetrievalRejected, FrameRetained, FrameInspected,
         ClaimCommand, ObserveClaim, Acknowledged, CommandRejected,
         OutcomeUnknown, ExposureObserved, Restart, PassThrows

LEMMA DeviceStep ==
  ASSUME direct' = 0, Inv, Device, [Next]_vars PROVE Device'
<1>0. TypeOK' /\ RowsConsistent'
  BY InvStep DEF Inv
<1> USE <1>0 DEF Device, Inv, TypeOK, RowsConsistent, Unclaimed, Kinds, Commands,
        Unsettled, Settled, Claimed, Idle, Awaiting, run, frame, device, counters, awaits
<1>1. CASE StartRun
  BY <1>1 DEF StartRun
<1>2. CASE RefreshPreflight \/ PreflightObserved
  BY <1>2 DEF RefreshPreflight, PreflightObserved
<1>3. CASE Pause \/ Stop
  BY <1>3 DEF Pause, Stop, EnqueueAbort
<1>4. CASE AcquireCompletes
  BY <1>4 DEF AcquireCompletes
<1>5. CASE DirectCommand \/ DirectTaken \/ DirectAnswered
  BY <1>5 DEF DirectCommand, DirectTaken, DirectAnswered, NoDirect
<1>6. ASSUME NEW k \in Commands, CameraTakes(k) PROVE Device'
  BY <1>6 DEF CameraTakes, BeginsExposing, Aborted
<1>7. ASSUME NEW k \in Commands, CommandLost(k) PROVE Device'
  BY <1>7 DEF CommandLost
<1>8. CASE CameraFinishes \/ ExposureStarts \/ PostAckGraceEnds
  BY <1>8 DEF CameraFinishes, ExposureStarts, PostAckGraceEnds
<1>9. CASE Worker
  <2> USE DEF Leaves, Settle, EnqueueExposure, ReadsIdle
  <2>1. CASE BeginRun
    BY <2>1 DEF BeginRun, Selected, Rank
  <2>12. CASE ContinueCompletedAcquire
    BY <2>12 DEF ContinueCompletedAcquire
  <2>2. CASE IdleBeforeExposure
    BY <2>2 DEF IdleBeforeExposure
  <2>3. CASE ExposureConcluded
    BY <2>3 DEF ExposureConcluded
  <2>4. CASE AbortConcluded
    BY <2>4 DEF AbortConcluded
  <2>5. CASE BeginRetrieval
    BY <2>5 DEF BeginRetrieval, Selected
  <2>13. CASE RetrievalRejected
    BY <2>13 DEF RetrievalRejected
  <2>14. CASE FrameRetained
    BY <2>14 DEF FrameRetained
  <2>15. CASE FrameInspected
    BY <2>15 DEF FrameInspected
  <2>6. ASSUME NEW k \in Commands, ClaimCommand(k) PROVE Device'
    BY <2>6 DEF ClaimCommand, Selected, Rank
  <2>7. ASSUME NEW k \in Commands, ObserveClaim(k) PROVE Device'
    BY <2>7 DEF ObserveClaim, Selected, Rank
  <2>8. ASSUME NEW k \in Commands, Acknowledged(k) PROVE Device'
    BY <2>8 DEF Acknowledged
  <2>9. ASSUME NEW k \in Commands, CommandRejected(k) PROVE Device'
    BY <2>9 DEF CommandRejected
  <2>10. ASSUME NEW k \in Commands, OutcomeUnknown(k) PROVE Device'
    BY <2>10 DEF OutcomeUnknown
  <2>11. ASSUME NEW k \in Commands, ExposureObserved(k) PROVE Device'
    BY <2>11 DEF ExposureObserved
  <2> QED
    BY <1>9, <2>1, <2>2, <2>3, <2>4, <2>5, <2>6, <2>7, <2>8, <2>9, <2>10, <2>11, <2>12,
       <2>13, <2>14, <2>15
    DEF Worker
<1>10. CASE Restart \/ PassThrows
  BY <1>10 DEF Restart, PassThrows
<1>11. CASE UNCHANGED vars
  BY <1>11 DEF vars
<1> QED
  BY <1>1, <1>2, <1>3, <1>4, <1>5, <1>6, <1>7, <1>8, <1>9, <1>10, <1>11
  DEF Next, Operator, Camera

(* The one frame a run retrieves is the one its own exposure left: nothing   *)
(* is retrieved from an exposure in progress, aborted, or never executed.    *)
THEOREM OwnFrameRetrieved == Spec => []FrameOfFinishedExposure
<1>1. Init => (direct = 0 => Device)
  BY DEF Init, Device, NoDirect, Idle, Awaiting, Unclaimed, Claimed, Kinds, Commands
<1>2. Inv /\ (direct = 0 => Device) /\ [Next]_vars => (direct = 0 => Device)'
  BY DeviceStep, DirectStep
<1>3. (direct = 0 => Device) => FrameOfFinishedExposure
  BY DEF Device, FrameOfFinishedExposure
<1> QED BY <1>1, <1>2, <1>3, Invariance, PTL DEF Spec

(* The run's own abort never leads to an image read.                         *)
THEOREM OwnAbortLeavesImage == Spec => []OwnAbortReadsNoImage
<1>1. Init => (direct = 0 => Device)
  BY DEF Init, Device, NoDirect, Idle, Awaiting, Unclaimed, Claimed, Kinds, Commands
<1>2. Inv /\ (direct = 0 => Device) /\ [Next]_vars => (direct = 0 => Device)'
  BY DeviceStep, DirectStep
<1>3. Inv /\ (direct = 0 => Device) => OwnAbortReadsNoImage
  BY DEF Inv, RowsConsistent, Unsettled, Claimed, Device, AbortReadsNoImage,
         OwnAbortReadsNoImage
<1> QED BY <1>1, <1>2, <1>3, Invariance, PTL DEF Spec

(* The run is sound in every reachable moment, for any number of restarts.   *)
THEOREM RunStaysSound == Spec => []RunIsSound
BY TypeCorrect, RowsTellOneStory, RetainedOnce, VerifyNeedsIntake, PTL
   DEF RunIsSound

(* Without direct commands the run reads its own finished image alone.       *)
THEOREM ReadsOwnImage == Spec => []OwnImageIsRead
BY OwnFrameRetrieved, OwnAbortLeavesImage, PTL DEF OwnImageIsRead

(* No step of any actor moves a halted run or makes it expose.               *)
THEOREM HaltHolds == Spec => HaltedRunIsLeftAlone
BY HaltSticks, HaltPreventsExposure, PTL DEF HaltedRunIsLeftAlone
=============================================================================
