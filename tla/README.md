# Formal models of the Astro Console

TLA+ modules, TLC configurations and TLAPS proofs for this repository: the
origin server that owns the observatory's state (`apps/server`), its workers and
providers, and the part of the browser that keeps, offers and sends
(`apps/web`). Server paths below are relative to `apps/server/src` unless they
start with `apps/` or `docs/`; web paths are relative to `apps/web/src`.

    tlc -config MCControlLease_safety.cfg MCControlLease     # model-check a run
    tlapm RunExecutorProofs.tla                              # check the proofs

## 1. The system

One Node process holds a synchronous SQLite connection, so every handler that
does not await is one tick and one step. What interleaves is: handlers that
await a provider (camera, preflight, solver, storage, an identity provider), the
loops forked at start-up, other processes on the same database file (the
publisher), the hardware, the clients, and the loss of the process. In the
browser, what interleaves are the fibers of the workspace runtime and the
renderings of the pages between which a person clicks.

| Component | State | Operations | Talks to |
| --- | --- | --- | --- |
| Control lease (`persistence/control-sqlite-repository.ts`, `persistence/state-sqlite-repository.ts`) | lease columns of `state`, `control_requests`, `control_command_receipts` | request, grant, decline, release, take; connect, disconnect; grace expiry | every command handler reads it; publication drives connect, disconnect, expiry |
| Projection publication (`services/projection-publication.ts`) | streams per client, one latest-value queue per subscriber, emitted cursor | stream open and close, publish, 250 ms poll | state repository, HTTP streams, browsers |
| Run lifecycle (`persistence/run/*`) | `run` in `state`, plan, definitions, receipts per command family, mutation previews | save and accept a plan, start, pause, resume, stop, skip, retry, park, preview and apply a mutation, advance the fake executor | lease, executor work |
| Run executor (`workers/run-executor-worker.ts`) | `run_executor_work` rows, `camera_observations` | one pass every 250 ms: begin, claim and send, observe, retrieve | camera, intake, run state |
| Frame intake (`services/captured-frame-intake.ts`) | originals on disk, `library_assets`, `captured_frame_receipts`, orphans | materialize, reconcile | executor, Acquire |
| Preflight (`services/preflight-service.ts`, `providers/alpaca-preflight-provider.ts`) | `run.preflight` | observe the devices, refresh | rig, run state |
| Camera (`providers/alpaca-camera-provider.ts`, `services/camera-command-service.ts`) | the device | start, abort, read state, read image | executor, Acquire, direct commands |
| Alpaca simulator (`simulator/alpaca-simulator.ts`) | a camera with scenarios and a frame cursor | start, abort, state, image, advance, restart | stands for the rig |
| Acquire (`services/acquire-domain.ts`, `services/target-acquisition-service.ts`, `services/polar-service.ts`) | `acquire_sessions`, `acquire_receipts` | capture, retry, correct, approve, recover, skip, abort; polar measurements | run, providers |
| Acquire providers and plate solver (`services/*-target-acquisition-provider.ts`, `workers/plate-solve-worker.ts`) | `configured_acquire_work`, `plate_solve_runs`, originals | slew, correct, expose, retrieve, solve | mount, camera, solver |
| Processing projects (`services/processing-project-service.ts`, `workers/process-work-worker.ts`) | projects, attempts, results and their history, previews, `processing_work`, artifacts | sources, run, undo, redo, drafts, previews, save; claim, materialise, settle | library, file system |
| Publisher and downloads (`workers/publisher-worker.ts`, `services/library-*.ts`) | `outbox`, `asset_publications`, grants, reviews | claim, upload, verify, settle; review; preview; grant | object storage; a process of its own |
| Admission (`auth/access-admission.ts`) | key cache, membership file, `memberships` | resolve a key, read the file, bind a subject, identity | every handler |
| Web runtime (`workspace-runtime.ts`, `bootstrap-client.ts`, `*-client.ts`) | a snapshot and its cursor, the open Project, details, lists, requests under way | bootstrap, stream, command, route changes, operations | origin |
| Pages (`components/workspaces/*`) | drafts, dialogs, selections, what they have rendered | edit, confirm, submit | web runtime |

HTTP decoding, configuration, telemetry, layout and viewers keep no state that a
property here would relate, and are not modelled.

### What is hard, and what must hold

* **Lease.** Two tabs, a reconnect that races the grace, stale and repeated
  commands, an expiry inside another command's handler, a second writer, a
  restart. Control is exclusive, never moves silently, never reaches a
  read-only client, and a grace always ends.
* **Executor.** Each provider call suspends a pass: pause, stop, a refresh, a
  direct command, an acquisition, a crash or a locked database come in between;
  a command without an answer may have been executed. A camera write is never
  replayed, a halted run is never moved by a late answer, the retrieved frame is
  the run's own, it is retained once, and a stopped run comes to rest.
* **Run lifecycle.** Six tables of receipts, three revisions, handlers that
  differ in whether they expire the grace first, and commands delivered late or
  again. A run moves only as its holder commands, the fake executor accounts for
  every sequence once, an ended run stays ended.
* **Acquire.** A request reads the session, awaits the rig and stores what it
  computed from what it had read. Whatever the rig did can be recorded, a
  session completes by an image taken after the last movement, and nothing is
  sent to the mount or the camera twice.
* **Processing.** Undo and redo against running work, a process lost between a
  file and its row. Attempts and rows agree, a failed attempt never replaces the
  current result, what a stage shows descends from what the stages before show.
* **Outbox and intake.** Claims that run out under a slow upload, a stop between
  a file and its record. What the Library shows exists, and work gets done.
* **Browser.** Reads, events and answers that end in any order. Nothing shown
  becomes older by something late and a page settles on what the service has,
  each with the exceptions that the properties name (section 3); nothing is
  created twice, and a click does what the page showed to the person who made it.

`PROJECT.json` lists every hazard at its line.

## 2. Modules

| Module | Content |
| --- | --- |
| `FencedLease` | Abstract: one holder at most, and a term that grows with every change of holder. |
| `ControlLease`, `ControlLeaseProofs` | The lease, the stream counts and the poll. Implements `FencedLease`. |
| `RunExecutor`, `RunExecutorProofs` | A run under the real executor, its work rows, the worker, the intake, preflight and the camera. |
| `RunLifecycle`, `RunLifecycleProofs` | Plan and run commands with their receipts, and what the workspaces offer. |
| `ProcessingProject`, `ProcessingProjectProofs` | Projects, their intents, the worker, and the buttons of the Process page. |
| `AcquireSession`, `AcquireSessionProofs`, `ObservePage` | The Acquire session and its requests; the Observe page over it. |
| `AcquireProvider`, `AcquireProviderProofs` | The rig providers of an attempt: claims, writes, images, solving. |
| `AlpacaCamera`, `AlpacaPreflight` | Camera calls against the simulated rig; an observation of the devices. |
| `RigProviders` (in `AcquireProviderProofs`) | Attempts, camera calls and preflight of one rig side by side. |
| `Publisher`, `LibraryProofs` | The outbox, its publishers and the Library's rows. |
| `FrameIntake` (in `LibraryProofs`), `LibraryPreview` | The intake of one frame; admission of previews. |
| `LiveProjection` | A browser that keeps up with the origin. |
| `ProjectDesk`, `AssetReview`, `ProjectIntake` | The open Project, the review of an Asset, the intake of Assets into Projects, in the browser. |
| `Browser`, `WorkspaceProofs` | The four parts of the browser side by side, and what holds of all its pages. |
| `AccessAdmission` (in `WorkspaceProofs`) | Keys, membership and identity of a request. |
| `PlanPage`, `PlanSchedule` | The Plan page between snapshot, rendering and click; its timeline. |
| `Origin` (in `WorkspaceProofs`) | The door of an origin and the Plan page behind it. |
| `MC*` | Instances for TLC (section 3). |

Definitions marked *Mutant* are not part of a specification: each is the
definition that follows it with a plausible bug. `PROJECT.json` pairs every
property of a passing run with one that refutes it.

### ControlLease

`lease` holds the four columns `leaseHolder`, `leaseRevision`, `leaseState` and
`reconnectGraceUntil`; the deadline is abstracted to *none*, *running* or
*elapsed*, and `GraceElapses` is the clock. `requests` are the rows of
`control_requests`, each with whether it is overdue; `receipts` maps a key and
a client to the command stored under it; `applied` is a history variable.
`streams` and `polling` live in the process and are lost by `Restart`.

`acceptControl` is one transaction, and each of its outcomes one action:
`RequestControl`, `DeclineControl`, `GrantControl`, `ReleaseControl`,
`TakeControl`, `AnswerFromReceipt`, `Refuse`. Every one of them applies
`Expired` first, as the handler does, and `Live`, since every read of the state
purges overdue requests. A client may deliver any command at any time: stale,
repeated and reordered ones are all in `Commands`. `PollDies` and
`CloseStreamBusy` are what a locked database does: the origin opens the file
without `busy_timeout` (`persistence/database.ts:36`).

Abstracted: the person behind a client (admission gives each client one), the
stored response, event cursor and snapshot version. The capability column of a
request is always 1, because a read-only client is refused before the insert.

### RunExecutor

`work` holds the state of the four rows a run can have (`BeginRun`,
`StartExposure`, `AbortExposure`, `RetrieveFrame`; there is one of each because
the executor refuses any definition other than one sequence with one frame).
`worker` says what the suspended pass awaits: the acknowledgement of a
`command`, the `state` of the camera, the `image`, or the inspection. The row a
pass selected is not kept apart from the stored row: no other handler writes a
row in a claimed state, which `RowsConsistent` states and the proof uses.

| Code | Actions |
| --- | --- |
| `acceptRun`, `acceptRunIntervention`, `acceptFakePolicy` | `StartRun`, `Pause`, `Stop` with `EnqueueAbort` |
| `refreshPreflight`, `persistPreflight` | `RefreshPreflight` before the provider call, `PreflightObserved` after it |
| `executeCamera` | `DirectCommand` before the call, `DirectTaken` in the camera, `DirectAnswered` after it |
| `beginRun`, `continueCompletedAcquire` | `BeginRun`, `ContinueCompletedAcquire` |
| `runWork` | `ClaimCommand`; then `Acknowledged`, `CommandRejected` or `OutcomeUnknown`; `ObserveClaim` for a row that is claimed already |
| `reconcile` | `OutcomeUnknown`, `IdleBeforeExposure`, `ExposureObserved`, `ExposureConcluded`, `AbortConcluded` |
| `retrieveFrame`, `materializeCapturedFrame` | `BeginRetrieval`, `RetrievalRejected`, `FrameRetained` |
| `finishRetrievedFrame` | `FrameInspected` |
| `commitWorkTransition` | `Leaves` with `Transition` |

The camera executes a command at any time after it was sent and before it is
answered or lost, also after the origin gave up on it. An exposure that is
*starting* may still read idle, which is why the code has a two-second grace
after the acknowledgement (`acked` and `PostAckGraceEnds`). Exposures are
numbered; `file`, `receipt` and `camera.image` hold the number of the exposure
the bytes came from, so *whose frame* can be asked. A `blocked` preflight has a
ready camera check without a ready verdict: it lets direct commands pass but not
`BeginRun`. A missing verdict (`unknown`) passes `beginRun` as `ready` does and
is part of `ready`.

Abstracted: revisions, receipts and lease checks of the operator's commands (a
refused command changes nothing here; `RunLifecycle` has them), progress,
`camera_observations`, the observed pixels, and the branches that a deployment
without image storage takes. A direct command that the origin gave up on is
taken to be lost if the camera had not taken it. One direct command is in flight
at a time.

### RunLifecycle

`plan` is the stored plan with its revision, `definitions` what was accepted for
each plan revision, `run` the run's columns, `previews` the mutation previews,
`receipts` one entry for each accepted command in the table of its family
(`Table`). A command names the client, its key and the revisions its client has
read; any command with any revision the origin has had may arrive at any time,
again, and by another desktop of the same person.

| Code | Actions |
| --- | --- |
| `acceptPlanDraft`, `acceptRunDefinition` (`persistence/run/plan.ts`) | `SaveDraft`, `AcceptRunDefinition` |
| `acceptRun`, `acceptRunIntervention`, `acceptFakePolicy` | `StartAcceptedRun`, `Intervene` with `Accept`; `Replay` answers from a receipt, `Refuse` changes nothing but what the handler's own expiry does |
| `previewRunMutation`, `applyRunMutation` | `PreviewRunMutation`, `ApplyRunMutation`, `PreviewElapses` |
| `advanceFakeRunState`; `commitRun` and `commitWorkTransition` of the worker | `ExecutorAdvances`: `FakeRunAdvances`; `SupervisedRunAdvances` with `NextRun` |
| `acceptControl`, `controllerConnected`, `controllerDisconnected`, `poll` | `LeaseMoves`, `HolderReconnects`, `HolderDisconnects`, `GraceElapses`, `PollExpires` |

`Viability` and `Readiness` are `evaluatePlan` over the facts it combines.
`OfferedIsAccepted` compares the actions that `workspace-projection-service.ts`
computes with the handlers' guards, offer by offer. `executor` is the executor
the origin was started with, one of `Executors`: the fake one, the worker's
(*real*), or none (*unavailable*, `app/origin-application.ts:318`). Where the
worker takes a run (`WorkerPhases`) depends on the camera and its rows, which
`RunExecutor` has; here any of these phases may come. The fixture executor, for
which no definition is accepted (a test harness seeds its runs), is left out.
Abstracted: progress figures, targets, wording. The abort work that a pause or stop enqueues is in
`RunExecutor`. A page never saves a plan without a sequence
(`packages/protocol/src/plan-command.ts`), hence `{} \notin Drafts`.

### ProcessingProject

`project` is the stored aggregate: sources with roles, a draft per stage,
attempts, the history and cursor of results, previews. `work`, `artifact`,
`library` and `file` are the worker's rows and what is on disk. An attempt, its
output, checkpoint and saved asset share an index, as their identities derive
from the attempt's. `current` holds the clients whose copy has the stored
revision, which is all a revision check asks. Projects are numbered as they are
created, and `receipts` is a set of rows.

`Create`, `AddSources`, `RemoveSource`, `AssignSourceRole`, `Redraft`,
`SyncDevelopPreview`, `Enqueue` (run), `OpenDevelop`, `MoveCurrentResult` (undo,
redo, open) and `SaveCurrentResult` are the intents of `decideChange`,
`decideRun` and `decideSave`; `Claim`, `TakeUpClaim`, `WriteTemporary`,
`Rename`, `LeaveUnresolved` and `Settle` the steps of a worker's pass; `Crash`
may come between any two of them. The pass itself is synchronous, so no intent
falls inside it. `OfferedIsAccepted` compares the Process page's buttons (`Buttons`)
with the guards of the intents they send (`Accepted`, from `MayRun`, `MayOpen`,
`MaySave`, ...), on a page that shows the project as it is stored, and says what an
undo or a redo of a result comes to (`MovesResult`): at Calibration the result
moves, at every later stage the same result is current again.

Abstracted: frozen copies of the sources, warnings and evidence texts. An
adapter may answer *unverified*: the wired adapter does not, the contract of
`advanceWork` allows it. A retry of a change names a revision the project has
left, so change receipts add nothing.

### AcquireSession and ObservePage

A slot of `flight` is one HTTP request between its read and its store; `session`
is the stored session, `outcomes` what the provider durably answered for an
attempt, `moves` how often the mount was moved. Each command of
`target-acquisition-service.ts` and `polar-service.ts` is an action (or a pair:
`Leave` before the provider, `Progress` after it), each refusal of
`validateAcquireSession` a guard. Vectors are abstracted to how their magnitude
compares with the policy, times to a clock of proposal lifetimes. A session
carries its method and the copy of its policy that it was made under. That a provider
answers the same attempt alike is what `AcquireProvider` shows. Polar sessions
come from fixtures only. The guards of the handlers have names (`MayAbort`,
`MayStart`, `OpensRecovery`, ...), which the actions and `Handled` share:
`OfferedIsAccepted` compares them with what `acquireSnapshot` offers.

`ObservePage` extends it with two copies, `snap` (what the client holds) and
`shown` (what the page has rendered): buttons come from the second and revisions
from the first. `ActsAsShown` asks that what the origin takes of the page is what
the person saw, and `ObserveIsAsShown` is that for every step with one request at
the origin at a time. One page with one request under way at a time is followed, a window
turns to the phone's page only after its request reached the origin, and Stop
stands for all the run's own actions.

### RigProviders: AcquireProvider, AlpacaCamera, AlpacaPreflight

`AcquireProvider` follows an attempt through `configured_acquire_work`: a write
is claimed in the database, sent (`wire`), taken by its device or lost, observed
and settled; the origin may stop at any await, and a later call for the same
attempt goes on from the rows. `Plan` is the work a session awaits, one after
the other; `setting` is how the origin was started and is used: which of the two
providers, how many calls at once, whether an operator exposes by direct commands
too, how often something fails. The solver's process, FITS conversion and hints are abstracted;
coordinates and *slewing*, read in parallel, are one read; two calls of the solver
sharing a scratch directory is not modelled.

`AlpacaCamera` splits each request to the simulator where the simulator awaits
the body or a file, and each call of the provider where it reads chunks; a
connection may be cut, short, or longer than declared. `AlpacaPreflight` reads
device after device while the rig changes. Pixel formats are abstracted to
whether they are accepted.

### Publisher, FrameIntake, LibraryPreview

`Publisher`: `Pass` claims the oldest waiting work under a lease, `ReadFile`,
`Record`, `Put`, `Verify` and `SettlePublished` are the stages of `publish`,
`ProviderFails` and `Stop` may come at each await, `LeaseLapses` is
`claim_until` passing. `abandoned` remembers the works a process stopped on, for
`FailureSettles`: only those, and works for an asset without a row, may be claimed
while nobody is at them. `ReadReview` and `StoreReview` are the origin beside it,
which reads a detail before the transaction that stores it. Nothing in the
repository outside tests enqueues publications, so the outbox starts with
`Works`. Signing and expiry of URLs are left out.

`FrameIntake`: the temporary file, the rename and the transaction of one frame,
with refusals and stops between them and a caller that comes again.
`LibraryPreview`: the two places of `library-representation-service.ts` and its
interval per client.

### The browser: LiveProjection, ProjectDesk, AssetReview, ProjectIntake, Browser

`LiveProjection` composes the publication (`emitted`, latest-value queues, poll)
with the event source, the message queue and `bootstrap-client.ts`. Two fibers
install snapshots, the listener and the command that asks for a fresh one; each
loads and then sets the shared state with the other free to run in between. A
snapshot is its cursor and a number for what it shows. `Stall` is a silent
death: the heartbeat is a comment that no listener sees. A load ends without
looking at what the other fiber did meanwhile; `Overtaken` is such an end, and the
only one by which `KeepsForward` and `KeepsShown` let the snapshot fall back, to
what was shown when the load began or something newer. `Lapses` are the three
ways to stay behind as current for ever, `CaughtUp` what holds in the end otherwise.

`ProjectDesk` is the route's generations, the pair of reads and the operations of
one open Project; a change reaches the cursor by a notice in memory, which
`Restart` loses; `announced`, a history variable, is the truth of the moment when the
cursor last moved, which the page reaches. `AssetReview` is the detail, the reviews in flight and the
panel; one number stands for the revisions of an asset and its review.
`ProjectIntake` is the creation and extension of Projects from the Library with
`pendingProjectCreations` and the receipts behind them; `refused` is a history
variable, of the names whose creation was refused since the page was loaded.

`Browser` runs the four side by side: the runtime keeps one state for all
pages, but no field of it is of two parts, except the route, whose generation each
part counts for itself.

### Origin: AccessAdmission, PlanPage, PlanSchedule

`AccessAdmission` is one listener: the key cache with a fetch that overlapping
requests start and await, ids remembered as unknown, the membership file with
its modification time and interval, and the `memberships` row that each admission
writes before it reads it. Time passes in ticks; an age stops counting where
nothing tells it from a greater one. Decoding a token and verifying its
signature are pure functions of the request.

`PlanPage` is a draft, its dialogs and the request of the desktop page between
the client's snapshot and the rendered projection; other pages are the one action
`Elsewhere`. Edits only add, and the plan is ready. `PlanSchedule` is
`allocatePlanTimeline` as an operator, checked against what a lane may hold for
every placement of three windows in the span.

## 3. Runs

A run is a sum: its MC module takes a *scenario* (or *part*) at the start and
follows it, with instances of one module under different constants, or of several
modules whose other variables rest. A property that concerns one scenario says so
by its name or an implication.

| Run | Scenarios and bounds | Shows |
| --- | --- | --- |
| `lease` | *shared*: owner, friend and phone, 2 keys, 2 requests, revision 2, 1 stream each, 1 restart, the publisher on the same database. *alone*: no publisher, 2 streams, 1 request | `LeaseIsSound`, `AppliedOnce`, `ControlIsFenced` (with the refinement of `FencedLease`), `AloneGraceEnds` |
| `executor` | *shared*: locked database, 2 restarts, 1 direct command. *alone*: unlocked, 1 restart, 1 direct command | `RunIsSound`, `CommandsSentOnce`, `OwnImageIsRead`, `HaltedRunIsLeftAlone`, `AloneStoppedRunSettles` |
| `lifecycle` | *interventions*: two desktops of one owner, fake executor, 2 sequences, run revision 4. *plans*: owner and friend, real executor or none, two drafts, lease 2, plan 2, run 3. *supervised*: one client, real executor, 1 sequence, run 6. *changes*: one client, 2 mutation previews | `RunIsSound`, `KeysTakeEffectOnce`, `OfferedIsAccepted`, `RunMovesAsCommanded` |
| `projects` | *lineage*: 5 attempts, 3 adapter outcomes, no crash. *sources*: 4 assets of mixed roles and targets. *develop*: drafts, 4 attempts. *shared*: 2 projects, 2 requests, 2 crashes, torn files. One worker throughout | `WorkIsSound`, `LineageIsSound`, `AppliesWhatWasPreviewed`, `OfferedIsAccepted`, `AttemptsAreImmutable`, `SharedAttemptsSettle` |
| `sessions` | *center*, *race* (two requests at a time), *polar* (2 clients, the outer policy denies), *lunar*, *frugal* (budgets of 1), *observe* (the page) | `SessionIsSound`, `CenteredByImage`, `OfferedIsAccepted`, `EvidenceIsKept`, `ObserveIsAsShown` |
| `attempts` | *attempts* under three settings: two calls, one beside direct exposures (4 faults), two of the simulation; *alone*: one call, 4 faults; *caller*, *callers* (2) of a camera, *preflight* (3 devices) | `LedgerIsSound`, `ImageIsTheAttempts`, `ProvidersTellTruth`, `AloneRetainedIsSolved` |
| `library` | *publisher*: 2 workers, 4 works, one of an asset without a row, 1 fault. *alone*: 1 worker, 2 faults. *poisoned*: the third work can never succeed. *intake*: 2 images, 4 faults. *again*: 1 image, 6 faults. *preview*: 3 requests | `OutboxIsSound`, `IntakeIsSound`, `KeptForGood`, `WorkGetsDone` |
| `browser` | *desk* (2 Projects), *project* (1), both with a restart; *commanding* (1 command) and *faulty*, with every fault and 2 places in the queue, *listening*, without faults and with 12; *reviewing*, *panel*; *adding*, *refusing*, *creating* | `PagesAreRouted`, `CreatedOnce`, `NothingOvertakes`, `PagesSettle` |
| `origin` | *keys* (2 rotations), *file* (2 edits, 1 failure), *both*; *drafts*, *previews*; *schedule* (3 windows) | `AdmissionIsSound`, `AdmissionSettles`, `LanesAreRight`, `PlanIsAsShown` |
| `lease_absent` | 2 clients, 2 streams, 1 restart | *violated*: `LostControllerReleased` |
| `executor_direct` | locked database, 1 restart, 1 direct command | *violated*: `AbortReadsNoImage` |
| `sessions_stopped` | one request at a time | *violated*: `StoppedRunRests` |

**Why the bounds are enough.** A lease revision of 2 allows an expiry between
two moves of the lease, hence every stale command; two keys allow a command to
be repeated under a key while another is applied; two requests by different
clients compete; a phone, a friend and an owner are the three kinds of client.
Two restarts allow one between claim and answer and another between the file and
its row of the same frame. Two sequences have a first, a last and a skipped one;
six revisions of a supervised run allow its recovery and what follows it;
four run revisions allow a pause, a retry and a mutation that is out of date when
it arrives. Five attempts reach every stage of a project and leave one to undo;
two crashes tear one file and one settlement. Two requests of a session are
enough for every overlap of a read with another's store; budgets of one make
their limits bite. Three works are two of one asset with another between them.
Two places of the browser's queue stand for its 32: they overflow with three
messages; twelve are more than a line without faults ever sends. One command beside
the listener is every overlap of their loads.
Three windows are the fewest of which two overlap the third but not each other.
The bounds of `ControlLease`, `RunExecutor`, `RunLifecycle`, `ProcessingProject`,
`AcquireSession`, `AcquireProvider`, `Publisher`, `FrameIntake` and
`AccessAdmission` matter to TLC alone: their central safety is proved for all of
them.

Where a behaviour at its bound or a settled one really stops, the configuration
does not check deadlock.

**Fairness**, and why the code has it:

* `ControlLease`: the clock, and the poll, which repeats every 250 ms while its
  fiber lives (`services/projection-publication.ts:107`). No client has to
  return or to speak. With the publisher on the same database the poll may die at
  its write lock, so the ending of a grace is asked only of *alone*.
* `RunExecutor`: the worker (`app/origin-application.ts:393` repeats a pass after
  a failure too), the end of an exposure, the two-second grace; strongly
  `Concludes`: a camera that is read again and again while it is idle is not
  unreadable for ever. That provider calls end is assumed: they have no timeout of
  their own. No command is fair.
* `ProcessingProject`: the worker's passes, whose interval the origin repeats.
* `AcquireProvider`: the rig moves and exposes to its end, a session that was
  answered is read, and the caller comes again and is answered.
* `Publisher`: the service loops for ever and leases run out; `FrameIntake`: the
  intake goes on, since faults are bounded and its caller comes again.
* Browser: the poll, an event source reconnects by itself, bytes arrive, messages
  are taken and requests answered. One fairness for all of a part's actions
  (`GoesOn`) is enough, since every part comes to rest.
* `AccessAdmission`: time passes, assertions are presented again, fetches end.

A component's `FairSpec` states its own fairness; the sums repeat it for the
scenario that has a liveness property.

**The violated runs** are disagreements between the code and the repository's
documents; `PROJECT.json` quotes both under "findings".

1. `lease_absent`: `docs/v2/current/gate-05-scenarios.md` LEASE-03 has the grace
   end with the release of the lease. When the disconnect is the end of the
   process, the counts are gone and the lease stays *held*.
2. `executor_direct`: `docs/v2/current/beta-real-runtime-plan.md` has an abort
   read no image. A direct abort leaves an idle camera under an observed
   exposure, which the worker takes for its completion.
3. `sessions_stopped`: the action map ends a stopped run in a terminal state;
   neither the Acquire commands nor the configured provider look at its phase.

### Disagreements without a run of their own

Met while modelling; the properties say what does hold in their presence.

* Lease: a write lock held by the publisher makes the poll throw, and the defect
  ends its fiber: graces no longer end by themselves. A request during the grace
  commits *held* and clears the deadline, where the action map (LEASE-A01)
  creates it "without changing the lease"; so does an owner's decline.
* Run: a plan of one sequence is offered mutation previews that are refused.
  Where no executor is configured the acceptance of a ready plan is offered and
  refused as *PlanNotReady* (`persistence/run/plan.ts:264`). A supervised run
  is completed with none of its sequences counted
  (`workers/run-executor-worker.ts:582`, `725`).
  `startAcceptedRun` is offered without asking for ownership. A preview that is
  open still applies while the page shows a newer one. `retryPhase` is never
  reset: a run has one retry over all its phases.
* Acquire: after a polar measurement out of tolerance only its acceptance is
  offered, which is always refused. A retry is offered when no recovery series
  remains. Overlapping requests store over each other without a revision check:
  they may lose evidence, and store different sessions under one revision
  (scenario *race*). The lease's revision is checked, not its holder. In
  production a paused session whose recovery is exhausted is offered nothing but
  a retry that is refused, and the run's pause and stop are not shown beside the
  target's stage. While a capture is pending, its page's abort is disabled.
* Processing: a source without a checksum makes an offered run refused; preview
  and open are offered on a master that has left the history. Undo and redo of a
  result at Registration, Stacking and Develop are offered and accepted, the
  revision grows, and the newest result of the same upstream result is current
  again at once (`services/processing-project-service.ts:1442`), where
  `docs/v2/current/process-workflow-plan.md:87` has them "move through successful
  results", 257 lets the owner "select an earlier result" and 297 promises undo and
  redo over the history of Develop. A process lost inside the write of a temporary
  file leaves a part of it that every later pass refuses
  (`workers/process-work-worker.ts:111`): the attempt stays running, and no attempt
  behind it is ever worked (`QueueIsStuck`), where the plan counts on "restart
  recovery" (line 287).
* Publisher: a worker that lost its claim while it hashed the file records the
  publication as *temporarilyUnavailable* over its successor's *published*
  (`workers/publisher-worker.ts:239` does not look at the claim) and its settlement
  does not bring it back: the download is refused from then on while the row
  says *published*. `integration/workers-storage.test.ts:1166` has a claim lost only
  later, during the upload, and is titled "cannot project stale provider work".
  `KeptForGood` names that step (`RecordsAnew`) and excludes every other. A work whose failure cannot be settled (an asset without a row)
  throws, and when its claim has run out it is the head of the outbox again; one
  that always fails starves those behind it. Frame intake: a retry with other bytes after a stop
  between rename and commit is refused for ever.
* Plan page: a click between the client's update and the rendering sends the old
  draft under the new revision (`docs/v2/current/gate-05-action-map.md:58`); edits
  made between an accepted answer and the new projection are discarded, as are
  unsaved ones by another page's save, or by narrowing the window.
* Live projection: a command's refresh and the listener load side by side, and the
  one that ends last sets its snapshot over a newer one, as *Current*, or the
  state it began from (`web/bootstrap-client.ts:118`, `plan-command-client.ts:137`).
  The browser shows the older one until the next change, where
  `docs/v2/current/gate-05-scenarios.md:74` (CLIENT-03) has events subordinate to
  the installed snapshot. A dropped last event (`offerUnsafe` on the full queue,
  `bootstrap-client.ts:205`), a refused stream and a connection that dies in silence
  also leave it behind as *Current*; `docs/v2/infra/architecture.md:205` asks for
  "heartbeat/stale detection" and "snapshot fallback on a cursor gap or queue
  overflow". A load that failed is tried again only with the next message. Deleted
  control requests change the snapshot and not its cursor.
* Open Project: a change whose notice is lost with the service's memory
  (`app/origin-application.ts:340`) moves no cursor, and the page goes on showing
  what it had. After a first snapshot that failed, the first that loads does not
  read the open pair again.
* Admission: an overlapping fetch may install an older key document with a fresh
  expiry, and a new key may stay remembered as unknown until its time is over. An
  open stream outlives the revocation of its member.

## 4. Proofs

Liveness and induction over data stay with TLC; the theorems below are
safety, for every value of the constants.

**`ControlLeaseProofs`**, for any clients, owners, read-only clients, keys and
bounds, from `LeaseAssumption` and `ReceiptAssumption`: types, coherence, one
effect per key, a grace only against an absent client, and the run properties
`AppliedOnce`, `LeaseIsSound` and `ControlIsFenced`, which includes that the lease
implements `FencedLease`. The invariants are not inductive alone: coherence is
what makes `Connected`, `Disconnected` and `Expired` preserve each other's
columns, and exclusive requests need both the fresh ids and that a move of the
lease deletes every request.

**`RunExecutorProofs`**, for any number of restarts and direct commands and with or
without a locked database: types, `CommandsSentOnce`, `RunIsSound`,
`HaltedRunIsLeftAlone`. The inductive `Inv` adds a *ledger* (a command was sent
exactly when its row left the unclaimed states; without it "sent once" is not
inductive, since a row could be pending after its command was sent) and where the
worker may be with respect to the receipt (without it the intake could run twice).
`OwnImageIsRead` speaks of an image that is read while only the run has commanded
the camera, as it must: `executor_direct` violates `AbortReadsNoImage` with a
single direct command. The invariant `Device`
relates the camera to the rows: what is in transit belongs to a claimed row, what
is exposing to an executed start, and an exposure observed active has left its
image unless an abort that is still claimed took it.

**`RunLifecycleProofs`**, for any clients, persons, drafts, keys, sequences and
executor, from `RunAssumption`: types, `RunFollowsDefinition`,
`SequencesAccountedFor`, `StopNeverCollides` and all four run properties:
`RunIsSound`, `KeysTakeEffectOnce`, `RunMovesAsCommanded` and
`OfferedIsAccepted`, which names the two offers that are always refused
(`RefusedAlways`; the guards have names, so the comparison needs no `ENABLED`). The
inductive `Inv` adds that no definition lies
ahead of the plan, that a preview is of a run and, while the run has the preview's
revision, of its first sequence, that what was applied is marked so, and that a
stop among the receipts means a stopped run. The last is what keeps two stops
apart, since a stop's row is inserted under its key alone.

**`ProcessingProjectProofs`**, for any number of projects, assets, attempts, draft
revisions, crashes and clients and any history limit, from the module's
assumptions: the run properties `WorkIsSound`, `LineageIsSound`,
`AppliesWhatWasPreviewed`, `AttemptsAreImmutable` and `OfferedIsAccepted`. The
inductive `Inv` has five parts.

* `ProjectsOK`: each stored aggregate is *whole*. `Lawful` bounds its numbers and
  histories, has each history hold succeeded attempts of its own stage, and each
  Develop attempt froze the preview it names; `Descends` says that what is
  current was made of what is current before it, and is the newest that was. Moving
  a cursor breaks `Descends`, but `RestoreLineage` establishes it again for any lawful aggregate:
  that lemma is the heart of the proof, and the reason why undo, redo and open may
  move a cursor wherever they like.
* `WorkOK`: rows and attempts correspond one to one, each row in the state of its
  attempt; `TurnOK`: a pass has a claimed row. Without them a settlement could
  meet an attempt that is settled.
* `KeptOK`: a succeeded attempt has its file under its final name and its
  artifact, and a Develop attempt starts from a master of the Library. A crash
  tears temporary files only.
* `ReceiptsOK`: create requests and projects correspond one to one.

The buttons rest on `Inv` and on `Listed`: the Library lists what a project saved,
as the master that the page opens, and a cursor stays within its history, so that
undo and redo have somewhere to go. Where they go follows from `OneLineage`: over
given results, and a given one current at Calibration, one choice of cursors is
whole, and `RestoreLineage` makes that one.

That a *least* or *greatest* number with a property exists, which `CHOOSE` in
`RestoreLineage` and the target of a Project need, follows from the well-foundedness of the
naturals.

**`LibraryProofs`**, for any works, files, number of publishers, stops and provider
failures, from `PublisherAssumption`: the run property `OutboxIsSound`. The
inductive `Inv` says what a worker has established at each point of its pass: past
the file its checksum, past the record the publication's checksum, past the upload
the object in the store. It survives the loss of a claim because every publication
of an asset is of the bytes of its file (`PublicationsAreOfFiles`), which is why a
worker whose claim has run out brings no grant without an object. `ClaimsAreHeld` is the
other half: a worker that leaves without a stop has settled its work or lost it,
one lemma for each way of leaving, going on and claiming.
`StaleWorkStaysQuiet` says what such a worker may still do to an asset that is
dispatched, which is to record it anew, since nobody holds its works and every other
step looks at the claim. `AloneKeepsPublished` needs that there is one publisher
(`AtWorkHolds`: nobody else takes its work, however long the lease has run out). For `FrameIntake`, with any images,
facts, stops and refusals: the run property `IntakeIsSound` and `OriginalsStay`, from
what an intake under way knows of the two files (`IntakeKnows`).

**`WorkspaceProofs`** is of admission, the browser and the Plan page. Of admission, for any keys,
requests, listener, life of the cache, limit
of a fetch, interval of the membership file, rotations, edits and failures, from
`AccessAssumption`: the run property `AdmissionIsSound`. The inductive `Inv` bounds
the age of everything a decision is made from by the time that has passed since it
was read: a document on its way by its fetch, the cache by a fetch and the part of
its life that is over, the policy by the last look at the file, unless the
modification time shows that it is the file's still. That a fetch which began before
another may replace a newer cache does not matter, because the older document is
within the limit of its own fetch.

Of the browser, for any Projects, Assets, names, forms, queue and numbers of calls,
reviews, commands and failures, from `BrowserAssumption`: the run properties
`PagesAreRouted`, `CreatedOnce` and `NothingOvertakes`. Each part has an inductive
invariant, and all four say which of the answers on the way may still be shown, and
that those are not older than what is shown:

* `DeskInv`: every call has a commit generation of its own, so at most one owns the
  page (`OwnerIsAlone`), and what the owner has read is not older than the page.
  `NoLateFailure` follows from that uniqueness: a call that fails as the owner
  leaves no other owner behind.
* `ReviewInv`: while the detail is read nothing of the route is under review
  (`DetailIsAlone`); afterwards only the latest review replaces it, and that review
  was answered with the revision shown or a newer one (`ReviewsAreNewer`).
* `LiveInv`: of all snapshots on the way (queues, messages, answers, and what the
  browser holds) one with a later cursor has no earlier content (`LaterHasMore`),
  a load brings nothing older than what was shown when it began (`WaitsForNewer`),
  and a browser that once had a snapshot falls back to one (`FallsBackToShown`).
  So a load that nobody overtook moves forward, and one that was overtaken does not
  go behind its beginning. Before its first command a browser that waits is in the
  state it falls back to (`WaitsAlone`), hence `commands = 0` in
  `WaitingIsNotCurrent`: with a command beside the listener the two fall back over
  each other.
* `CreationInv`: a creation in flight carries the intent the page keeps for its
  name, or one the service has accepted. `CreatedOnce` excludes the names that were
  refused, because a refusal drops the intent. `ListInv`: of the reads of the list
  at most one has the newest number.

Of the Plan page, for any edits, saves, previews, moves of control, turns and losses,
from `PlanAssumption`: `PlanIsAsShown`. `PlanInv` says that two copies of one revision have one
content, that a definition accepted for a revision is its content, and that a request
has the revision and the content the page showed when it was made. `LanesAreRight` stays
with TLC: `Timeline` is a fold.

**`AcquireProviderProofs`**, for any plan, calls, settings, faults and stops, from
`PlanAssumption`: the run properties `LedgerIsSound` and `ImageIsTheAttempts`. The
inductive `Inv` has three parts, one for each thing a setting may promise.

* `LedgerInv`, of every setting: what was sent and taken, and what rows and calls
  know of it. *Nothing is sent twice* is inductive only with `Inserted` (a row was
  inserted by one call) and with the fact that the call that inserted the row of a
  movement has not sent it while it observes; *progress is real* needs that a row
  that says *acknowledged* was taken and that a solved work has its frame.
* `ReadInv`, unless two calls of the configured provider meet: one call starts an
  exposure and one reads it (`Apart`), because a row that is past *retrieving*
  never comes back. The configured provider can bring it back under two calls
  (`Seen` settles a row without looking at it), which is why the hypothesis is
  there.
* `OwnInv`, of a lone call without direct exposures: the mount stands where the
  last movement sent it (`MountStands`), the camera holds what the current work
  exposed or nothing under way (`CameraHolds`), and nothing of an earlier work is
  on the wire. That is what makes an image that is read after a stop the
  attempt's own.

Each step of a call is a lemma; what steps of a kind have in common (a call that
moves on alone, with its movement's row, or with its exposure's) is proved once in
`CallsOnly`, `PointingEvidence` and `ExposureEvidence`, and the advance of the
session once in `AdvanceOwn`.

Of the camera's calls and of preflight, for any requests, scenarios, devices and
bounds, from `RigAssumption`: `ProvidersTellTruth`.

* `CameraSound` says what a request in hand is entitled to say (`AskedFits`: an
  error only if the camera did nothing, an image only of an exposure that began)
  and counts the files in hand, which is by how much a sequence of frames can be
  overrun (`Overruns`).
* `LonelyInv`, of a caller who awaits each call over connections that hold, in a
  scenario that stays: one request is in hand (`OneInHand`), and what the camera
  holds was neither written nor aborted before (`HeldIsNew`). A cut connection
  leaves a request behind that the caller knows nothing of, which is why *once* is
  promised without cuts only.
* `PreflightInv`: each value read so far has been seen (`ReadSoFar`), and a device
  that is done is covered by a check that is not *ready* or was seen as needed in
  every fact (`Covered`).

**`AcquireSessionProofs`**, for any method, results, budgets, keys, clients and
clock, from `ConstantsAssumption`: the run properties `CenteredByImage` and
`EvidenceIsKept`, and, from `PageAssumption`, `SessionIsSound`,
`OfferedIsAccepted` and `ObserveIsAsShown` of the page over it (`OfferedIsAccepted`
of the session without a page, too). The inductive `Inv` of the session has two
parts.

* `Solid`, with any number of requests in flight: the stored session is a session
  of its method (`Phases`, `ValidPhase`) that completes only on an image, and
  each request carries a session that what it stores can build on
  (`FlightFits`). Requests that overlap may store over each other, so nothing
  here relates a request to the stored session; that a session is completed by an
  image needs no such relation, which is why it holds in scenario *race* too. A
  correction's acknowledgement cannot be taken for an image because attempt
  identities end in what they are of (`Last(id.path)`).
* `Orderly`, with one request at a time (`One`): the session still holds what the
  request read, and awaits the same attempt unless it was aborted
  (`RequestFits`). *The image is newer than the last movement* is inductive only
  with `ImageStands` (an image that says *centred* is of the mount as it stands,
  from the moment it is taken), which a correction on its way keeps because it
  was approved after a solve or follows from one that said *automatic*
  (`CorrectionFits`). `Accounted` says that the provider has never heard of new
  work: what it answered is recorded, awaited, a correction or of an aborted session.

Each operation on the session has a lemma of what it records (`SolveFacts`,
`CorrectionFacts`, `FrameFacts`, ...), and each kind of step one for `Solid` and
one for `Orderly`.

`SoundInv` adds that a session can store what its provider answers next, with any
number of requests, and keeps its budgets, with one. The guards of
`validateAcquireSession` are not inductive: they compare an answer with the
evidence, the series and the policy as they will be then.

* `Ground` is what a session holds. Identities are dated by a revision that is past
  (`Rooted`) and derived from a piece of evidence it holds (`Derived`), so what the
  next revision mints, and what one more suffix makes of a solve, is new
  (`Distinct`). Each series lists its attempts in the order of their evidence
  (`Indexed`, by the cardinality of the places before), and what is spent of each
  budget is counted as a number of places (`Spent`): one more piece of evidence
  adds one place.
* `WorkFits` is what a session awaits: an attempt that is the next of its series
  and within its budget, a correction that the budget still has.
* `FlightSound` asks the same of the session each request read. A request stores
  what it makes of that session alone, so no relation to the stored one is needed
  and requests that overlap do no harm to this property.
* `Afforded`, with one request: the images taken are those the session holds and
  the one it awaits (`Paid`), or, after an abort under way, one more than it holds
  while a series had an attempt left (`Overdrawn`). `AffordedWithin` counts them.

`RecoveryOpens` speaks of deep-sky sessions: of a paused lunar one the handler
admits a recovery that its schema then refuses, and that no page is offered.

`OfferInv` adds what the offers rest on (`TendedNow`), of the stored session and of
the one each request read, with any number of requests: a proposal names a time
by which it expires, evidence of a kind has a newest piece (a capture starts from
the newest frame), and a polar session that holds a measurement knows its latest.
`OffersHold` goes offer by offer: each is compared with the guard its handler has a
name for (`MayStart`, `MayAcceptPolar`, ...) and with `Valid` of what it would
store. That the schema accepts it is the work of `Sound` again: a session that is
set aside, managed, accepted or recovered is one that `Sound` holds of.

`PageInv` adds the page, with one request at a time.

* `Settled` is what the session's names and dates tell: a proposal is named by an
  image the session holds, and what a request will store is newer than a session
  that solves, verifies or is paused. An image is solved once (`SolveIsNew`) and two
  images name two proposals (`NamesDiffer`), so a name or a date never comes back
  with other contents.
* `PageNow` is what a page was shown. With a button that depends on the phase it is
  behind the session for good (`Past`): a pause or a solve by its revision, a
  proposal by its image and by the length of its name, which every revision of it
  extends (`Superseded`). `PastNewer` carries it over whatever the origin stores, and `TakenAsShown` concludes that a request the
  origin takes was made at the session it still has.

Only model-checked: every liveness property; `LanesAreRight`; and the safety of the previews, which have no proof module and
whose runs cover it within the bounds of section 3.

## 5. Not modelled, and plan

* *Pixel work, FITS, thumbnails, exports, the solver's process*: pure functions of
  files, whose results the properties do not tell apart.
* *HTTP decoding, configuration, telemetry, layout, viewers*: no state to relate.
* *Migration and backup*: procedures at start-up and maintenance, on a database
  that nobody else uses.
* *`services/source-ingest.ts`*, *`PlateSolveWorker.solve`* and the polar session
  fixtures are used by tests only.
* *Library lists, filters, pagination, comparison and source reads*: reads that no
  operation depends on.
* *The mount, wheel and focuser of the simulator*, which answer reads only.

What remains worth doing, in this order: the abstract specification of a claimed write that `RunExecutor`,
`AcquireProvider` and `Publisher` each implement in their own way; a page under
which two requests of one person overlap at the origin.
