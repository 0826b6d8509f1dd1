---------------------------- MODULE RunLifecycle ----------------------------
(***************************************************************************)
(* The commands that make a plan into a run and intervene in it:            *)
(* persistence/run/plan.ts, lifecycle.ts and mutations.ts behind            *)
(* persistence/run-sqlite-repository.ts.                                    *)
(*                                                                          *)
(* A command is handled in one synchronous step around one transaction.     *)
(* Clients prepare commands from whatever they have read, deliver them late *)
(* or again, and use a key again for another command: the model handles any *)
(* command with any revision the origin has had.  The lease and the         *)
(* executor move between commands; ControlLease and RunExecutor have their  *)
(* details.                                                                 *)
(***************************************************************************)
EXTENDS Naturals, Sequences, FiniteSets

CONSTANTS
  Clients, Person,   \* clients and the person each is authenticated as
  Owners, ReadOnly,  \* owners (persons) and read-only clients
  NoClient, NoRun,
  Keys,              \* idempotency keys
  Drafts,            \* drafts of the plan: sets of facts per sequence
  Executors,         \* what the origin may be wired to accept runs for
  SequenceCount,     \* sequences of an accepted definition
  Kinds,             \* commands sent
  MaxLease,          \* bound: revisions of the lease
  MaxPlan,           \* bound: revisions of the plan
  MaxRun,            \* bound: revisions of the run
  MaxPreviews        \* bound: stored mutation previews

Interventions == {"pause", "resume", "stop", "skip", "retry", "park"}
Mutations == {"reprioritizeSecond", "shortenSecond", "discardCurrent"}

Facts == {"clear", "available", "limited", "blocked", "missing"}

Active == {"preflight", "acquire", "capture", "verify", "recover"}
Ended == {"completed", "stopped", "parkRequested"}

\* A run: the definition it is on, its phase and sequence, the phase a pause
\* kept, the one retry, and the previews applied to it.
Runs ==
  [revision : 1..MaxRun, source : 1..MaxPlan,
   phase : Active \cup Ended \cup {"paused"},
   sequence : 0..SequenceCount - 1, completed : Nat,
   resumable : Active \cup {"none"}, retried : Active \cup {"none"},
   mutations : Seq(Nat)]

ASSUME RunAssumption ==
  /\ \A c \in Clients : Person[c] \in Owners \cup {"friend"}
  /\ ReadOnly \subseteq Clients
  /\ NoClient \notin Clients
  /\ Drafts \subseteq SUBSET
       [horizon : Facts, storage : Facts, fits : BOOLEAN]
  /\ {} \notin Drafts
  /\ Executors \subseteq {"fake", "real", "unavailable"}
  /\ SequenceCount \in Nat \ {0}
  /\ MaxLease \in Nat /\ MaxPlan \in Nat \ {0} /\ MaxRun \in Nat \ {0}
  /\ MaxPreviews \in Nat
  /\ NoRun \notin Runs

VARIABLES
  lease,        \* holder, revision and reconnect grace of the control lease
  plan,         \* observing_plans: revision, draft, run_eligible
  definitions,  \* run_definitions: the draft accepted for a plan revision
  run,          \* state: run
  previews,     \* run_mutation_previews
  receipts,     \* the receipt tables, one entry per accepted command
  executor      \* the executor of new definitions, as the origin is wired

vars == <<lease, plan, definitions, run, previews, receipts, executor>>
stored == <<plan, definitions, run, previews, receipts, executor>>

-----------------------------------------------------------------------------
\* Each family of commands has a receipt table of its own.
Table(kind) ==
  CASE kind = "save" -> "plan"
    [] kind = "accept" -> "definition"
    [] kind = "start" -> "start"
    [] kind = "preview" -> "preview"
    [] OTHER -> "intervention"

\* The semantic key: who sent the command is not part of it.
Semantic(cmd) == [cmd EXCEPT !.by = Person[cmd.by]]

PriorReceipts(cmd) ==
  {r \in receipts : /\ Table(r.kind) = Table(cmd.kind)
                    /\ r.key = cmd.key
                    /\ Person[r.by] = Person[cmd.by]}

\* A stop also leaves its answer in the older table, by its key alone;
\* a start finds it there (legacyStartReplay).
LegacyStops(cmd) ==
  {r \in receipts : r.kind = "stop" /\ r.key = cmd.key}

Remember(cmd) == receipts' = receipts \cup {cmd}

Viability(sequence) ==
  IF \/ {sequence.horizon, sequence.storage} \cap {"missing", "blocked"} # {}
     \/ ~sequence.fits
  THEN "blocked"
  ELSE IF "limited" \in {sequence.horizon, sequence.storage}
       THEN "limited" ELSE "viable"

Readiness(draft) ==
  LET viabilities == {Viability(sequence) : sequence \in draft}
  IN IF "blocked" \in viabilities THEN "blocked"
     ELSE IF "limited" \in viabilities THEN "readyWithLimitations"
     ELSE "ready"

HasExecutor == run # NoRun
HeldBy(cmd) == lease.holder = cmd.by /\ cmd.lease = lease.revision

Init ==
  /\ lease = [holder |-> NoClient, revision |-> 0, grace |-> "none"]
  /\ plan \in [revision : {1}, draft : Drafts, eligible : {FALSE}]
  /\ definitions = [r \in 1..MaxPlan |-> {}]
  /\ run = NoRun
  /\ previews = <<>>
  /\ receipts = {}
  /\ executor \in Executors

-----------------------------------------------------------------------------
(* Guards ahead of the receipt: what every delivery is checked for.         *)

Admits(cmd) ==
  /\ cmd.by \notin ReadOnly
  /\ cmd.kind \in {"save", "accept", "preview", "apply", "approve"} =>
       Person[cmd.by] \in Owners
  /\ cmd.kind \in Interventions =>
       /\ HasExecutor
       /\ executor = "real" => cmd.kind \in {"pause", "stop"}
  /\ cmd.kind \in {"preview", "apply", "approve"} =>
       HasExecutor /\ executor = "fake"
  /\ cmd.kind \in Interventions \cup {"apply", "approve"} => HeldBy(cmd)
  /\ cmd.kind = "preview" => /\ cmd.expected = run.revision
                             /\ run.phase \in Active
                             /\ run.sequence = 0

(* Guards behind it.                                                        *)

MaySave(cmd) ==
  /\ cmd.expected = plan.revision
  /\ run = NoRun
  /\ cmd.arg # plan.draft

MayAccept(cmd) ==
  /\ cmd.expected = plan.revision
  /\ cmd.lease = lease.revision
  /\ run = NoRun
  /\ Readiness(plan.draft) = "ready"
  /\ definitions[plan.revision] = {}
  /\ executor # "unavailable"
  /\ ~plan.eligible

MayStart(cmd) ==
  /\ Readiness(plan.draft) = "ready"
  /\ plan.eligible
  /\ cmd.expected = plan.revision
  /\ HeldBy(cmd)
  /\ definitions[plan.revision] # {}
  /\ run = NoRun

MayIntervene(cmd) ==
  /\ cmd.expected = run.revision
  /\ run.phase \notin Ended
  /\ cmd.kind = "pause" =>
       /\ run.phase \in Active
       /\ ~(executor = "real" /\ run.phase = "verify")
  /\ cmd.kind = "resume" => run.phase = "paused"
  /\ cmd.kind \in {"skip", "retry"} => run.phase # "paused"
  /\ cmd.kind = "retry" => run.retried = "none"

MayApply(cmd) ==
  LET preview == previews[cmd.preview]
  IN /\ cmd.expected = run.revision
     /\ run.phase \notin Ended
     /\ preview.state = "open"
     /\ preview.revision = run.revision
     /\ (preview.mutation = "discardCurrent") = (cmd.kind = "approve")

Allows(cmd) ==
  CASE cmd.kind = "save" -> MaySave(cmd)
    [] cmd.kind = "accept" -> MayAccept(cmd)
    [] cmd.kind = "start" -> MayStart(cmd)
    [] cmd.kind = "preview" -> SequenceCount > 1
    [] cmd.kind \in {"apply", "approve"} -> MayApply(cmd)
    [] OTHER -> MayIntervene(cmd)

-----------------------------------------------------------------------------
(* Effects.                                                                 *)

\* Mutant: a skipped sequence is not counted.
NextSequenceUncounted(r) ==
  IF r.sequence + 1 < SequenceCount
  THEN [r EXCEPT !.phase = "preflight", !.sequence = @ + 1]
  ELSE [r EXCEPT !.phase = "completed"]

\* The sequence counts as completed; after the last one the run is.
NextSequence(r) ==
  LET counted == [r EXCEPT !.completed = @ + 1]
  IN IF r.sequence + 1 < SequenceCount
     THEN [counted EXCEPT !.phase = "preflight", !.sequence = @ + 1]
     ELSE [counted EXCEPT !.phase = "completed"]

\* Mutant: a resumed run starts over at preflight.
IntervenedFromStart(r, kind) ==
  CASE kind = "pause" -> [r EXCEPT !.phase = "paused", !.resumable = r.phase]
    [] kind = "resume" -> [r EXCEPT !.phase = "preflight",
                                    !.resumable = "none"]
    [] kind = "stop" -> [r EXCEPT !.phase = "stopped"]
    [] kind = "skip" -> NextSequence(r)
    [] kind = "retry" -> [r EXCEPT !.retried = r.phase]
    [] kind = "park" -> [r EXCEPT !.phase = "parkRequested"]

Intervened(r, kind) ==
  CASE kind = "pause" -> [r EXCEPT !.phase = "paused", !.resumable = r.phase]
    [] kind = "resume" -> [r EXCEPT !.phase = r.resumable,
                                    !.resumable = "none"]
    [] kind = "stop" -> [r EXCEPT !.phase = "stopped"]
    [] kind = "skip" -> NextSequence(r)
    [] kind = "retry" -> [r EXCEPT !.retried = r.phase]
    [] kind = "park" -> [r EXCEPT !.phase = "parkRequested"]

Mutated(r, i) ==
  [(IF previews[i].mutation = "discardCurrent"
    THEN [r EXCEPT !.phase = "preflight", !.sequence = @ + 1,
                   !.completed = @ + 1]
    ELSE r)
   EXCEPT !.mutations = Append(@, i)]

Revised(r) == [r EXCEPT !.revision = @ + 1]

SaveDraft(cmd) ==
  /\ plan.revision < MaxPlan
  /\ plan' = [revision |-> plan.revision + 1, draft |-> cmd.arg,
              eligible |-> FALSE]
  /\ UNCHANGED <<definitions, run, previews>>

AcceptRunDefinition(cmd) ==
  /\ plan' = [plan EXCEPT !.eligible = TRUE]
  /\ definitions' = [definitions EXCEPT ![plan.revision] = plan.draft]
  /\ UNCHANGED <<run, previews>>

StartAcceptedRun(cmd) ==
  /\ run' = [revision |-> 1, source |-> plan.revision,
             phase |-> "preflight",
             sequence |-> 0, completed |-> 0, resumable |-> "none",
             retried |-> "none", mutations |-> <<>>]
  /\ UNCHANGED <<plan, definitions, previews>>

Intervene(cmd) ==
  /\ run.revision < MaxRun
  /\ run' = Revised(Intervened(run, cmd.kind))
  /\ UNCHANGED <<plan, definitions, previews>>

PreviewRunMutation(cmd) ==
  /\ Len(previews) < MaxPreviews
  /\ previews' = Append(previews,
       [mutation |-> cmd.arg, revision |-> run.revision, state |-> "open",
        person |-> Person[cmd.by],
        token |-> cmd.arg = "discardCurrent" /\ lease.holder = cmd.by])
  /\ UNCHANGED <<plan, definitions, run>>

ApplyRunMutation(cmd) ==
  /\ run.revision < MaxRun
  /\ run' = Revised(Mutated(run, cmd.preview))
  /\ previews' = [previews EXCEPT ![cmd.preview].state = "applied"]
  /\ UNCHANGED <<plan, definitions>>

Effect(cmd) ==
  CASE cmd.kind = "save" -> SaveDraft(cmd)
    [] cmd.kind = "accept" -> AcceptRunDefinition(cmd)
    [] cmd.kind = "start" -> StartAcceptedRun(cmd)
    [] cmd.kind = "preview" -> PreviewRunMutation(cmd)
    [] cmd.kind \in {"apply", "approve"} -> ApplyRunMutation(cmd)
    [] OTHER -> Intervene(cmd)

-----------------------------------------------------------------------------
(* One handled command.                                                     *)

\* Pause and resume let an elapsed grace expire before they look at the
\* lease; the others leave that to the poller.
ExpiresFirst(cmd) ==
  /\ cmd.kind \in {"pause", "resume"}
  /\ cmd.by \notin ReadOnly
  /\ HasExecutor
  /\ executor = "real" => cmd.kind = "pause"
  /\ lease.grace = "overdue"

LegacyReplay(cmd) ==
  /\ cmd.kind = "start"
  /\ PriorReceipts(cmd) = {}
  /\ \E r \in LegacyStops(cmd) :
       /\ r.by = cmd.by
       /\ r.lease = cmd.lease
       /\ run.source = cmd.expected

LegacyConflict(cmd) ==
  cmd.kind = "start" /\ LegacyStops(cmd) # {} /\ ~LegacyReplay(cmd)

\* Mutant: the receipt is not read.
AcceptsAgain(cmd) ==
  /\ ~ExpiresFirst(cmd)
  /\ Admits(cmd)
  /\ Allows(cmd)

Accepts(cmd) ==
  /\ ~ExpiresFirst(cmd)
  /\ Admits(cmd)
  /\ PriorReceipts(cmd) = {}
  /\ cmd.kind = "start" => LegacyStops(cmd) = {}
  /\ Allows(cmd)

Accept(cmd) ==
  /\ Accepts(cmd)
  /\ Effect(cmd)
  /\ Remember(cmd)
  /\ UNCHANGED <<lease, executor>>

Replays(cmd) ==
  /\ ~ExpiresFirst(cmd)
  /\ Admits(cmd)
  /\ \/ \E r \in PriorReceipts(cmd) : Semantic(r) = Semantic(cmd)
     \/ LegacyReplay(cmd)

Replay(cmd) ==
  /\ Replays(cmd)
  /\ UNCHANGED vars

Expired == [holder |-> NoClient, revision |-> lease.revision + 1,
            grace |-> "none"]

Refuse(cmd) ==
  /\ ~Accepts(cmd)
  /\ ~Replays(cmd)
  /\ lease' = IF ExpiresFirst(cmd) THEN Expired ELSE lease
  /\ UNCHANGED stored

Handle(cmd) == Accept(cmd) \/ Replay(cmd) \/ Refuse(cmd)

-----------------------------------------------------------------------------
(* What a page of a client is offered: the actions of the Observe and the   *)
(* Plan workspace projections.                                              *)

Controls(c) == c \notin ReadOnly /\ lease.holder = c
OwnerWrites(c) == c \notin ReadOnly /\ Person[c] \in Owners
AtFirstSequence ==
  HasExecutor /\ executor = "fake" /\ run.phase \in Active /\ run.sequence = 0

\* Mutant: a paused run is offered what an active one is.
OffersObservePaused(c) ==
  {kind \in Interventions :
    /\ HasExecutor
    /\ Controls(c)
    /\ run.phase \notin Ended
    /\ kind = "pause" => run.phase # "paused"
                         /\ ~(executor = "real" /\ run.phase = "verify")
    /\ kind = "resume" => run.phase = "paused" /\ run.resumable # "none"
    /\ kind = "retry" => run.retried = "none"
    /\ kind \in {"resume", "skip", "retry", "park"} => executor # "real"}

OffersObserve(c) ==
  {kind \in Interventions :
    /\ HasExecutor
    /\ Controls(c)
    /\ run.phase \notin Ended
    /\ kind \in {"pause", "skip", "retry"} => run.phase # "paused"
    /\ kind = "pause" => ~(executor = "real" /\ run.phase = "verify")
    /\ kind = "resume" => run.phase = "paused" /\ run.resumable # "none"
    /\ kind = "retry" => run.retried = "none"
    /\ kind \in {"resume", "skip", "retry", "park"} => executor # "real"}

\* The last preview of the run as it is, if it still applies; it is shown to
\* an owner who controls the run or made it, with its token to the former.
Shown(c) ==
  LET open == {i \in DOMAIN previews : /\ previews[i].state = "open"
                                       /\ previews[i].revision = run.revision}
  IN {i \in open : /\ \A j \in open : j <= i
                   /\ OwnerWrites(c)
                   /\ Controls(c) \/ previews[i].person = Person[c]}

OffersPlan(c) ==
  {kind \in {"save", "accept", "start", "preview", "apply", "approve"} :
    /\ kind # "start" => OwnerWrites(c)
    /\ kind \in {"start", "apply", "approve"} => Controls(c)
    /\ kind \in {"save", "accept", "start"} => run = NoRun
    /\ kind = "accept" => /\ Readiness(plan.draft) = "ready"
                          /\ definitions[plan.revision] = {}
    /\ kind = "start" => definitions[plan.revision] # {}
    /\ kind \in {"preview", "apply", "approve"} => AtFirstSequence
    /\ kind \in {"apply", "approve"} =>
         \E i \in Shown(c) :
           (previews[i].mutation = "discardCurrent") = (kind = "approve")}

Offered(cmd) ==
  /\ cmd.kind \in OffersObserve(cmd.by) \cup OffersPlan(cmd.by)
  /\ cmd.kind \in {"apply", "approve"} => cmd.preview \in Shown(cmd.by)

\* What a page sends that shows the origin as it is: a draft other than the
\* stored one, the revisions it was shown and a key of its own.
UpToDate(cmd) ==
  /\ cmd.kind \notin {"save", "preview"} => cmd.lease = lease.revision
  /\ cmd.expected = IF cmd.kind \in {"save", "accept", "start"}
                    THEN plan.revision
                    ELSE IF HasExecutor THEN run.revision ELSE 0
  /\ cmd.kind = "save" => cmd.arg # plan.draft
  /\ \A r \in receipts : r.key # cmd.key

-----------------------------------------------------------------------------
(* What happens between commands.                                           *)

\* A grant, a release or a takeover.
LeaseMoves(c) ==
  /\ lease.revision < MaxLease
  /\ c # lease.holder
  /\ lease' = [holder |-> c, revision |-> lease.revision + 1,
               grace |-> "none"]
  /\ UNCHANGED stored

HolderDisconnects ==
  /\ lease.holder # NoClient
  /\ lease.grace = "none"
  /\ lease' = [lease EXCEPT !.grace = "running"]
  /\ UNCHANGED stored

HolderReconnects ==
  /\ lease.grace # "none"
  /\ lease' = [lease EXCEPT !.grace = "none"]
  /\ UNCHANGED stored

GraceElapses ==
  /\ lease.grace = "running"
  /\ lease' = [lease EXCEPT !.grace = "overdue"]
  /\ UNCHANGED stored

PollExpires ==
  /\ lease.grace = "overdue"
  /\ lease.revision < MaxLease
  /\ lease' = Expired
  /\ UNCHANGED stored

PreviewElapses(i) ==
  /\ previews[i].state = "open"
  /\ previews' = [previews EXCEPT ![i].state = "expired"]
  /\ UNCHANGED <<lease, plan, definitions, run, receipts, executor>>

Advanced(r) ==
  CASE r.phase = "preflight" -> [r EXCEPT !.phase = "acquire"]
    [] r.phase = "acquire" -> [r EXCEPT !.phase = "capture"]
    [] r.phase = "capture" -> [r EXCEPT !.phase = "verify"]
    [] r.phase = "verify" -> NextSequence(r)
    [] OTHER -> r

FakeRunAdvances ==
  /\ executor = "fake"
  /\ Advanced(run) # run
  /\ run' = Revised(Advanced(run))

\* Where the worker takes a supervised run, from what it learns of the camera
\* (RunExecutor): it executes one sequence, rejects a definition of several,
\* and completes a run that began with an acquisition.
WorkerPhases(r) ==
  CASE r.phase = "preflight" ->
         {"recover"} \cup
           (IF SequenceCount = 1 THEN {"acquire", "capture"} ELSE {})
    [] r.phase = "acquire" -> {"capture"}
    [] r.phase = "capture" -> {"capture", "recover", "verify", "completed"}
    [] r.phase = "recover" -> {"capture"}
    [] OTHER -> {}

\* The worker's nextRun counts no sequence.
NextRun(r, phase) ==
  [r EXCEPT !.phase = phase,
            !.resumable = IF phase = "recover" THEN "capture" ELSE "none"]

SupervisedRunAdvances ==
  /\ executor = "real"
  /\ \E phase \in WorkerPhases(run) : run' = Revised(NextRun(run, phase))

ExecutorAdvances ==
  /\ run # NoRun
  /\ run.revision < MaxRun
  /\ FakeRunAdvances \/ SupervisedRunAdvances
  /\ UNCHANGED <<lease, plan, definitions, previews, receipts, executor>>

-----------------------------------------------------------------------------
RunRevisions == IF run = NoRun THEN {0} ELSE 1..run.revision
Cmd(kinds, leases, expected, args, ids) ==
  [kind : kinds \cap Kinds, key : Keys, by : Clients, lease : leases,
   expected : expected, arg : args, preview : ids]

\* What clients can have prepared from what the origin has shown them; an
\* approval quotes a token it was given, and nothing looks at the lease revision
\* of a draft or a preview.
Commands ==
  LET leases == 0..lease.revision
      plans == 1..plan.revision
      tokens == {i \in DOMAIN previews :
                   \/ previews[i].token
                   \/ /\ previews[i].mutation = "discardCurrent"
                      /\ lease.holder # NoClient
                      /\ i \in Shown(lease.holder)}
  IN Cmd({"save"}, {0}, plans, Drafts, {0})
     \cup Cmd({"accept", "start"}, leases, plans, {{}}, {0})
     \cup Cmd(Interventions, leases, RunRevisions, {{}}, {0})
     \cup Cmd({"preview"}, {0}, RunRevisions, Mutations, {0})
     \cup Cmd({"apply"}, leases, RunRevisions, {{}}, DOMAIN previews)
     \cup Cmd({"approve"}, leases, RunRevisions, {{}}, tokens)

Next ==
  \/ \E cmd \in Commands : Handle(cmd)
  \/ \E c \in Clients \cup {NoClient} : LeaseMoves(c)
  \/ HolderDisconnects
  \/ HolderReconnects
  \/ GraceElapses
  \/ PollExpires
  \/ \E i \in DOMAIN previews : PreviewElapses(i)
  \/ ExecutorAdvances

Spec == Init /\ [][Next]_vars

-----------------------------------------------------------------------------
TypeOK ==
  /\ lease \in [holder : Clients \cup {NoClient}, revision : Nat,
                grace : {"none", "running", "overdue"}]
  /\ plan \in [revision : 1..MaxPlan, draft : Drafts, eligible : BOOLEAN]
  /\ definitions \in [1..MaxPlan -> Drafts \cup {{}}]
  /\ run \in Runs \cup {NoRun}
  /\ run # NoRun /\ run.phase = "paused" => run.resumable # "none"
  /\ executor \in Executors

\* Later drafts never change an accepted run: it follows the definition that
\* was accepted for the plan as it stands, and a plan is eligible exactly
\* while that definition exists (product-spec.md, Accepted Run Definition).
RunFollowsDefinition ==
  /\ plan.eligible <=> definitions[plan.revision] # {}
  /\ plan.eligible => definitions[plan.revision] = plan.draft
  /\ run # NoRun => run.source = plan.revision /\ plan.eligible

\* Skips, discards, verifications and retries in any order account for
\* every sequence once.  The worker completes a supervised run without
\* counting its sequence.
SequencesAccountedFor ==
  run # NoRun =>
    run.completed = run.sequence +
      (IF run.phase = "completed" /\ executor # "real" THEN 1 ELSE 0)

\* A run that has ended keeps its phase and revision.
EndedStaysEnded ==
  [][run # NoRun /\ run.phase \in Ended => run' = run]_vars

\* A paused run stays where it is: it goes on in the phase and sequence it
\* was paused in, or ends; no executor step and no mutation moves it.
PausedRunIsKept ==
  [][run # NoRun /\ run.phase = "paused" /\ run' # run =>
       /\ run'.sequence = run.sequence
       /\ run'.mutations = run.mutations
       /\ run'.phase \in {run.resumable, "stopped", "parkRequested"}]_vars

\* RUN-06: a mutation is applied to the run as it was previewed, and once.
AppliesPreviewedRun ==
  [][run # NoRun /\ run'.mutations # run.mutations =>
       LET i == run'.mutations[Len(run'.mutations)]
       IN /\ previews[i].revision = run.revision
          /\ \A j \in DOMAIN run.mutations : run.mutations[j] # i]_vars

\* A key of a person takes effect once in each family of commands, however
\* often, late or by whichever client of the person it is delivered.
KeysTakeEffectOnce ==
  \A r, s \in receipts :
    /\ Table(r.kind) = Table(s.kind)
    /\ r.key = s.key
    /\ Person[r.by] = Person[s.by]
    => r = s

\* LEASE-05: whoever does not hold the lease now moves nothing, also with a
\* command prepared while holding it.
OnlyHolderMovesRun ==
  [][run' # run =>
       \A cmd \in receipts' \ receipts :
         lease.holder = cmd.by /\ cmd.lease = lease.revision]_vars

\* A stop also takes a row keyed by the key alone; it never meets one.
StopNeverCollides ==
  \A cmd \in Commands :
    cmd.kind = "stop" /\ Accepts(cmd) => LegacyStops(cmd) = {}

\* What is offered and never accepted: a definition where no executor is
\* configured, and a mutation of a run of one sequence.
RefusedAlways(cmd) ==
  \/ cmd.kind = "accept" /\ executor = "unavailable"
  \/ cmd.kind = "preview" /\ SequenceCount = 1

\* What the pages offer and what the origin accepts agree in every state but
\* for these two: a command prepared from what a page now shows is accepted
\* exactly if it is offered.  An overdue grace takes the lease from a pause,
\* and an older preview still applies while the page shows the last one
\* (CODING_STANDARDS.md, "each ... eligibility rule one canonical owner").
OfferedIsAccepted ==
  lease.grace # "overdue" =>
    \A cmd \in Commands :
      UpToDate(cmd) =>
        IF cmd.kind \in {"apply", "approve"}
        THEN Offered(cmd) => Accepts(cmd)
        ELSE Accepts(cmd) <=> Offered(cmd) /\ ~RefusedAlways(cmd)

\* The run is on the definition it was started from and accounts for each of
\* its sequences, and no stop meets the row of another (acceptRun, skip,
\* discard, both executors' steps, the older receipt table).
RunIsSound ==
  TypeOK /\ RunFollowsDefinition /\ SequencesAccountedFor /\ StopNeverCollides

\* Only the holder's command moves the run, an ended run stays ended, a paused
\* one goes on from where it was paused, and a mutation applies as previewed.
RunMovesAsCommanded ==
  /\ OnlyHolderMovesRun /\ EndedStaysEnded
  /\ PausedRunIsKept /\ AppliesPreviewedRun
=============================================================================
