--------------------------- MODULE AcquireSession ---------------------------
(***************************************************************************)
(* The Acquire session of a run: how a target is centred or a mount is     *)
(* polar-aligned from image evidence (services/acquire-domain.ts,          *)
(* target-acquisition-service.ts, polar-service.ts,                        *)
(* acquire-command-service.ts, persistence/acquire-sqlite-repository.ts).  *)
(*                                                                         *)
(* A command that needs the rig reads the session, awaits the provider and *)
(* stores a session computed from what it read; the store carries no       *)
(* revision guard.  A slot of `flight` is one HTTP request between its     *)
(* read and its store.  Pointing vectors are abstracted to how their       *)
(* magnitude compares with the policy, times to a small clock.             *)
(***************************************************************************)
EXTENDS Naturals, Sequences, FiniteSets

CONSTANTS
    Slots,          \* requests the origin may have in flight at once
    Clients,        \* control-capable clients
    Method,         \* "deepSky", "lunar" or "polar"
    Results,        \* what an image may prove, a subset of AllResults
    MaxAttempts,    \* policy.maxSolveAttemptsPerSeries
    MaxCorrections, \* policy.maxCorrectionAttempts
    MaxRecoveries,  \* policy.maxRecoverySeries
    Frames,         \* assets the live frame provider may answer
    DenyOuter,      \* AcquireOuterTransitionPolicy
    MaxKeys,        \* bound: idempotency keys that ever get a receipt
    MaxClock        \* bound: proposal lifetimes that pass

VARIABLES
    session,   \* acquire_sessions: the stored session of the run
    flight,    \* the requests that await a provider
    receipts,  \* acquire_receipts: the outcome stored for each used key
    outcomes,  \* what the provider durably answered for an attempt
    moves,     \* how often the mount was moved
    run,       \* the phase of the run
    holder,    \* the client that holds the control lease
    clock      \* the wall clock, in proposal lifetimes

vars == <<session, flight, receipts, outcomes, moves, run, holder, clock>>

NoSolution == {"retryable", "final"}
Correctable == {"automatic", "approval"}
AllResults == NoSolution \cup Correctable \cup {"centered", "unsafe"}

ASSUME ConstantsAssumption ==
    /\ Method \in {"deepSky", "lunar", "polar"}
    /\ Results \subseteq AllResults
    /\ {MaxCorrections, MaxRecoveries, MaxKeys, MaxClock} \subseteq Nat
    /\ MaxAttempts \in Nat \ {0}
    /\ Clients \subseteq STRING

-----------------------------------------------------------------------------
(* The session.  Attempt identities are derived from one another by a      *)
(* suffix, or from the revision at which they are made.                    *)

Suffixed(id, part) == [id EXCEPT !.path = Append(@, part)]
Minted(s, part) == [root |-> s.revision + 1, path |-> <<part>>]
NoAttempt == [root |-> 0, path |-> <<>>]
Initial == [root |-> 0, path |-> <<"initial-1">>]

NoWork == [kind |-> "none"]
NoProposal == [revision |-> 0]
NoCapture == [state |-> "absent"]
Idle == [step |-> "idle"]

Series(id, purpose, parameters, verifies) ==
    [id |-> id, purpose |-> purpose, parameters |-> parameters,
     verifies |-> verifies, done |-> <<>>]

SolveWork(id, seriesId, purpose, verifies) ==
    [kind |-> "solve", id |-> id, series |-> seriesId, number |-> 1,
     purpose |-> purpose, verifies |-> verifies]

Within(q) == {q[i] : i \in DOMAIN q}
Places(s, kinds) == {i \in DOMAIN s.evidence : s.evidence[i].kind \in kinds}
Of(s, kinds) == {s.evidence[i] : i \in Places(s, kinds)}
Ids(s, kinds) == {e.id : e \in Of(s, kinds)}
Newest(s, kinds) ==
    {s.evidence[i] : i \in {i \in Places(s, kinds) :
                             \A j \in Places(s, kinds) : j <= i}}
Corrections == {"accepted", "rejected"}
Recoveries(s) ==
    {i \in DOMAIN s.series : s.series[i].purpose = "operatorRecovery"}
Last(q) == q[Len(q)]

\* The session keeps a copy of the policy it was made under.
PolicyOf(attempts, corrections, recoveries) ==
    [attempts |-> attempts, corrections |-> corrections,
     recoveries |-> recoveries]

PolarSession(policy) ==
    [method |-> "polar", policy |-> policy,
     revision |-> 0, phase |-> "polarGuidance", series |-> <<>>,
     evidence |-> <<>>, work |-> NoWork, proposal |-> NoProposal,
     managed |-> NoCapture, latest |-> NoAttempt, approved |-> NoAttempt]

TargetAcquisitionSession(method, policy) ==
    [PolarSession(policy) EXCEPT
       !.method = method, !.phase = "solving",
       !.series = <<Series(Initial, "initial", "asPlanned", NoAttempt)>>,
       !.work = SolveWork(Initial, Initial, "initial", NoAttempt)]

-----------------------------------------------------------------------------
(* validateAcquireSession: a session that fails it cannot be built, the    *)
(* request that tried dies and nothing is stored.                          *)

ValidPhase(s) ==
    /\ (s.method = "polar") <=> (s.series = <<>>)
    /\ (s.phase = "awaitingApproval") <=> (s.proposal # NoProposal)
    /\ s.work.kind = CASE s.phase \in {"solving", "verifying"} -> "solve"
                       [] s.phase = "correcting" -> "correct"
                       [] s.phase = "polarMeasuring" -> "measure"
                       [] OTHER -> "none"

ValidIdentities(s) ==
    /\ Cardinality({s.series[i].id : i \in DOMAIN s.series}) = Len(s.series)
    /\ \A i, j \in DOMAIN s.evidence :
         (i # j /\ s.evidence[i].id = s.evidence[j].id) =>
           /\ s.evidence[i].kind # s.evidence[j].kind
           /\ {s.evidence[i].kind, s.evidence[j].kind} # Corrections

\* A series lists its attempts in the order of their evidence.
Indexes(series, s) ==
    LET recorded == {i \in DOMAIN s.evidence :
                       IF s.method = "lunar"
                       THEN s.evidence[i].kind = "lunar"
                       ELSE /\ s.evidence[i].kind = "solve"
                            /\ s.evidence[i].series = series.id}
    IN /\ Len(series.done) = Cardinality(recorded)
       /\ \A i \in recorded :
            series.done[Cardinality({j \in recorded : j <= i})] =
              s.evidence[i].id
       /\ s.method # "lunar" =>
            \A i \in recorded :
              s.evidence[i].verifies = series.verifies

ValidSeries(s) ==
    /\ \A i \in DOMAIN s.series : Indexes(s.series[i], s)
    /\ \A e \in Of(s, {"solve"}) :
         \E i \in DOMAIN s.series : s.series[i].id = e.series
    /\ Cardinality(Recoveries(s)) <= s.policy.recoveries
    /\ Cardinality(Places(s, {"accepted"})) <= s.policy.corrections
    /\ \A e \in Of(s, Corrections) : e.basedOn \in Ids(s, {"solve"})
    /\ \A i \in DOMAIN s.series :
         s.series[i].verifies \in Ids(s, {"accepted"}) \cup {NoAttempt}

Measured(s, c) ==
    \E e \in Of(s, {"solve"}) :
      /\ e.id = c.basedOn
      /\ e.result \notin NoSolution
      /\ c.basis = "measuredInverse" => e.result = c.vector

ValidWork(s) ==
    CASE s.work.kind = "solve" ->
           /\ \E i \in DOMAIN s.series :
                /\ s.series[i].id = s.work.series
                /\ s.work.number = Len(s.series[i].done) + 1
                /\ s.work.verifies = s.series[i].verifies
           /\ s.work.id \notin
                Ids(s, IF s.method = "lunar" THEN {"lunar"} ELSE {"solve"})
      [] s.work.kind = "correct" ->
           /\ Measured(s, s.work)
           /\ s.work.id \notin Ids(s, Corrections)
      [] OTHER -> TRUE

ValidProposal(s) ==
    s.proposal = NoProposal \/ /\ s.proposal.revision = s.revision
                               /\ Measured(s, s.proposal)

ValidPolar(s) ==
    /\ s.latest # NoAttempt =>
         \E e \in Newest(s, {"polar"}) : e.id = s.latest
    /\ s.approved # NoAttempt =>
         /\ s.approved = s.latest
         /\ s.method = "polar" /\ s.phase = "completed"
         /\ \E e \in Newest(s, {"polar"}) : e.result = "centered"

Valid(s) ==
    /\ ValidPhase(s) /\ ValidIdentities(s) /\ ValidSeries(s)
    /\ ValidWork(s) /\ ValidProposal(s) /\ ValidPolar(s)

-----------------------------------------------------------------------------
(* The transitions of the domain, as functions of the session they read.   *)

Advance(s, phase, work, proposal) ==
    [s EXCEPT !.revision = @ + 1, !.phase = phase, !.work = work,
              !.proposal = proposal]

Recorded(s, e) == [s EXCEPT !.evidence = Append(@, e)]

Completes(s, e) ==
    [Recorded(s, e) EXCEPT
       !.series = [i \in DOMAIN s.series |->
                     IF s.series[i].id = s.work.series
                     THEN [s.series[i] EXCEPT !.done = Append(@, s.work.id)]
                     ELSE s.series[i]]]

\* The target slew is evidence of its own when the attempt opens a series
\* the operator asked for: the session advances once for it.
SlewAcknowledged(s) ==
    IF s.work.purpose = "initial"
    THEN [Recorded(s, [kind |-> "slew", id |-> s.work.id])
            EXCEPT !.revision = @ + 1]
    ELSE s

\* Mutant: the proposal is bound to the revision that was read.
AfterSolveStale(s, result, capturedAt) ==
    LET solved == Completes(s, [kind |-> "solve", id |-> s.work.id,
                                series |-> s.work.series,
                                verifies |-> s.work.verifies,
                                result |-> result])
    IN IF result = "centered"
       THEN Advance(solved, "completed", NoWork, NoProposal)
       ELSE Advance(solved, "awaitingApproval", NoWork,
                    [revision |-> s.revision, id |-> s.work.id,
                     basedOn |-> s.work.id, basis |-> "measuredInverse",
                     vector |-> result, expires |-> capturedAt + 1])

AfterSolve(s, result, capturedAt) ==
    LET solved == Completes(s, [kind |-> "solve", id |-> s.work.id,
                                series |-> s.work.series,
                                verifies |-> s.work.verifies,
                                result |-> result])
        spent == Cardinality(Places(s, {"accepted"})) >= s.policy.corrections
        basis == [basedOn |-> s.work.id, basis |-> "measuredInverse",
                  vector |-> result]
        again == [s.work EXCEPT !.id = Suffixed(@, "retry"),
                                !.number = @ + 1, !.purpose = "retry"]
        correction == [kind |-> "correct",
                       id |-> Suffixed(s.work.id, "correction"),
                       basedOn |-> basis.basedOn, basis |-> basis.basis,
                       vector |-> basis.vector]
        proposal == [revision |-> s.revision + 1,
                     id |-> Suffixed(s.work.id, "proposal"),
                     basedOn |-> basis.basedOn, basis |-> basis.basis,
                     vector |-> basis.vector, expires |-> capturedAt + 1]
    IN CASE result = "centered" ->
              Advance(solved, "completed", NoWork, NoProposal)
         [] result = "retryable" /\ s.work.number < s.policy.attempts ->
              Advance(solved, s.phase, again, NoProposal)
         [] result = "automatic" /\ ~spent ->
              Advance(solved, "correcting", correction, NoProposal)
         [] result = "approval" /\ ~spent ->
              Advance(solved, "awaitingApproval", NoWork, proposal)
         [] OTHER -> Advance(solved, "paused", NoWork, NoProposal)

AfterLimb(s, result) ==
    Advance(Completes(s, [kind |-> "lunar", id |-> s.work.id,
                          result |-> result]),
            IF result = "centered" THEN "completed" ELSE "paused",
            NoWork, NoProposal)

AfterCapture(s, result, capturedAt) ==
    IF s.method = "lunar"
    THEN AfterLimb(SlewAcknowledged(s), result)
    ELSE AfterSolve(SlewAcknowledged(s), result, capturedAt)

OpensRecovery(s, parameters) ==
    /\ s.phase = "paused"
    /\ Cardinality(Recoveries(s)) < s.policy.recoveries
    /\ Last(s.series).parameters # parameters

\* Mutant: the recovery replaces the failed frames.
RecoveringAfresh(s, parameters) ==
    LET id == Minted(s, "recovery")
    IN Advance([s EXCEPT !.evidence = <<>>,
                         !.series = <<Series(id, "operatorRecovery",
                                             parameters, NoAttempt)>>],
               "solving",
               SolveWork(Minted(s, "recovery-solve"), id, "initial",
                         NoAttempt),
               NoProposal)

Recovering(s, parameters) ==
    LET id == Minted(s, "recovery")
    IN Advance([s EXCEPT !.series = Append(@,
                  Series(id, "operatorRecovery", parameters, NoAttempt))],
               "solving",
               SolveWork(Minted(s, "recovery-solve"), id, "initial",
                         NoAttempt),
               NoProposal)

\* The proposal the client names is the one it saw at this revision; the
\* service compares its expiry with a constant instead of the clock.
NowEpochMs == 0
Approvable(s) ==
    s.proposal # NoProposal /\ NowEpochMs <= s.proposal.expires

Approved(s) ==
    Advance(s, "correcting",
            [kind |-> "correct", id |-> Minted(s, "correction"),
             basedOn |-> s.proposal.basedOn, basis |-> s.proposal.basis,
             vector |-> s.proposal.vector],
            NoProposal)

Revised(s, vector) ==
    Advance(s, "awaitingApproval", NoWork,
            [s.proposal EXCEPT !.revision = s.revision + 1,
                               !.id = Suffixed(@, "revision"),
                               !.basis = "operatorRevision",
                               !.vector = vector,
                               !.expires = NowEpochMs + 1])

\* Mutant: the mount's acknowledgement completes the acquisition.
AfterCorrectionTrusted(s, answer) ==
    Advance(Recorded(s, [kind |-> answer, id |-> s.work.id,
                         basedOn |-> s.work.basedOn]),
            IF answer = "rejected" THEN "paused" ELSE "completed",
            NoWork, NoProposal)

AfterCorrection(s, answer) ==
    LET recorded == Recorded(s, [kind |-> answer, id |-> s.work.id,
                                 basedOn |-> s.work.basedOn])
        seriesId == Suffixed(s.work.id, "verification")
    IN IF answer = "rejected"
       THEN Advance(recorded, "paused", NoWork, NoProposal)
       ELSE Advance([recorded EXCEPT !.series = Append(@,
                       Series(seriesId, "correctionVerification",
                              Last(s.series).parameters, s.work.id))],
                    "verifying",
                    SolveWork(Suffixed(s.work.id, "verification-1"),
                              seriesId, "verification", s.work.id),
                    NoProposal)

Scheduled(s) ==
    Advance(s, "polarMeasuring",
            [kind |-> "measure", id |-> Minted(s, "polar")], NoProposal)

AfterMeasure(s, result) ==
    [Advance(Recorded(s, [kind |-> "polar", id |-> s.work.id,
                          result |-> result]),
             "polarGuidance", NoWork, NoProposal)
       EXCEPT !.latest = s.work.id]

PolarAccepted(s) ==
    [Advance(s, "completed", NoWork, NoProposal) EXCEPT !.approved = s.latest]

AfterFrame(s, frame, quality) ==
    [Recorded(s, [kind |-> "frame", id |-> frame, quality |-> quality])
       EXCEPT !.revision = @ + 1]

Managed(s, capture) ==
    [s EXCEPT !.revision = @ + 1, !.managed = capture]

-----------------------------------------------------------------------------
Init ==
    /\ LET policy == PolicyOf(MaxAttempts, MaxCorrections, MaxRecoveries)
       IN session = IF Method = "polar"
                    THEN PolarSession(policy)
                    ELSE TargetAcquisitionSession(Method, policy)
    /\ flight = [s \in Slots |-> Idle]
    /\ receipts = <<>>
    /\ outcomes = [id \in {} |-> Idle]
    /\ moves = 0
    /\ run = "acquire"
    /\ holder \in Clients
    /\ clock = 0

(* A command is admitted when its key has no receipt and the revisions it  *)
(* names are the current ones; a refusal changes nothing.                  *)
Admitted == Len(receipts) < MaxKeys

Answer(key, outcome) ==
    receipts' = IF key > Len(receipts) THEN Append(receipts, outcome)
                                       ELSE [receipts EXCEPT ![key] = outcome]

Commit(next) ==
    /\ Admitted
    /\ Valid(next)
    /\ session' = next
    /\ Answer(Len(receipts) + 1, "accepted")
    /\ UNCHANGED <<flight, outcomes, moves, run, holder, clock>>

SolveParameters == {"asPlanned", "longer"}

RetryPlateSolveWithParameters ==
    \E parameters \in SolveParameters :
      /\ session.method # "polar"
      /\ OpensRecovery(session, parameters)
      /\ Commit(Recovering(session, parameters))

Ended(phase) == Advance(session, phase, NoWork, NoProposal)

MaySkip == ~DenyOuter /\ session.phase = "paused"

SkipAcquireTarget == MaySkip /\ Commit(Ended("skipped"))

MayAbort ==
    /\ ~DenyOuter
    /\ session.method # "polar"
    /\ session.phase \notin {"completed", "skipped"}

AbortAcquire == MayAbort /\ Commit(Ended("aborted"))

DenyOuterTransition ==
    /\ DenyOuter
    /\ Admitted
    /\ Answer(Len(receipts) + 1, "denied")
    /\ UNCHANGED <<session, flight, outcomes, moves, run, holder, clock>>

RevisePointingCorrection ==
    /\ Approvable(session)
    /\ \E vector \in Results \cap Correctable :
         Commit(Revised(session, vector))

MayAcceptPolar ==
    /\ session.method = "polar"
    /\ session.latest # NoAttempt
    /\ session.work = NoWork
    /\ \E e \in Newest(session, {"polar"}) : e.result = "centered"

AcceptPolarAlignmentEvidence ==
    MayAcceptPolar /\ Commit(PolarAccepted(session))

\* A capture starts with the quality of the newest frame.
MayStart == session.phase = "completed" /\ session.managed = NoCapture
Started(frame) ==
    Managed(session, [state |-> "active", quality |-> frame.quality])

StartManagedCapture ==
    MayStart /\ \E frame \in Newest(session, {"frame"}) :
                  Commit(Started(frame))

MayPause == session.managed.state = "active"
MayStop == session.managed.state \in {"active", "paused"}
MayRecenter == MayPause /\ session.managed.quality = "attention"

Turned(state) == Managed(session, [session.managed EXCEPT !.state = state])
Recentered == Managed(session, [session.managed EXCEPT !.quality = "good"])

PauseManagedCapture == MayPause /\ Commit(Turned("paused"))
StopManagedCapture == MayStop /\ Commit(Turned("stopped"))
RecenterManagedCapture == MayRecenter /\ Commit(Recentered)

(* A request leaves for its provider with the session it read.  Capture    *)
(* and approval store a pending receipt before they do.                    *)
Leave(s, c, step, base) ==
    /\ Admitted
    /\ flight[s] = Idle
    /\ flight' = [flight EXCEPT ![s] =
                    [step |-> step, base |-> base, by |-> c,
                     key |-> Len(receipts) + 1]]
    /\ UNCHANGED <<session, outcomes, moves, run, holder, clock>>

CaptureTargetAcquisitionEvidence(s, c) ==
    /\ session.work.kind = "solve"
    /\ Leave(s, c, "capture", session)
    /\ Answer(Len(receipts) + 1, "pending")

ApprovePointingCorrection(s, c) ==
    /\ Approvable(session)
    /\ Leave(s, c, "correct", Approved(session))
    /\ Answer(Len(receipts) + 1, "pending")

MayRecord == session.phase = "completed" /\ session.method # "polar"

RecordLiveFrameEvidence(s, c) ==
    /\ MayRecord
    /\ Leave(s, c, "frame", session)
    /\ UNCHANGED receipts

MayMeasure == session.phase = "polarGuidance" /\ session.work = NoWork

CapturePolarAlignmentMeasurement(s, c) ==
    /\ MayMeasure
    /\ Leave(s, c, "measure", Scheduled(session))
    /\ UNCHANGED receipts

(* The provider records what it did for an attempt, and answers the same   *)
(* again.  It solves an image only for the attempt that is still awaited.  *)
Works(id, result, moved) ==
    /\ outcomes' = [a \in DOMAIN outcomes \cup {id} |->
                      IF a = id
                      THEN [result |-> result, moves |-> moves + moved,
                            at |-> clock]
                      ELSE outcomes[a]]
    /\ moves' = moves + moved
    /\ UNCHANGED <<session, flight, receipts, run, holder, clock>>

ProviderCaptures(s) ==
    /\ flight[s].step = "capture"
    /\ LET work == flight[s].base.work
       IN /\ session.work = work
          /\ work.id \notin DOMAIN outcomes
          /\ \E result \in Results :
               Works(work.id, result,
                     IF work.purpose = "initial" THEN 1 ELSE 0)

ProviderCorrects(s) ==
    /\ flight[s].step = "correct"
    /\ flight[s].base.work.id \notin DOMAIN outcomes
    /\ \/ Works(flight[s].base.work.id, "accepted", 1)
       \/ Works(flight[s].base.work.id, "rejected", 0)

(* The provider's answer reaches the handler, which stores the session it  *)
(* computes from the one it read.  A solve inside the automatic bound goes *)
(* on to the correction in the same request.                               *)
Store(s, next) ==
    /\ flight' = [flight EXCEPT ![s] = Idle]
    /\ IF Valid(next)
       THEN session' = next /\ Answer(flight[s].key, "accepted")
       ELSE UNCHANGED <<session, receipts>>
    /\ UNCHANGED <<outcomes, moves, run, holder, clock>>

Solved(s) ==
    LET answer == outcomes[flight[s].base.work.id]
    IN AfterCapture(flight[s].base, answer.result, answer.at)

CaptureReturns(s) ==
    /\ flight[s].step = "capture"
    /\ flight[s].base.work.id \in DOMAIN outcomes
    /\ IF Solved(s).work.kind = "correct"
       THEN /\ flight' = [flight EXCEPT ![s].step = "correct",
                                        ![s].base = Solved(s)]
            /\ UNCHANGED <<session, receipts, outcomes, moves, run, holder,
                           clock>>
       ELSE Store(s, Solved(s))

CorrectionReturns(s) ==
    /\ flight[s].step = "correct"
    /\ LET id == flight[s].base.work.id
       IN /\ id \in DOMAIN outcomes
          /\ Store(s, AfterCorrection(flight[s].base, outcomes[id].result))

FrameReturns(s) ==
    /\ flight[s].step = "frame"
    /\ \E frame \in Frames, quality \in {"good", "attention"} :
         Store(s, AfterFrame(flight[s].base,
                             [root |-> frame, path |-> <<"frame">>], quality))

MeasureReturns(s) ==
    /\ flight[s].step = "measure"
    /\ \E result \in Results :
         Store(s, AfterMeasure(flight[s].base, result))

\* The provider fails, its answer does not decode, or the origin stops:
\* nothing is stored, and a pending receipt stays as it is.
RequestEnds(s) ==
    /\ flight[s] # Idle
    /\ flight' = [flight EXCEPT ![s] = Idle]
    /\ UNCHANGED <<session, receipts, outcomes, moves, run, holder, clock>>

-----------------------------------------------------------------------------
(* What the page of whoever controls the run is offered (acquireSnapshot). *)

Unmanaged == session.managed = NoCapture

\* Mutant: a capture that was stopped can be paused.
OffersStopped ==
    CASE session.phase \in {"solving", "verifying"} -> {"capture"}
      [] session.phase = "completed" ->
           IF Unmanaged THEN {"frame"} ELSE {"pause", "stop"}
      [] OTHER -> {}

PolarOffers ==
    IF session.phase # "polarGuidance" THEN {}
    ELSE IF Of(session, {"polar"}) = {} THEN {"measure"} ELSE {"acceptPolar"}

TargetOffers ==
    CASE session.phase \in {"solving", "verifying"} -> {"capture"}
      [] session.phase = "awaitingApproval" -> {"approve"}
      [] session.phase \in {"paused", "correcting"} ->
           LET recovers == session.phase = "paused" /\ session.method = "deepSky"
           IN (IF recovers THEN {"retry"} ELSE {})
                \cup IF DenyOuter THEN {}
                     ELSE IF recovers THEN {"skip", "abort"} ELSE {"abort"}
      [] session.phase = "completed" ->
           {offer \in {"frame", "start", "pause", "stop", "recenter"} :
             /\ offer \in {"frame", "start"} => Unmanaged
             /\ offer = "start" => Of(session, {"frame"}) # {}
             /\ offer = "stop" => session.managed.state \in
                                    {"active", "paused"}
             /\ offer \in {"pause", "recenter"} =>
                  session.managed.state = "active"
             /\ offer = "recenter" => session.managed.quality = "attention"}
      [] OTHER -> {}

Offers == IF session.method = "polar" THEN PolarOffers ELSE TargetOffers

-----------------------------------------------------------------------------
(* What happens around the session.                                        *)

ContinueCompletedAcquire ==
    /\ run = "acquire" /\ session.phase = "completed"
    /\ run' = "capture"
    /\ UNCHANGED <<session, flight, receipts, outcomes, moves, holder, clock>>

StopRun ==
    /\ run # "stopped"
    /\ run' = "stopped"
    /\ UNCHANGED <<session, flight, receipts, outcomes, moves, holder, clock>>

TakeControl ==
    /\ holder' \in Clients \ {holder}
    /\ UNCHANGED <<session, flight, receipts, outcomes, moves, run, clock>>

Tick ==
    /\ clock < MaxClock
    /\ clock' = clock + 1
    /\ UNCHANGED <<session, flight, receipts, outcomes, moves, run, holder>>

Commands ==
    \/ RetryPlateSolveWithParameters \/ SkipAcquireTarget \/ AbortAcquire
    \/ DenyOuterTransition \/ RevisePointingCorrection
    \/ AcceptPolarAlignmentEvidence \/ StartManagedCapture
    \/ PauseManagedCapture \/ StopManagedCapture \/ RecenterManagedCapture
    \/ \E s \in Slots, c \in Clients :
         \/ CaptureTargetAcquisitionEvidence(s, c)
         \/ ApprovePointingCorrection(s, c)
         \/ RecordLiveFrameEvidence(s, c)
         \/ CapturePolarAlignmentMeasurement(s, c)

Progress(s) ==
    \/ ProviderCaptures(s) \/ ProviderCorrects(s) \/ CaptureReturns(s)
    \/ CorrectionReturns(s) \/ FrameReturns(s) \/ MeasureReturns(s)

Next ==
    \/ Commands
    \/ \E s \in Slots : Progress(s) \/ RequestEnds(s)
    \/ ContinueCompletedAcquire \/ StopRun \/ TakeControl \/ Tick

Spec == Init /\ [][Next]_vars

\* The origin works on: requests in flight and the executor take their
\* steps.  Nobody promises that a client sends a command.
FairSpec == /\ Spec
            /\ WF_vars(ContinueCompletedAcquire)
            /\ \A s \in Slots : WF_vars(Progress(s))

-----------------------------------------------------------------------------
(* The variables keep their shape: what a flight carries and what the      *)
(* receipts hold (AcquireSession, AcquireCommandOutcome).                  *)
TypeOK ==
    /\ session.phase \in
         {"solving", "correcting", "verifying", "awaitingApproval",
          "polarGuidance", "paused", "skipped", "aborted", "completed"}
    /\ session.revision \in Nat /\ moves \in Nat /\ clock \in Nat
    /\ \A s \in DOMAIN flight : flight[s].step \in
         {"idle", "capture", "correct", "frame", "measure"}
    /\ Within(receipts) \subseteq {"pending", "accepted", "denied"}
    /\ run \in {"acquire", "capture", "stopped"}
    /\ holder \in STRING

Images == {id \in DOMAIN outcomes : outcomes[id].result \in AllResults}

(* A request that awaits its provider can record whatever the provider     *)
(* answers: the session it would store passes validateAcquireSession, so   *)
(* evidence of something the rig did is never refused by the schema.       *)
AnswersAreRecordable ==
    \A s \in DOMAIN flight :
      LET base == flight[s].base
      IN CASE flight[s].step = "capture" ->
                \A result \in AllResults :
                  Valid(AfterCapture(base, result, clock))
           [] flight[s].step = "correct" ->
                \A answer \in Corrections :
                  Valid(AfterCorrection(base, answer))
           [] flight[s].step = "measure" ->
                \A result \in AllResults : Valid(AfterMeasure(base, result))
           [] OTHER -> TRUE

(* A paused deep-sky session that still has a recovery series can open it   *)
(* with changed parameters: RetryPlateSolveWithParameters is not refused by *)
(* the schema when its handler admits it.                                   *)
RecoveryOpens ==
    \A parameters \in {"asPlanned", "longer"} :
      (session.method = "deepSky" /\ OpensRecovery(session, parameters)) =>
        Valid(Recovering(session, parameters))

(* The evidence that may complete a session: a polar session has no series. *)
Proving(s) == IF s.series = <<>> THEN {"polar"} ELSE {"solve", "lunar"}

(* A session completes only on an image that proves the target centred, or *)
(* on the latest polar measurement: never on what the mount acknowledged.  *)
Centered(s) == \E e \in Newest(s, Proving(s)) : e.result = "centered"
CompletedByImage == session.phase = "completed" => Centered(session)

(* The origin serves one request of a session at a time.                   *)
Alone == \A s, t \in DOMAIN flight : s = t

(* The image a completed target session rests on was taken after the last  *)
(* movement of the mount.                                                  *)
PointingIsVerified ==
    (session.phase = "completed" /\ session.series # <<>>) =>
      \A e \in Newest(session, Proving(session)) :
        outcomes[e.id].moves = moves

(* The run captures its target only while the session says it is centred.  *)
CapturesCentered ==
    (run = "capture" /\ session.series # <<>>) => session.phase = "completed"

(* A session completes by an image; with one request at a time it is newer *)
(* than the last movement, and the run captures nothing before it.         *)
CenteredByImage ==
    CompletedByImage /\ (Alone => PointingIsVerified /\ CapturesCentered)

(* The rig takes no more acquisition images than the budgets of the policy *)
(* allow, over retries, corrections and the recovery together.             *)
ImagesWithinBudget ==
    Cardinality(Images) <=
      session.policy.attempts *
        (1 + session.policy.recoveries + session.policy.corrections)

(* Every session is one its own schema accepts, with whatever its provider  *)
(* answers next, and opens its recovery; with one request at a time it takes *)
(* no more images than the policy allows (validateAcquireSession, the       *)
(* policy).                                                                 *)
SessionSound ==
    /\ TypeOK /\ AnswersAreRecordable /\ RecoveryOpens
    /\ Alone => ImagesWithinBudget

(* Attempt evidence is append-only: what a session once recorded it still  *)
(* holds, in the same place, after every retry, recovery and correction.   *)
Extends(q, p) == /\ DOMAIN p \subseteq DOMAIN q
                 /\ \A i \in DOMAIN p : q[i] = p[i]
KeepsEvidence == Extends(session'.evidence, session.evidence)

(* With one request at a time evidence is append-only.                     *)
EvidenceIsKept == [][Alone => KeepsEvidence]_vars

(* An offer is good: the origin accepts the command it shows.  A command is *)
(* handled when its guards hold and the schema accepts what it stores, or   *)
(* when its request leaves for the provider.                                *)
Handled(offer) ==
    CASE offer = "measure" -> MayMeasure
      [] offer = "acceptPolar" ->
           MayAcceptPolar /\ Valid(PolarAccepted(session))
      [] offer = "capture" -> session.work.kind = "solve"
      [] offer = "approve" -> Approvable(session)
      [] offer = "retry" ->
           \E parameters \in SolveParameters :
             /\ OpensRecovery(session, parameters)
             /\ Valid(Recovering(session, parameters))
      [] offer = "skip" -> MaySkip /\ Valid(Ended("skipped"))
      [] offer = "abort" -> MayAbort /\ Valid(Ended("aborted"))
      [] offer = "frame" -> MayRecord
      [] offer = "start" ->
           MayStart /\ \E frame \in Newest(session, {"frame"}) :
                         Valid(Started(frame))
      [] offer = "pause" -> MayPause /\ Valid(Turned("paused"))
      [] offer = "stop" -> MayStop /\ Valid(Turned("stopped"))
      [] offer = "recenter" -> MayRecenter /\ Valid(Recentered)

\* Two offers are always refused: a recovery when the policy allows no
\* further series, and the acceptance of a polar measurement that is out of
\* tolerance.
Refused(offer) ==
    \/ /\ offer = "retry"
       /\ Cardinality(Recoveries(session)) = session.policy.recoveries
    \/ /\ offer = "acceptPolar"
       /\ \A e \in Newest(session, {"polar"}) : e.result # "centered"

(* What the page of a session is offered the origin accepts, whatever other *)
(* requests are under way, except the two offers that it always refuses     *)
(* (acquireSnapshot and the handlers of the commands).                      *)
OfferedIsAccepted == \A offer \in Offers : Handled(offer) <=> ~Refused(offer)

(* No command sends the mount or the camera to work once the run stopped.  *)
StoppedRunRests ==
    [][\A s \in Slots :
         (flight[s] = Idle /\ flight'[s] # Idle) => run # "stopped"]_vars

=============================================================================
