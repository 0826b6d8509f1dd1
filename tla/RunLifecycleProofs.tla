-------------------------- MODULE RunLifecycleProofs --------------------------
(***************************************************************************)
(* Theorems of RunLifecycle for any clients, keys, drafts, sequences,       *)
(* executor and bounds.  The inductive invariant adds to the invariants     *)
(* what a preview knows of the run it was made for, that an applied preview *)
(* is marked, and that a stop among the receipts means a stopped run.       *)
(***************************************************************************)
EXTENDS RunLifecycle, SequenceTheorems, TLAPS

Previews ==
  [mutation : Mutations, revision : Nat,
   state : {"open", "applied", "expired"},
   person : Owners \cup {"friend"}, token : BOOLEAN]

(* Only the plan's revision, or an earlier one, has a definition, and it was  *)
(* accepted of a draft that is ready.                                        *)
DefinitionsFitPlan ==
  /\ \A r \in 1..MaxPlan : r > plan.revision => definitions[r] = {}
  /\ plan.eligible => Readiness(plan.draft) = "ready"

(* A preview is of a run; while that has the revision it was made for, it is *)
(* active in the first of several sequences.                                 *)
PreviewsFollowRun ==
  /\ previews \in Seq(Previews)
  /\ \A i \in DOMAIN previews :
       /\ run # NoRun
       /\ previews[i].revision <= run.revision
       /\ previews[i].revision = run.revision =>
            run.sequence = 0 /\ SequenceCount > 1 /\ run.phase \in Active

(* What was applied to the run is a preview that is marked as applied.       *)
AppliedAreMarked ==
  run # NoRun =>
    \A j \in DOMAIN run.mutations :
      /\ run.mutations[j] \in DOMAIN previews
      /\ previews[run.mutations[j]].state = "applied"

(* Once a stop was accepted the run is, and stays, stopped.                  *)
StopsAreFinal ==
  (\E r \in receipts : r.kind = "stop") => run # NoRun /\ run.phase = "stopped"

Inv ==
  /\ TypeOK /\ RunFollowsDefinition /\ DefinitionsFitPlan
  /\ SequencesAccountedFor /\ PreviewsFollowRun /\ AppliedAreMarked
  /\ StopsAreFinal /\ KeysTakeEffectOnce

-----------------------------------------------------------------------------
(* What the helpers make of a run.                                           *)

Fields == {"revision", "source", "phase", "sequence", "completed",
           "resumable", "retried", "mutations"}

(* q is r but for the fields in changed.                                     *)
Differs(q, r, changed) == \A f \in Fields \ changed : q[f] = r[f]

LEMMA Bounds ==
  /\ SequenceCount \in Nat \ {0}
  /\ MaxPlan \in Nat \ {0} /\ MaxRun \in Nat \ {0}
BY RunAssumption

LEMMA NoRunIsNone == NoRun \notin Runs
BY RunAssumption

LEMMA RevisedRun ==
  ASSUME NEW r \in Runs, r.revision < MaxRun
  PROVE  /\ Revised(r) \in Runs
         /\ Revised(r).revision = r.revision + 1
         /\ Differs(Revised(r), r, {"revision"})
<1>1. r.revision + 1 \in 1..MaxRun
  BY Bounds DEF Runs
<1> QED BY <1>1 DEF Runs, Revised, Differs, Fields

Phases == Active \cup Ended \cup {"paused"}

LEMMA PhaseRun ==
  ASSUME NEW r \in Runs, NEW p \in Phases
  PROVE  LET q == [r EXCEPT !.phase = p]
         IN q \in Runs /\ q.phase = p /\ Differs(q, r, {"phase"})
BY DEF Runs, Phases, Differs, Fields

LEMMA CountRun ==
  ASSUME NEW r \in Runs
  PROVE  LET q == [r EXCEPT !.completed = @ + 1]
         IN /\ q \in Runs /\ q.completed = r.completed + 1
            /\ Differs(q, r, {"completed"})
BY DEF Runs, Differs, Fields

LEMMA AppendRun ==
  ASSUME NEW r \in Runs, NEW i \in Nat
  PROVE  LET q == [r EXCEPT !.mutations = Append(@, i)]
         IN /\ q \in Runs /\ q.mutations = Append(r.mutations, i)
            /\ Differs(q, r, {"mutations"})
<1>1. r.mutations \in Seq(Nat) /\ Append(r.mutations, i) \in Seq(Nat)
  BY DEF Runs
<1> QED BY <1>1 DEF Runs, Differs, Fields

-----------------------------------------------------------------------------
(* What the effects make of a run that accounts for its sequences.           *)

Sound(r) ==
  /\ r \in Runs
  /\ r.phase = "paused" => r.resumable # "none"
  /\ r.completed = r.sequence +
       (IF r.phase = "completed" /\ executor # "real" THEN 1 ELSE 0)

LEMMA NextSequenceSound ==
  ASSUME NEW r, Sound(r), r.phase # "completed", executor # "real"
  PROVE  /\ Sound(NextSequence(r))
         /\ Differs(NextSequence(r), r, {"phase", "sequence", "completed"})
         /\ NextSequence(r).phase \in {"preflight", "completed"}
<1> DEFINE counted == [r EXCEPT !.completed = @ + 1]
<1>1. /\ counted \in Runs /\ counted.completed = r.completed + 1
      /\ Differs(counted, r, {"completed"})
  BY CountRun DEF Sound
<1>2. NextSequence(r) =
        IF r.sequence + 1 < SequenceCount
        THEN [counted EXCEPT !.phase = "preflight", !.sequence = @ + 1]
        ELSE [counted EXCEPT !.phase = "completed"]
  BY DEF NextSequence
<1> HIDE DEF counted
<1>3. /\ r \in Runs /\ r.completed = r.sequence
      /\ counted.sequence = r.sequence /\ r.sequence \in 0..SequenceCount - 1
  BY <1>1 DEF Sound, Differs, Fields, Runs
<1>4. CASE r.sequence + 1 < SequenceCount
  <2> DEFINE n == counted.sequence + 1
             q == [counted EXCEPT !.phase = "preflight", !.sequence = n]
  <2>1. n \in 0..SequenceCount - 1 /\ "preflight" \in Phases
    BY <1>3, <1>4, Bounds DEF Phases, Active
  <2>3. NextSequence(r) = q
    BY <1>2, <1>4
  <2> HIDE DEF n
  <2>2. /\ q \in Runs /\ q.phase = "preflight"
        /\ q.sequence = n /\ Differs(q, counted, {"phase", "sequence"})
    BY <1>1, <2>1 DEF Runs, Phases, Differs, Fields
  <2> HIDE DEF q
  <2> QED BY <1>1, <1>3, <2>2, <2>3 DEF Sound, Differs, Fields, n
<1>5. CASE ~(r.sequence + 1 < SequenceCount)
  <2> DEFINE q == [counted EXCEPT !.phase = "completed"]
  <2>1. q \in Runs /\ q.phase = "completed" /\ Differs(q, counted, {"phase"})
    BY <1>1, PhaseRun DEF Phases, Ended
  <2>2. NextSequence(r) = q
    BY <1>2, <1>5
  <2> HIDE DEF q
  <2> QED BY <1>1, <1>3, <2>1, <2>2 DEF Sound, Differs, Fields
<1> QED BY <1>4, <1>5

(* An intervention that the guards let through keeps the run sound, and      *)
(* resumes a paused run where it was paused, or ends it.                     *)
LEMMA IntervenedSound ==
  ASSUME NEW r, Sound(r), NEW kind \in Interventions,
         r.phase \notin Ended,
         kind = "pause" => r.phase \in Active,
         kind = "resume" => r.phase = "paused",
         kind \in {"skip", "retry"} => r.phase # "paused",
         kind = "skip" => executor # "real"
  PROVE  LET q == Intervened(r, kind)
         IN /\ Sound(q)
            /\ Differs(q, r, Fields \ {"revision", "source", "mutations"})
            /\ kind = "stop" => q.phase = "stopped"
            /\ r.phase = "paused" =>
                 /\ q.sequence = r.sequence
                 /\ q.phase \in {r.resumable, "stopped", "parkRequested"}
<1> DEFINE q == Intervened(r, kind)
<1>1. r \in Runs /\ r.phase \in Phases /\ r.resumable \in Active \cup {"none"}
  BY DEF Sound, Runs, Phases
<1>2. CASE kind = "pause"
  <2> DEFINE p == [r EXCEPT !.phase = "paused", !.resumable = r.phase]
  <2>1. q = p
    BY <1>2 DEF Intervened
  <2>2. "paused" \in Phases /\ r.phase \in Active
    BY <1>2 DEF Phases
  <2>3. /\ p \in Runs /\ p.phase = "paused" /\ p.resumable = r.phase
        /\ Differs(p, r, {"phase", "resumable"})
    BY <1>1, <2>2 DEF Runs, Phases, Differs, Fields
  <2> HIDE DEF p
  <2> QED BY <1>2, <2>1, <2>2, <2>3 DEF Sound, Differs, Fields, Active
<1>3. CASE kind = "resume"
  <2> DEFINE p == [r EXCEPT !.phase = r.resumable, !.resumable = "none"]
  <2>1. q = p
    BY <1>3 DEF Intervened
  <2>2. r.phase = "paused" /\ r.resumable \in Active
    BY <1>1, <1>3 DEF Sound
  <2>3. /\ p \in Runs /\ p.phase = r.resumable /\ p.resumable = "none"
        /\ Differs(p, r, {"phase", "resumable"})
    BY <1>1, <2>2 DEF Runs, Phases, Differs, Fields
  <2> HIDE DEF p
  <2> QED BY <1>3, <2>1, <2>2, <2>3 DEF Sound, Differs, Fields, Active
<1>4. CASE kind \in {"stop", "park"}
  <2> DEFINE p == [r EXCEPT !.phase = IF kind = "stop" THEN "stopped"
                                                       ELSE "parkRequested"]
  <2>1. q = p
    BY <1>4 DEF Intervened
  <2>2. /\ p \in Runs /\ Differs(p, r, {"phase"})
        /\ p.phase = IF kind = "stop" THEN "stopped" ELSE "parkRequested"
    BY <1>1, <1>4 DEF Runs, Phases, Ended, Differs, Fields
  <2> HIDE DEF p
  <2> QED BY <1>4, <2>1, <2>2 DEF Sound, Differs, Fields, Ended
<1>5. CASE kind = "skip"
  BY <1>5, NextSequenceSound DEF Intervened, Ended, Differs, Fields
<1>6. CASE kind = "retry"
  <2> DEFINE p == [r EXCEPT !.retried = r.phase]
  <2>1. q = p
    BY <1>6 DEF Intervened
  <2>2. r.phase \in Active
    BY <1>1, <1>6 DEF Phases
  <2>3. p \in Runs /\ Differs(p, r, {"retried"})
    BY <1>1, <2>2 DEF Runs, Differs, Fields
  <2> HIDE DEF p
  <2> QED BY <1>6, <2>1, <2>2, <2>3 DEF Sound, Differs, Fields, Active
<1> HIDE DEF q
<1> QED BY <1>2, <1>3, <1>4, <1>5, <1>6 DEF Interventions, q

(* A step of the fake executor keeps the run sound, and there is none from a *)
(* paused or ended run.                                                      *)
LEMMA AdvancedSound ==
  ASSUME NEW r, Sound(r), executor # "real", Advanced(r) # r
  PROVE  /\ Sound(Advanced(r))
         /\ Differs(Advanced(r), r, {"phase", "sequence", "completed"})
         /\ r.phase \notin Ended \cup {"paused"}
<1>1. r.phase \in {"preflight", "acquire", "capture", "verify"}
  BY DEF Advanced
<1>2. CASE r.phase = "verify"
  BY <1>2, NextSequenceSound DEF Advanced, Ended
<1>3. CASE r.phase # "verify"
  <2>1. PICK p \in {"acquire", "capture", "verify"} :
          Advanced(r) = [r EXCEPT !.phase = p]
    BY <1>1, <1>3 DEF Advanced
  <2>2. /\ Advanced(r) \in Runs /\ Advanced(r).phase = p
        /\ Differs(Advanced(r), r, {"phase"})
    BY <2>1, PhaseRun DEF Sound, Phases, Active
  <2> QED BY <1>1, <1>3, <2>2 DEF Sound, Differs, Fields, Ended
<1> QED BY <1>2, <1>3

(* So does a step of the worker, which completes without counting.           *)
LEMMA NextRunSound ==
  ASSUME NEW r, Sound(r), executor = "real", NEW p \in WorkerPhases(r)
  PROVE  /\ Sound(NextRun(r, p))
         /\ Differs(NextRun(r, p), r, {"phase", "resumable"})
         /\ r.phase \notin Ended \cup {"paused"}
<1> DEFINE kept == IF p = "recover" THEN "capture" ELSE "none"
           q == [r EXCEPT !.phase = p, !.resumable = kept]
<1>1. /\ r.phase \in {"preflight", "acquire", "capture", "recover"}
      /\ p \in {"acquire", "capture", "recover", "verify", "completed"}
  BY DEF WorkerPhases
<1>2. p \in Phases /\ kept \in Active \cup {"none"}
  BY <1>1 DEF Phases, Active, Ended
<1>3. NextRun(r, p) = q
  BY DEF NextRun
<1> HIDE DEF kept
<1>4. q \in Runs /\ q.phase = p /\ Differs(q, r, {"phase", "resumable"})
  BY <1>2 DEF Sound, Runs, Phases, Differs, Fields
<1> HIDE DEF q
<1> QED BY <1>1, <1>3, <1>4 DEF Sound, Differs, Fields, Ended

(* Applying a preview keeps the run sound; discarding the current sequence    *)
(* is for a run in the first of several.                                     *)
LEMMA MutatedSound ==
  ASSUME NEW r, Sound(r), r.phase \in Active, NEW i \in Nat,
         r.sequence = 0, SequenceCount > 1
  PROVE  /\ Sound(Mutated(r, i))
         /\ Mutated(r, i).mutations = Append(r.mutations, i)
         /\ Differs(Mutated(r, i), r,
                    {"phase", "sequence", "completed", "mutations"})
<1> DEFINE moved == [r EXCEPT !.phase = "preflight", !.sequence = @ + 1]
           counted == [moved EXCEPT !.completed = @ + 1]
           base == IF previews[i].mutation = "discardCurrent"
                   THEN counted ELSE r
<1>1. Mutated(r, i) = [base EXCEPT !.mutations = Append(@, i)]
  BY DEF Mutated
<1>2. /\ moved \in Runs /\ moved.phase = "preflight"
      /\ moved.sequence = r.sequence + 1
      /\ Differs(moved, r, {"phase", "sequence"})
  <2>1. r.sequence + 1 \in 0..SequenceCount - 1
    BY Bounds
  <2> QED BY <2>1 DEF Sound, Runs, Phases, Active, Differs, Fields
<1> HIDE DEF moved
<1>3. /\ counted \in Runs /\ counted.completed = moved.completed + 1
      /\ Differs(counted, moved, {"completed"})
  BY <1>2, CountRun
<1> HIDE DEF counted
<1>4. /\ Sound(base) /\ base.mutations = r.mutations
      /\ Differs(base, r, {"phase", "sequence", "completed"})
  BY <1>2, <1>3 DEF Sound, Differs, Fields, Active, Runs
<1> HIDE DEF base
<1> DEFINE applied == [base EXCEPT !.mutations = Append(@, i)]
<1>5. /\ applied \in Runs /\ applied.mutations = Append(base.mutations, i)
      /\ Differs(applied, base, {"mutations"})
  BY <1>4, AppendRun DEF Sound
<1> HIDE DEF applied
<1>6. Mutated(r, i) = applied
  BY <1>1 DEF applied
<1> QED BY <1>4, <1>5, <1>6 DEF Sound, Differs, Fields

-----------------------------------------------------------------------------
(* Commands, receipts and previews.                                          *)

LEMMA CommandFacts ==
  ASSUME NEW cmd \in Commands
  PROVE  /\ cmd.by \in Clients
         /\ cmd.kind \in Interventions \cup
              {"save", "accept", "start", "preview", "apply", "approve"}
         /\ cmd.kind = "save" => cmd.arg \in Drafts
         /\ cmd.kind = "preview" => cmd.arg \in Mutations
         /\ cmd.kind \in {"apply", "approve"} => cmd.preview \in DOMAIN previews
BY DEF Commands, Cmd, Interventions

(* A key that is remembered was not remembered for the person before.        *)
LEMMA KeysStep ==
  ASSUME KeysTakeEffectOnce, NEW cmd, Accepts(cmd), Remember(cmd)
  PROVE  KeysTakeEffectOnce'
BY DEF KeysTakeEffectOnce, Accepts, Remember, PriorReceipts

LEMMA MarkedPreviews ==
  ASSUME previews \in Seq(Previews), NEW i \in DOMAIN previews,
         NEW state \in {"open", "applied", "expired"}
  PROVE  LET q == [previews EXCEPT ![i].state = state]
         IN /\ q \in Seq(Previews) /\ DOMAIN q = DOMAIN previews
            /\ q[i].state = state
            /\ \A j \in DOMAIN previews :
                 /\ q[j].revision = previews[j].revision
                 /\ j # i => q[j] = previews[j]
<1> DEFINE marked == [previews[i] EXCEPT !.state = state]
           q == [previews EXCEPT ![i] = marked]
<1>1. previews[i] \in Previews
  OBVIOUS
<1>2. /\ marked \in Previews /\ marked.state = state
      /\ marked.revision = previews[i].revision
  BY <1>1 DEF Previews
<1> HIDE DEF marked
<1>3. /\ q \in Seq(Previews) /\ DOMAIN q = DOMAIN previews
      /\ q[i] = marked /\ \A j \in DOMAIN previews : j # i => q[j] = previews[j]
  BY <1>2
<1>4. q = [previews EXCEPT ![i].state = state]
  BY DEF marked
<1> HIDE DEF q
<1> QED BY <1>2, <1>3, <1>4

LEMMA SoundRun ==
  ASSUME TypeOK, SequencesAccountedFor, run # NoRun PROVE Sound(run)
BY DEF TypeOK, SequencesAccountedFor, Sound

-----------------------------------------------------------------------------
(* Every accepted command preserves the invariant.                           *)

\* What a command that moves the run, once started, has to show.
Moves ==
  /\ Sound(run') /\ run'.revision = run.revision + 1
  /\ run'.source = run.source

LEMMA SaveStep ==
  ASSUME Inv, NEW cmd \in Commands, cmd.kind = "save", Accept(cmd) PROVE Inv'
<1>1. /\ MaySave(cmd) /\ SaveDraft(cmd) /\ Remember(cmd)
      /\ UNCHANGED <<lease, executor>>
      /\ cmd.arg \in Drafts
  BY CommandFacts DEF Accept, Accepts, Allows, Effect
<1>2. /\ plan.revision \in 1..MaxPlan /\ plan.revision + 1 \in 1..MaxPlan
      /\ plan' = [revision |-> plan.revision + 1, draft |-> cmd.arg,
                  eligible |-> FALSE]
      /\ UNCHANGED <<definitions, run, previews>>
  BY <1>1, Bounds DEF Inv, TypeOK, SaveDraft
<1>3. run = NoRun
  BY <1>1 DEF MaySave
<1>4. TypeOK'
  BY <1>1, <1>2 DEF Inv, TypeOK
<1>5. RunFollowsDefinition' /\ DefinitionsFitPlan'
  BY <1>2, <1>3 DEF Inv, RunFollowsDefinition, DefinitionsFitPlan
<1>6. (SequencesAccountedFor /\ PreviewsFollowRun /\ AppliedAreMarked)'
  BY <1>1, <1>2
  DEF Inv, SequencesAccountedFor, PreviewsFollowRun, AppliedAreMarked
<1>7. StopsAreFinal'
  BY <1>1, <1>2 DEF Inv, StopsAreFinal, Remember
<1> QED BY <1>4, <1>5, <1>6, <1>7, KeysStep DEF Inv, Accept

LEMMA AcceptStep ==
  ASSUME Inv, NEW cmd \in Commands, cmd.kind = "accept", Accept(cmd) PROVE Inv'
<1>1. /\ MayAccept(cmd) /\ AcceptRunDefinition(cmd) /\ Remember(cmd)
      /\ UNCHANGED <<lease, executor>>
  BY DEF Accept, Accepts, Allows, Effect, Interventions
<1>2. /\ plan.revision \in 1..MaxPlan /\ plan.draft \in Drafts
      /\ plan.draft # {} /\ definitions \in [1..MaxPlan -> Drafts \cup {{}}]
  BY RunAssumption DEF Inv, TypeOK
<1>3. /\ plan' = [plan EXCEPT !.eligible = TRUE]
      /\ definitions' = [definitions EXCEPT ![plan.revision] = plan.draft]
      /\ UNCHANGED <<run, previews>>
  BY <1>1 DEF AcceptRunDefinition
<1>4. /\ plan'.revision = plan.revision /\ plan'.draft = plan.draft
      /\ plan'.eligible
      /\ plan' \in [revision : 1..MaxPlan, draft : Drafts, eligible : BOOLEAN]
  BY <1>3 DEF Inv, TypeOK
<1>5. TypeOK'
  BY <1>1, <1>2, <1>3, <1>4 DEF Inv, TypeOK
<1>6. RunFollowsDefinition' /\ DefinitionsFitPlan'
  BY <1>1, <1>2, <1>3, <1>4
  DEF Inv, RunFollowsDefinition, DefinitionsFitPlan, MayAccept
<1>7. (SequencesAccountedFor /\ PreviewsFollowRun /\ AppliedAreMarked)'
  BY <1>1, <1>3
  DEF Inv, SequencesAccountedFor, PreviewsFollowRun, AppliedAreMarked
<1>8. StopsAreFinal'
  BY <1>1, <1>3 DEF Inv, StopsAreFinal, Remember
<1> QED BY <1>5, <1>6, <1>7, <1>8, KeysStep DEF Inv, Accept

LEMMA StartStep ==
  ASSUME Inv, NEW cmd \in Commands, cmd.kind = "start", Accept(cmd) PROVE Inv'
<1>1. /\ MayStart(cmd) /\ StartAcceptedRun(cmd) /\ Remember(cmd)
      /\ UNCHANGED <<lease, executor>>
  BY DEF Accept, Accepts, Allows, Effect, Interventions
<1>2. /\ run = NoRun /\ plan.eligible /\ plan.revision \in 1..MaxPlan
      /\ UNCHANGED <<plan, definitions, previews>>
  BY <1>1 DEF MayStart, StartAcceptedRun, Inv, TypeOK
<1>3. /\ run' \in Runs /\ run'.source = plan.revision
      /\ run'.phase \in Active /\ run'.sequence = 0 /\ run'.completed = 0
      /\ run'.mutations = <<>>
  BY <1>1, <1>2, Bounds DEF StartAcceptedRun, Runs, Active
<1>4. TypeOK'
  BY <1>1, <1>2, <1>3 DEF Inv, TypeOK, Active
<1>5. RunFollowsDefinition' /\ DefinitionsFitPlan'
  BY <1>2, <1>3 DEF Inv, RunFollowsDefinition, DefinitionsFitPlan
<1>6. (SequencesAccountedFor /\ PreviewsFollowRun /\ AppliedAreMarked)'
  BY <1>2, <1>3
  DEF Inv, SequencesAccountedFor, PreviewsFollowRun, AppliedAreMarked, Active
<1>7. StopsAreFinal'
  BY <1>1, <1>2 DEF Inv, StopsAreFinal, Remember
<1> QED BY <1>4, <1>5, <1>6, <1>7, KeysStep DEF Inv, Accept

LEMMA PreviewStep ==
  ASSUME Inv, NEW cmd \in Commands, cmd.kind = "preview", Accept(cmd)
  PROVE  Inv'
<1>1. /\ run # NoRun /\ cmd.by \in Clients /\ cmd.arg \in Mutations
      /\ SequenceCount > 1 /\ run.phase \in Active /\ run.sequence = 0
      /\ PreviewRunMutation(cmd) /\ Remember(cmd)
      /\ UNCHANGED <<lease, executor>>
  BY CommandFacts
  DEF Accept, Accepts, Admits, HasExecutor, Allows, Effect, Interventions
<1> DEFINE preview ==
      [mutation |-> cmd.arg, revision |-> run.revision, state |-> "open",
       person |-> Person[cmd.by],
       token |-> cmd.arg = "discardCurrent" /\ lease.holder = cmd.by]
<1>2. /\ previews' = Append(previews, preview)
      /\ UNCHANGED <<plan, definitions, run>>
  BY <1>1 DEF PreviewRunMutation
<1>3. run \in Runs /\ run.revision \in Nat
  BY <1>1 DEF Inv, TypeOK, Runs
<1>4. preview \in Previews /\ preview.revision = run.revision
  BY <1>1, <1>3, RunAssumption DEF Previews
<1> HIDE DEF preview
<1>5. /\ previews \in Seq(Previews) /\ previews' \in Seq(Previews)
      /\ \A i \in DOMAIN previews' :
           \/ previews'[i] = preview
           \/ i \in DOMAIN previews /\ previews'[i] = previews[i]
      /\ \A i \in DOMAIN previews :
           i \in DOMAIN previews' /\ previews'[i] = previews[i]
  <2>1. previews \in Seq(Previews)
    BY DEF Inv, PreviewsFollowRun
  <2>2. /\ previews' \in Seq(Previews) /\ Len(previews') = Len(previews) + 1
        /\ \A i \in 1..Len(previews) : previews'[i] = previews[i]
        /\ previews'[Len(previews) + 1] = preview
    BY <1>2, <1>4, <2>1, AppendProperties
  <2>3. /\ DOMAIN previews = 1..Len(previews) /\ Len(previews) \in Nat
        /\ DOMAIN previews' = 1..Len(previews')
    BY <2>1, <2>2, LenProperties
  <2>4. \A i \in DOMAIN previews' :
          i \in DOMAIN previews \/ i = Len(previews) + 1
    BY <2>2, <2>3
  <2>5. \A i \in DOMAIN previews : i \in DOMAIN previews'
    BY <2>2, <2>3
  <2> QED BY <2>1, <2>2, <2>3, <2>4, <2>5
<1>6. TypeOK' /\ (RunFollowsDefinition /\ DefinitionsFitPlan)'
  BY <1>1, <1>2
  DEF Inv, TypeOK, RunFollowsDefinition, DefinitionsFitPlan
<1>7. (SequencesAccountedFor /\ AppliedAreMarked)'
  BY <1>1, <1>2, <1>5 DEF Inv, SequencesAccountedFor, AppliedAreMarked
<1>8. PreviewsFollowRun'
  BY <1>1, <1>2, <1>3, <1>4, <1>5 DEF Inv, PreviewsFollowRun
<1>9. StopsAreFinal'
  BY <1>1, <1>2 DEF Inv, StopsAreFinal, Remember
<1> QED BY <1>6, <1>7, <1>8, <1>9, KeysStep DEF Inv, Accept

(* What holds after a step that moved the run and left its mutations.        *)
LEMMA MovedRun ==
  ASSUME Inv, run # NoRun, Moves, run'.mutations = run.mutations,
         UNCHANGED <<plan, definitions, previews, executor>>
  PROVE  /\ run' \in Runs
         /\ run'.phase = "paused" => run'.resumable # "none"
         /\ (RunFollowsDefinition /\ DefinitionsFitPlan)'
         /\ (SequencesAccountedFor /\ PreviewsFollowRun /\ AppliedAreMarked)'
<1>1. run' \in Runs /\ run' # NoRun
  BY NoRunIsNone DEF Moves, Sound
<1>2. run \in Runs /\ run.revision \in Nat
  BY DEF Inv, TypeOK, Runs
<1>3. (RunFollowsDefinition /\ DefinitionsFitPlan)'
  BY DEF Inv, Moves, RunFollowsDefinition, DefinitionsFitPlan
<1>4. PreviewsFollowRun'
  <2>1. \A i \in DOMAIN previews :
          previews[i].revision \in Nat /\ previews[i].revision <= run.revision
    <3>1. \A i \in DOMAIN previews : previews[i] \in Previews
      BY DEF Inv, PreviewsFollowRun
    <3> QED BY <3>1 DEF Inv, PreviewsFollowRun, Previews
  <2> QED BY <1>1, <1>2, <2>1 DEF Inv, Moves, PreviewsFollowRun
<1> QED BY <1>1, <1>3, <1>4
        DEF Inv, Moves, Sound, SequencesAccountedFor, AppliedAreMarked

LEMMA InterveneMoves ==
  ASSUME Inv, NEW cmd, cmd.kind \in Interventions, Accept(cmd)
  PROVE  /\ run # NoRun /\ run.phase \notin Ended
         /\ Moves /\ run'.mutations = run.mutations
         /\ cmd.kind = "stop" => run'.phase = "stopped"
         /\ run.phase = "paused" =>
              /\ run'.sequence = run.sequence
              /\ run'.phase \in {run.resumable, "stopped", "parkRequested"}
         /\ HeldBy(cmd)
         /\ UNCHANGED <<lease, plan, definitions, previews, executor>>
<1>1. /\ run # NoRun /\ MayIntervene(cmd) /\ Intervene(cmd) /\ HeldBy(cmd)
      /\ UNCHANGED <<lease, executor>>
      /\ cmd.kind = "skip" => executor # "real"
  BY DEF Accept, Accepts, Admits, HasExecutor, Allows, Effect, Interventions
<1>2. Sound(run) /\ run \in Runs
  BY <1>1, SoundRun DEF Inv, Sound
<1> DEFINE q == Intervened(run, cmd.kind)
<1>3. /\ Sound(q)
      /\ Differs(q, run, Fields \ {"revision", "source", "mutations"})
      /\ cmd.kind = "stop" => q.phase = "stopped"
      /\ run.phase = "paused" =>
           /\ q.sequence = run.sequence
           /\ q.phase \in {run.resumable, "stopped", "parkRequested"}
  BY <1>1, <1>2, IntervenedSound DEF MayIntervene
<1>4. run' = Revised(q) /\ run.revision < MaxRun /\ run.phase \notin Ended
      /\ UNCHANGED <<plan, definitions, previews>>
  BY <1>1 DEF Intervene, MayIntervene
<1> HIDE DEF q
<1>5. /\ q.revision = run.revision /\ q.source = run.source
      /\ q.mutations = run.mutations
  BY <1>3 DEF Differs, Fields
<1>6. /\ run' \in Runs /\ run'.revision = q.revision + 1
      /\ Differs(run', q, {"revision"})
  BY <1>3, <1>4, <1>5, RevisedRun DEF Sound
<1> QED BY <1>1, <1>3, <1>4, <1>5, <1>6 DEF Moves, Sound, Differs, Fields

LEMMA InterveneStep ==
  ASSUME Inv, NEW cmd \in Commands, cmd.kind \in Interventions, Accept(cmd)
  PROVE  Inv'
<1>1. /\ run # NoRun /\ run.phase \notin Ended
      /\ Moves /\ run'.mutations = run.mutations
      /\ cmd.kind = "stop" => run'.phase = "stopped"
      /\ UNCHANGED <<lease, plan, definitions, previews, executor>>
  BY InterveneMoves
<1>2. run' # NoRun
  BY <1>1, NoRunIsNone DEF Moves, Sound
<1>3. StopsAreFinal'
  BY <1>1, <1>2 DEF Inv, StopsAreFinal, Accept, Remember, Ended
<1>4. TypeOK'
  BY <1>1, MovedRun DEF Inv, TypeOK
<1> QED BY <1>1, <1>3, <1>4, MovedRun, KeysStep DEF Inv, Accept

LEMMA ApplyMoves ==
  ASSUME Inv, NEW cmd \in Commands, cmd.kind \in {"apply", "approve"},
         Accept(cmd)
  PROVE  /\ run # NoRun /\ run.phase \in Active /\ Moves
         /\ cmd.preview \in DOMAIN previews
         /\ previews[cmd.preview].revision = run.revision
         /\ previews[cmd.preview].state = "open"
         /\ run'.mutations = Append(run.mutations, cmd.preview)
         /\ previews' = [previews EXCEPT ![cmd.preview].state = "applied"]
         /\ HeldBy(cmd) /\ UNCHANGED <<lease, plan, definitions, executor>>
<1>1. /\ run # NoRun /\ MayApply(cmd) /\ ApplyRunMutation(cmd) /\ HeldBy(cmd)
      /\ UNCHANGED <<lease, executor>> /\ cmd.preview \in DOMAIN previews
  BY CommandFacts
  DEF Accept, Accepts, Admits, HasExecutor, Allows, Effect, Interventions
<1>2. Sound(run) /\ run \in Runs /\ previews \in Seq(Previews)
  BY <1>1, SoundRun DEF Inv, Sound, PreviewsFollowRun
<1>3. /\ previews[cmd.preview].revision = run.revision
      /\ previews[cmd.preview].state = "open"
      /\ run.phase \in Active /\ run.sequence = 0 /\ SequenceCount > 1
      /\ cmd.preview \in Nat
  BY <1>1, <1>2 DEF Inv, PreviewsFollowRun, MayApply
<1> DEFINE q == Mutated(run, cmd.preview)
<1>4. /\ Sound(q) /\ q.mutations = Append(run.mutations, cmd.preview)
      /\ Differs(q, run, {"phase", "sequence", "completed", "mutations"})
  BY <1>2, <1>3, MutatedSound
<1>5. /\ run' = Revised(q) /\ run.revision < MaxRun
      /\ previews' = [previews EXCEPT ![cmd.preview].state = "applied"]
      /\ UNCHANGED <<plan, definitions>>
  BY <1>1 DEF ApplyRunMutation
<1> HIDE DEF q
<1>6. q.revision = run.revision /\ q.source = run.source
  BY <1>4 DEF Differs, Fields
<1>7. /\ run' \in Runs /\ run'.revision = q.revision + 1
      /\ Differs(run', q, {"revision"})
  BY <1>4, <1>5, <1>6, RevisedRun DEF Sound
<1> QED BY <1>1, <1>3, <1>4, <1>5, <1>6, <1>7 DEF Moves, Sound, Differs, Fields

LEMMA ApplyStep ==
  ASSUME Inv, NEW cmd \in Commands, cmd.kind \in {"apply", "approve"},
         Accept(cmd)
  PROVE  Inv'
<1> DEFINE i == cmd.preview
<1>1. /\ run # NoRun /\ run.phase \in Active /\ Moves /\ i \in DOMAIN previews
      /\ run'.mutations = Append(run.mutations, i)
      /\ previews' = [previews EXCEPT ![i].state = "applied"]
      /\ UNCHANGED <<lease, plan, definitions, executor>>
  BY ApplyMoves
<1> HIDE DEF i
<1>2. /\ run' \in Runs /\ run' # NoRun
      /\ run \in Runs /\ run.revision \in Nat /\ run.mutations \in Seq(Nat)
  <2>1. run' \in Runs /\ run' # NoRun /\ run \in Runs
    BY <1>1, NoRunIsNone DEF Inv, Moves, Sound, TypeOK
  <2> QED BY <2>1 DEF Runs
<1>3. previews \in Seq(Previews)
  BY DEF Inv, PreviewsFollowRun
<1>4. /\ previews' \in Seq(Previews) /\ DOMAIN previews' = DOMAIN previews
      /\ previews'[i].state = "applied"
      /\ \A j \in DOMAIN previews :
           /\ previews'[j].revision = previews[j].revision
           /\ j # i => previews'[j] = previews[j]
  BY <1>1, <1>3, MarkedPreviews
<1>5. i \in Nat
  BY <1>1, <1>3
<1>6. TypeOK'
  BY <1>1, <1>2 DEF Inv, TypeOK, Moves, Sound
<1>7. (RunFollowsDefinition /\ DefinitionsFitPlan)'
  BY <1>1, <1>2 DEF Inv, Moves, RunFollowsDefinition, DefinitionsFitPlan
<1>8. SequencesAccountedFor'
  BY <1>1 DEF Moves, Sound, SequencesAccountedFor
<1>9. PreviewsFollowRun'
  <2>1. \A j \in DOMAIN previews : previews[j] \in Previews
    BY <1>3
  <2>2. \A j \in DOMAIN previews :
          previews[j].revision \in Nat /\ previews[j].revision <= run.revision
    BY <2>1 DEF Inv, PreviewsFollowRun, Previews
  <2> QED BY <1>1, <1>2, <1>4, <2>2 DEF Moves, PreviewsFollowRun
<1>10. AppliedAreMarked'
  <2>1. /\ Len(run'.mutations) = Len(run.mutations) + 1
        /\ DOMAIN run'.mutations = 1..Len(run'.mutations)
        /\ DOMAIN run.mutations = 1..Len(run.mutations)
        /\ Len(run.mutations) \in Nat
        /\ \A j \in 1..Len(run.mutations) : run'.mutations[j] = run.mutations[j]
        /\ run'.mutations[Len(run.mutations) + 1] = i
    BY <1>1, <1>2, <1>5, AppendProperties, LenProperties
  <2>2. SUFFICES ASSUME NEW j \in DOMAIN run'.mutations
                 PROVE  /\ run'.mutations[j] \in DOMAIN previews'
                        /\ previews'[run'.mutations[j]].state = "applied"
    BY DEF AppliedAreMarked
  <2>3. j \in DOMAIN run.mutations \/ j = Len(run.mutations) + 1
    BY <2>1
  <2>4. CASE j \in DOMAIN run.mutations
    <3>1. run'.mutations[j] = run.mutations[j]
      BY <2>1, <2>4
    <3>2. /\ run.mutations[j] \in DOMAIN previews
          /\ previews[run.mutations[j]].state = "applied"
      BY <1>1, <2>4 DEF Inv, AppliedAreMarked
    <3> QED BY <1>4, <3>1, <3>2
  <2>5. CASE j = Len(run.mutations) + 1
    BY <1>1, <1>4, <2>1, <2>5
  <2> QED BY <2>3, <2>4, <2>5
<1>11. StopsAreFinal'
  BY <1>1 DEF Inv, StopsAreFinal, Accept, Remember, Active
<1> QED BY <1>6, <1>7, <1>8, <1>9, <1>10, <1>11, KeysStep DEF Inv, Accept

-----------------------------------------------------------------------------
(* Every step preserves the invariant.                                       *)

LEMMA AdvanceMoves ==
  ASSUME Inv, ExecutorAdvances
  PROVE  /\ run # NoRun /\ run.phase \notin Ended \cup {"paused"}
         /\ Moves /\ run'.mutations = run.mutations
<1>1. run # NoRun /\ run.revision < MaxRun /\ Sound(run)
  BY SoundRun DEF Inv, ExecutorAdvances
<1>2. PICK next :
        /\ run' = Revised(next) /\ Sound(next)
        /\ Differs(next, run,
                   {"phase", "sequence", "completed", "resumable"})
        /\ run.phase \notin Ended \cup {"paused"}
  <2>1. CASE FakeRunAdvances
    <3>1. executor = "fake" /\ Advanced(run) # run
          /\ run' = Revised(Advanced(run))
      BY <2>1 DEF FakeRunAdvances
    <3> QED BY <1>1, <3>1, AdvancedSound DEF Differs
  <2>2. CASE SupervisedRunAdvances
    <3>1. executor = "real"
      BY <2>2 DEF SupervisedRunAdvances
    <3>2. PICK p \in WorkerPhases(run) : run' = Revised(NextRun(run, p))
      BY <2>2 DEF SupervisedRunAdvances
    <3> QED BY <1>1, <3>1, <3>2, NextRunSound DEF Differs
  <2> QED BY <2>1, <2>2 DEF ExecutorAdvances
<1>3. /\ next.revision = run.revision /\ next.source = run.source
      /\ next.mutations = run.mutations
  BY <1>2 DEF Differs, Fields
<1>4. /\ run' \in Runs /\ run'.revision = next.revision + 1
      /\ Differs(run', next, {"revision"})
  BY <1>1, <1>2, <1>3, RevisedRun DEF Sound
<1>5. executor' = executor
  BY DEF ExecutorAdvances
<1> QED BY <1>1, <1>2, <1>3, <1>4, <1>5 DEF Moves, Sound, Differs, Fields

LEMMA AdvanceStep ==
  ASSUME Inv, ExecutorAdvances PROVE Inv'
<1>1. /\ run # NoRun /\ run.phase \notin Ended
      /\ Moves /\ run'.mutations = run.mutations
      /\ UNCHANGED <<lease, plan, definitions, previews, receipts, executor>>
  BY AdvanceMoves DEF ExecutorAdvances
<1>2. TypeOK'
  BY <1>1, MovedRun DEF Inv, TypeOK
<1> QED BY <1>1, <1>2, MovedRun
        DEF Inv, StopsAreFinal, KeysTakeEffectOnce, Ended

LEMMA ElapseStep ==
  ASSUME Inv, NEW i \in DOMAIN previews, PreviewElapses(i) PROVE Inv'
<1>1. /\ previews[i].state = "open"
      /\ previews' = [previews EXCEPT ![i].state = "expired"]
      /\ UNCHANGED <<lease, plan, definitions, run, receipts, executor>>
  BY DEF PreviewElapses
<1>2. /\ previews' \in Seq(Previews) /\ DOMAIN previews' = DOMAIN previews
      /\ \A j \in DOMAIN previews :
           /\ previews'[j].revision = previews[j].revision
           /\ j # i => previews'[j] = previews[j]
  BY <1>1, MarkedPreviews DEF Inv, PreviewsFollowRun
<1>3. PreviewsFollowRun'
  BY <1>1, <1>2 DEF Inv, PreviewsFollowRun
<1>4. AppliedAreMarked'
  BY <1>1, <1>2 DEF Inv, AppliedAreMarked
<1> QED BY <1>1, <1>3, <1>4
        DEF Inv, TypeOK, RunFollowsDefinition, DefinitionsFitPlan,
            SequencesAccountedFor, StopsAreFinal, KeysTakeEffectOnce

\* The lease moves, by whatever moves it, and nothing stored does.
LEMMA LeaseStep ==
  ASSUME Inv, UNCHANGED stored,
         lease' \in [holder : Clients \cup {NoClient}, revision : Nat,
                    grace : {"none", "running", "overdue"}]
  PROVE  Inv'
BY DEF Inv, stored, TypeOK, RunFollowsDefinition, DefinitionsFitPlan,
       SequencesAccountedFor, PreviewsFollowRun, AppliedAreMarked,
       StopsAreFinal, KeysTakeEffectOnce

LEMMA LeaseMovesType ==
  ASSUME TypeOK,
         \/ \E c \in Clients \cup {NoClient} : LeaseMoves(c)
         \/ HolderDisconnects \/ HolderReconnects \/ GraceElapses
         \/ PollExpires
         \/ \E cmd \in Commands : Refuse(cmd)
  PROVE  /\ UNCHANGED stored
         /\ lease' \in [holder : Clients \cup {NoClient}, revision : Nat,
                        grace : {"none", "running", "overdue"}]
BY DEF TypeOK, LeaseMoves, HolderDisconnects, HolderReconnects, GraceElapses,
       PollExpires, Refuse, Expired

LEMMA InvInit == Init => Inv
<1> SUFFICES ASSUME Init PROVE Inv
  OBVIOUS
<1>1. /\ run = NoRun /\ previews = <<>> /\ receipts = {}
      /\ plan \in [revision : {1}, draft : Drafts, eligible : {FALSE}]
      /\ definitions = [r \in 1..MaxPlan |-> {}]
      /\ lease = [holder |-> NoClient, revision |-> 0, grace |-> "none"]
      /\ executor \in Executors
  BY DEF Init
<1>2. plan.revision = 1 /\ plan.eligible = FALSE /\ plan.draft \in Drafts
  BY <1>1
<1>3. plan = [revision |-> 1, draft |-> plan.draft, eligible |-> FALSE]
  BY <1>1
<1>4. plan \in [revision : 1..MaxPlan, draft : Drafts, eligible : BOOLEAN]
  <2>1. 1 \in 1..MaxPlan
    BY Bounds
  <2> QED BY <1>2, <1>3, <2>1
<1>5. TypeOK
  BY <1>1, <1>4 DEF TypeOK
<1>6. RunFollowsDefinition /\ DefinitionsFitPlan
  BY <1>1, <1>2, Bounds DEF RunFollowsDefinition, DefinitionsFitPlan
<1>7. SequencesAccountedFor /\ AppliedAreMarked
  BY <1>1 DEF SequencesAccountedFor, AppliedAreMarked
<1>8. PreviewsFollowRun
  <2>1. previews \in Seq(Previews) /\ DOMAIN previews = {}
    BY <1>1
  <2> QED BY <2>1 DEF PreviewsFollowRun
<1>9. StopsAreFinal /\ KeysTakeEffectOnce
  BY <1>1 DEF StopsAreFinal, KeysTakeEffectOnce
<1> QED BY <1>5, <1>6, <1>7, <1>8, <1>9 DEF Inv

LEMMA InvNext == Inv /\ [Next]_vars => Inv'
<1> SUFFICES ASSUME Inv, [Next]_vars PROVE Inv'
  OBVIOUS
<1>1. ASSUME NEW cmd \in Commands, Accept(cmd) PROVE Inv'
  BY <1>1, CommandFacts, SaveStep, AcceptStep, StartStep, PreviewStep,
     InterveneStep, ApplyStep
<1>2. ASSUME NEW cmd \in Commands, Replay(cmd) PROVE Inv'
  <2>1. UNCHANGED vars
    BY <1>2 DEF Replay
  <2> QED BY <2>1, LeaseStep DEF Inv, TypeOK, vars, stored
<1>3. ASSUME NEW i \in DOMAIN previews, PreviewElapses(i) PROVE Inv'
  BY <1>3, ElapseStep
<1>4. CASE ExecutorAdvances
  BY <1>4, AdvanceStep
<1>5. CASE UNCHANGED vars
  BY <1>5, LeaseStep DEF Inv, TypeOK, vars, stored
<1>6. CASE \/ \E c \in Clients \cup {NoClient} : LeaseMoves(c)
           \/ HolderDisconnects \/ HolderReconnects \/ GraceElapses
           \/ PollExpires
           \/ \E cmd \in Commands : Refuse(cmd)
  BY <1>6, LeaseMovesType, LeaseStep DEF Inv
<1> QED BY <1>1, <1>2, <1>3, <1>4, <1>5, <1>6 DEF Next, Handle

THEOREM Invariance == Spec => []Inv
BY InvInit, InvNext, PTL DEF Spec

-----------------------------------------------------------------------------
(* The state keeps its shape: sequences stay in the definition, revisions in *)
(* their bounds, and a paused run knows the phase it resumes.                *)
THEOREM TypeCorrect == Spec => []TypeOK
BY Invariance, PTL DEF Inv

(* Whatever is saved, accepted and started in any order, a run follows the   *)
(* definition that was accepted for the plan as it stands.                   *)
THEOREM RunKeepsDefinition == Spec => []RunFollowsDefinition
BY Invariance, PTL DEF Inv

(* Skips, discards, verifications and retries account for each sequence once;*)
(* a supervised run is completed with its one sequence uncounted.            *)
THEOREM SequencesCounted == Spec => []SequencesAccountedFor
BY Invariance, PTL DEF Inv

(* A key of a person takes effect once in each family of commands.           *)
THEOREM KeysApplyOnce == Spec => []KeysTakeEffectOnce
BY Invariance, PTL DEF Inv

(* The row a stop writes under its key alone never meets another: once a run *)
(* is stopped no second stop is accepted.                                    *)
LEMMA StopsNeverMeet == Inv => StopNeverCollides
<1> SUFFICES ASSUME Inv, NEW cmd \in Commands, cmd.kind = "stop", Accepts(cmd)
             PROVE  LegacyStops(cmd) = {}
  BY DEF StopNeverCollides
<1>1. run.phase \notin Ended
  BY DEF Accepts, Allows, MayIntervene
<1> QED BY <1>1 DEF Inv, StopsAreFinal, LegacyStops, Ended

(* In every state the run keeps its shape and its definition, accounts for   *)
(* its sequences, and a stop meets no other stop's row.                      *)
THEOREM RunStaysSound == Spec => []RunIsSound
<1>1. Inv => RunIsSound
  BY StopsNeverMeet DEF Inv, RunIsSound
<1> QED BY <1>1, Invariance, PTL

-----------------------------------------------------------------------------
(* What the pages offer is what the origin accepts.                          *)

\* An up-to-date command has no receipt before it.
LEMMA FreshKey ==
  ASSUME NEW cmd, UpToDate(cmd)
  PROVE  PriorReceipts(cmd) = {} /\ LegacyStops(cmd) = {}
BY DEF UpToDate, PriorReceipts, LegacyStops

LEMMA InterventionOffered ==
  ASSUME Inv, lease.grace # "overdue", NEW cmd \in Commands, UpToDate(cmd),
         cmd.kind \in Interventions
  PROVE  Accepts(cmd) <=> Offered(cmd) /\ ~RefusedAlways(cmd)
<1>1. ~ExpiresFirst(cmd) /\ PriorReceipts(cmd) = {} /\ LegacyStops(cmd) = {}
  BY FreshKey DEF ExpiresFirst
<1>2. cmd.lease = lease.revision
  BY DEF UpToDate, Interventions
<1>3. HasExecutor => cmd.expected = run.revision
  BY DEF UpToDate, Interventions
<1>4. HasExecutor => /\ run.phase \in Active \cup Ended \cup {"paused"}
                     /\ run.phase = "paused" => run.resumable # "none"
  BY DEF Inv, TypeOK, HasExecutor, Runs
<1>5. Offered(cmd) <=> cmd.kind \in OffersObserve(cmd.by)
  BY DEF Offered, OffersPlan, Interventions
<1>6. Accepts(cmd) <=>
        /\ HasExecutor /\ Controls(cmd.by)
        /\ executor = "real" => cmd.kind \in {"pause", "stop"}
        /\ MayIntervene(cmd)
  BY <1>1, <1>2
  DEF Accepts, Admits, Allows, HeldBy, Controls, Interventions
<1>7. HasExecutor => (MayIntervene(cmd) <=>
        /\ run.phase \notin Ended
        /\ cmd.kind \in {"pause", "skip", "retry"} => run.phase # "paused"
        /\ cmd.kind = "pause" => ~(executor = "real" /\ run.phase = "verify")
        /\ cmd.kind = "resume" => run.phase = "paused"
        /\ cmd.kind = "retry" => run.retried = "none")
  BY <1>3, <1>4 DEF MayIntervene, Active
<1>8. cmd.kind \in OffersObserve(cmd.by) <=>
        /\ HasExecutor /\ Controls(cmd.by)
        /\ run.phase \notin Ended
        /\ cmd.kind \in {"pause", "skip", "retry"} => run.phase # "paused"
        /\ cmd.kind = "pause" => ~(executor = "real" /\ run.phase = "verify")
        /\ cmd.kind = "resume" =>
             run.phase = "paused" /\ run.resumable # "none"
        /\ cmd.kind = "retry" => run.retried = "none"
        /\ cmd.kind \in {"resume", "skip", "retry", "park"} =>
             executor # "real"
  BY DEF OffersObserve
<1>9. Offered(cmd) <=> Accepts(cmd)
  BY <1>4, <1>5, <1>6, <1>7, <1>8 DEF Interventions
<1>10. ~RefusedAlways(cmd)
  BY DEF RefusedAlways, Interventions
<1> QED BY <1>9, <1>10

LEMMA PlanningOffered ==
  ASSUME Inv, NEW cmd \in Commands, UpToDate(cmd),
         cmd.kind \in {"save", "accept", "start", "preview"}
  PROVE  Accepts(cmd) <=> Offered(cmd) /\ ~RefusedAlways(cmd)
<1>1. /\ ~ExpiresFirst(cmd) /\ PriorReceipts(cmd) = {}
      /\ LegacyStops(cmd) = {}
  BY FreshKey DEF ExpiresFirst
<1>2. Offered(cmd) <=> cmd.kind \in OffersPlan(cmd.by)
  BY DEF Offered, OffersObserve, Interventions
<1>3. Accepts(cmd) <=> Admits(cmd) /\ Allows(cmd)
  BY <1>1 DEF Accepts
<1>4. /\ plan.eligible <=> definitions[plan.revision] # {}
      /\ plan.eligible => Readiness(plan.draft) = "ready"
  BY DEF Inv, RunFollowsDefinition, DefinitionsFitPlan
<1>5. CASE cmd.kind = "save"
  BY <1>2, <1>3, <1>5
  DEF UpToDate, Admits, Allows, RefusedAlways, MaySave, OffersPlan, OwnerWrites,
      Interventions
<1>6. CASE cmd.kind = "accept"
  BY <1>2, <1>3, <1>4, <1>6
  DEF UpToDate, Admits, Allows, RefusedAlways, MayAccept, OffersPlan, OwnerWrites,
      Interventions
<1>7. CASE cmd.kind = "start"
  BY <1>2, <1>3, <1>4, <1>7
  DEF UpToDate, Admits, Allows, RefusedAlways, MayStart, HeldBy, OffersPlan, Controls,
      Interventions
<1>8. CASE cmd.kind = "preview"
  BY <1>2, <1>3, <1>8, Bounds
  DEF UpToDate, Admits, Allows, RefusedAlways, OffersPlan, OwnerWrites, AtFirstSequence,
      Interventions
<1> QED BY <1>5, <1>6, <1>7, <1>8

LEMMA ApplicationOffered ==
  ASSUME Inv, NEW cmd \in Commands, UpToDate(cmd),
         cmd.kind \in {"apply", "approve"}, Offered(cmd)
  PROVE  Accepts(cmd)
<1>1. /\ ~ExpiresFirst(cmd) /\ PriorReceipts(cmd) = {}
      /\ LegacyStops(cmd) = {}
  BY FreshKey DEF ExpiresFirst
<1>2. /\ cmd.kind \in OffersPlan(cmd.by) /\ cmd.preview \in Shown(cmd.by)
      /\ cmd.lease = lease.revision
  BY DEF Offered, OffersObserve, Interventions, UpToDate
<1>3. /\ OwnerWrites(cmd.by) /\ Controls(cmd.by) /\ AtFirstSequence
  BY <1>2 DEF OffersPlan
<1>4. PICK i \in Shown(cmd.by) :
        (previews[i].mutation = "discardCurrent") = (cmd.kind = "approve")
  BY <1>2 DEF OffersPlan
<1>5. DOMAIN previews \subseteq Nat
  <2>1. DOMAIN previews = 1..Len(previews) /\ Len(previews) \in Nat
    BY LenProperties DEF Inv, PreviewsFollowRun
  <2> QED BY <2>1
<1>6. i = cmd.preview
  BY <1>2, <1>4, <1>5 DEF Shown
<1>7. previews[i].state = "open" /\ previews[i].revision = run.revision
  BY <1>4 DEF Shown
<1>8. Admits(cmd)
  BY <1>2, <1>3
  DEF Admits, OwnerWrites, Controls, AtFirstSequence, HeldBy, Interventions
<1>9. MayApply(cmd)
  <2>1. cmd.expected = run.revision /\ run.phase \notin Ended
    BY <1>3 DEF UpToDate, AtFirstSequence, Active, Ended
  <2> QED BY <1>4, <1>6, <1>7, <2>1 DEF MayApply
<1> QED BY <1>1, <1>8, <1>9 DEF Accepts, Allows

(* A page that shows the origin as it is offers exactly the commands that    *)
(* are accepted, and an apply or approve only if it is; the two it offers in *)
(* vain are a definition where no executor is configured and a mutation of a *)
(* run of one sequence.                                                      *)
THEOREM ButtonsWork == Spec => []OfferedIsAccepted
<1>1. Inv => OfferedIsAccepted
  <2> SUFFICES ASSUME Inv, lease.grace # "overdue",
                      NEW cmd \in Commands, UpToDate(cmd)
               PROVE  IF cmd.kind \in {"apply", "approve"}
                      THEN Offered(cmd) => Accepts(cmd)
                      ELSE Accepts(cmd) <=> Offered(cmd) /\ ~RefusedAlways(cmd)
    BY DEF OfferedIsAccepted
  <2> QED BY CommandFacts, InterventionOffered, PlanningOffered,
             ApplicationOffered
<1> QED BY <1>1, Invariance, PTL

-----------------------------------------------------------------------------
\* A command's step adds its own receipt alone.
LEMMA OnlyReceipt ==
  ASSUME NEW cmd, Accept(cmd) PROVE receipts' \ receipts \subseteq {cmd}
BY DEF Accept, Remember

(* Only a command of the client that holds the lease, quoting its revision,  *)
(* moves the run; the executor's own steps add no receipt.                   *)
LEMMA HolderStep ==
  ASSUME Inv, [Next]_vars, run' # run, NEW cmd \in receipts' \ receipts
  PROVE  lease.holder = cmd.by /\ cmd.lease = lease.revision
<1>1. PICK c \in Commands : Accept(c)
  BY DEF Next, Handle, Replay, Refuse, LeaseMoves, HolderDisconnects,
         HolderReconnects, GraceElapses, PollExpires, PreviewElapses,
         ExecutorAdvances, vars, stored
<1>2. cmd = c
  BY <1>1, OnlyReceipt
<1>3. c.kind \in Interventions \cup {"start", "apply", "approve"}
  BY <1>1, CommandFacts
  DEF Accept, Effect, SaveDraft, AcceptRunDefinition, PreviewRunMutation
<1>4. HeldBy(c)
  BY <1>1, <1>3 DEF Accept, Accepts, Admits, Allows, MayStart, Interventions
<1> QED BY <1>2, <1>4 DEF HeldBy

(* What any step may do to a run that exists.                                *)
LEMMA RunStep ==
  ASSUME Inv, [Next]_vars, run # NoRun, run' # run
  PROVE  /\ run.phase \notin Ended
         /\ \/ /\ run'.mutations = run.mutations
               /\ run.phase = "paused" =>
                    /\ run'.sequence = run.sequence
                    /\ run'.phase \in
                         {run.resumable, "stopped", "parkRequested"}
            \/ /\ run.phase # "paused"
               /\ \E i \in DOMAIN previews :
                    /\ previews[i].revision = run.revision
                    /\ previews[i].state = "open"
                    /\ run'.mutations = Append(run.mutations, i)
<1>1. ASSUME NEW cmd \in Commands, Accept(cmd)
      PROVE  cmd.kind \in Interventions \cup {"apply", "approve"}
  BY <1>1, CommandFacts
  DEF Accept, Accepts, Allows, Effect, SaveDraft, AcceptRunDefinition,
      PreviewRunMutation, MayStart, Interventions
<1>2. ASSUME NEW cmd \in Commands, Accept(cmd), cmd.kind \in Interventions
      PROVE  /\ run.phase \notin Ended /\ run'.mutations = run.mutations
             /\ run.phase = "paused" =>
                  /\ run'.sequence = run.sequence
                  /\ run'.phase \in {run.resumable, "stopped", "parkRequested"}
  BY <1>2, InterveneMoves
<1>3. ASSUME NEW cmd \in Commands, Accept(cmd),
             cmd.kind \in {"apply", "approve"}
      PROVE  /\ run.phase \in Active
             /\ \E i \in DOMAIN previews :
                  /\ previews[i].revision = run.revision
                  /\ previews[i].state = "open"
                  /\ run'.mutations = Append(run.mutations, i)
  BY <1>3, ApplyMoves
<1>4. CASE ExecutorAdvances
  BY <1>4, AdvanceMoves
<1>5. ASSUME NEW cmd \in Commands, Accept(cmd)
      PROVE  \/ cmd.kind \in Interventions
             \/ cmd.kind \in {"apply", "approve"}
  BY <1>1, <1>5
<1>6. ExecutorAdvances \/ \E cmd \in Commands : Accept(cmd)
  BY DEF Next, Handle, Replay, Refuse, LeaseMoves, HolderDisconnects,
         HolderReconnects, GraceElapses, PollExpires, PreviewElapses,
         vars, stored
<1> QED BY <1>2, <1>3, <1>4, <1>5, <1>6 DEF Active, Ended

(* What was applied last is a preview of the run as it was, not applied yet. *)
LEMMA AppliedStep ==
  ASSUME Inv, [Next]_vars, run # NoRun, run'.mutations # run.mutations
  PROVE  LET i == run'.mutations[Len(run'.mutations)]
         IN /\ previews[i].revision = run.revision
            /\ \A j \in DOMAIN run.mutations : run.mutations[j] # i
<1>1. PICK i \in DOMAIN previews :
        /\ previews[i].revision = run.revision
        /\ previews[i].state = "open"
        /\ run'.mutations = Append(run.mutations, i)
  BY RunStep
<1>2. run.mutations \in Seq(Nat) /\ i \in Nat
  BY <1>1 DEF Inv, TypeOK, Runs, PreviewsFollowRun
<1>3. run'.mutations[Len(run'.mutations)] = i
  BY <1>1, <1>2, AppendProperties
<1>4. \A j \in DOMAIN run.mutations : run.mutations[j] # i
  BY <1>1 DEF Inv, AppliedAreMarked
<1> QED BY <1>1, <1>3, <1>4

(* Whatever the clients deliver, in any order and however late: only the     *)
(* holder moves the run, an ended run stays ended, a paused run goes on from *)
(* where it was paused, and a mutation applies to the run it was shown for.  *)
THEOREM RunStaysCommanded == Spec => RunMovesAsCommanded
<1>1. Inv /\ [Next]_vars => [run' # run => \A cmd \in receipts' \ receipts :
        lease.holder = cmd.by /\ cmd.lease = lease.revision]_vars
  BY HolderStep
<1>2. Inv /\ [Next]_vars =>
        [run # NoRun /\ run.phase \in Ended => run' = run]_vars
  BY RunStep
<1>3. Inv /\ [Next]_vars =>
        [run # NoRun /\ run.phase = "paused" /\ run' # run =>
           /\ run'.sequence = run.sequence
           /\ run'.mutations = run.mutations
           /\ run'.phase \in {run.resumable, "stopped", "parkRequested"}]_vars
  BY RunStep
<1>4. Inv /\ [Next]_vars =>
        [run # NoRun /\ run'.mutations # run.mutations =>
           LET i == run'.mutations[Len(run'.mutations)]
           IN /\ previews[i].revision = run.revision
              /\ \A j \in DOMAIN run.mutations : run.mutations[j] # i]_vars
  BY AppliedStep
<1>5. Spec => OnlyHolderMovesRun
  BY <1>1, Invariance, PTL DEF Spec, OnlyHolderMovesRun
<1>6. Spec => EndedStaysEnded
  BY <1>2, Invariance, PTL DEF Spec, EndedStaysEnded
<1>7. Spec => PausedRunIsKept
  BY <1>3, Invariance, PTL DEF Spec, PausedRunIsKept
<1>8. Spec => AppliesPreviewedRun
  BY <1>4, Invariance, PTL DEF Spec, AppliesPreviewedRun
<1> QED BY <1>5, <1>6, <1>7, <1>8, PTL DEF RunMovesAsCommanded
=============================================================================
