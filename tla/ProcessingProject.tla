-------------------------- MODULE ProcessingProject --------------------------
(***************************************************************************)
(* Processing Projects: the intents an owner sends to a project             *)
(* (services/processing-project-service.ts, -domain.ts) and the worker that *)
(* claims, materialises and settles its stage attempts                      *)
(* (workers/process-work-worker.ts), with the page of a project in the      *)
(* browser (ProcessWorkspace.tsx, processIntent of workspace-runtime.ts).   *)
(*                                                                          *)
(* Every intent is one synchronous handler around one transaction, and one  *)
(* pass of the worker is synchronous too: no intent is handled inside it,   *)
(* but the process may be lost at any of its steps, and what a transaction  *)
(* or the file system has kept is what the next pass finds.                 *)
(*                                                                          *)
(* An attempt of a project is its index in attempts; its result, output,    *)
(* checkpoint and saved asset have identities derived from the attempt's,   *)
(* so the same index names them.  Zero stands for none.  The revision of a  *)
(* project only ever grows and only ever is compared with the one a client  *)
(* has read: `current' holds the clients whose copy is the stored one.      *)
(***************************************************************************)
EXTENDS Naturals, Sequences, FiniteSets

CONSTANTS
  Projects,          \* projects, numbered in the order they are created
  Clients,           \* control-capable clients of owners
  Assets,            \* retained Library assets, numbered in capture order
  Roles,             \* roles an owner assigns
  SuggestedRole,     \* role suggested by each asset's frame type
  Target,            \* target of each asset, or NoTarget
  NoTarget,
  Requests,          \* identities of create requests
  None,
  Drafts,            \* drafts an owner sends: sets of source choices
  HistoryLimit,      \* undo and redo snapshots kept by a draft
  AdapterOutcomes,   \* what a stage adapter may answer
  TornWrites,        \* whether a lost process may leave a partial file
  MaxAttempts,       \* bound: attempts of a project
  MaxWork,           \* bound: rows of the work queue
  MaxDraftRevision,  \* bound: revisions of a draft
  MaxCrashes         \* bound: losses of the process inside a pass

Stages == {"Calibration", "Registration", "Stacking", "Develop"}
SourceRoles == {"Lights", "Darks", "Unassigned"}
AttemptStates == {"queued", "running", "succeeded", "failed"}

Previews ==
  [revision : 0..MaxDraftRevision, input : 0..MaxAttempts,
   draft : SUBSET Assets]

\* A stage: its draft with the snapshots around it, the Develop preview, and
\* the results with the cursor of the one that is current.
StageStates ==
  [revision : 0..MaxDraftRevision, draft : SUBSET Assets,
   undo : Seq(SUBSET Assets), redo : Seq(SUBSET Assets), preview : Previews,
   history : Seq(1..MaxAttempts), cursor : Nat]

\* An attempt: what it froze, and how far it is.
Attempts ==
  [stage : Stages, state : AttemptStates, revision : 0..MaxDraftRevision,
   draft : SUBSET Assets, upstream : 0..MaxAttempts, preview : Previews,
   retryOf : 0..MaxAttempts]

ProjectRows ==
  [sources : Seq([asset : Assets, role : SourceRoles]),
   stages : [Stages -> StageStates], attempts : Seq(Attempts),
   base : 0..MaxAttempts, saved : Seq(1..MaxAttempts)]

ASSUME ProjectAssumption ==
  /\ Projects \subseteq Nat
  /\ Assets \subseteq Nat /\ IsFiniteSet(Assets)
  /\ Roles \subseteq SourceRoles
  /\ \A a \in Assets : SuggestedRole[a] \in SourceRoles
  /\ Drafts \subseteq SUBSET Assets
  /\ HistoryLimit \in Nat \ {0}
  /\ AdapterOutcomes \subseteq {"sha256", "unverified", "unresolved"}
  /\ TornWrites \in BOOLEAN
  /\ MaxAttempts \in Nat /\ MaxWork \in Nat
  /\ MaxDraftRevision \in Nat
  /\ MaxCrashes \in Nat
  /\ None \notin ProjectRows

VARIABLES
  project,   \* processing_projects
  current,   \* the clients that hold the stored revision of a project
  receipts,  \* processing_project_receipts: the request behind each project
  library,   \* library_assets saved from a project's outputs
  artifact,  \* processing_artifacts: absent, working, saved
  work,      \* processing_work, in order of insertion
  file,      \* what the adapter has on disk for an attempt
  turn,      \* what the worker's pass has done so far
  crashes    \* losses of the process so far

vars == <<project, current, receipts, library, artifact, work, file, turn,
          crashes>>
durable == <<receipts, library, artifact, work, file>>

-----------------------------------------------------------------------------
Outputs == Projects \X (1..MaxAttempts)
Idle == [at |-> "idle", row |-> 0]
NoPreview == [revision |-> 0, input |-> 0, draft |-> {}]

Prior == [s \in Stages |->
  CASE s = "Registration" -> "Calibration"
    [] s = "Stacking" -> "Registration"
    [] s = "Develop" -> "Stacking"
    [] OTHER -> s]

FreshStage ==
  [revision |-> 0, draft |-> {}, undo |-> <<>>, redo |-> <<>>,
   preview |-> NoPreview, history |-> <<>>, cursor |-> 0]

Entries(q) == {q[i] : i \in DOMAIN q}
Last(q) == q[Len(q)]
Front(q) == SubSeq(q, 1, Len(q) - 1)
Without(q, i) == SubSeq(q, 1, i - 1) \o SubSeq(q, i + 1, Len(q))
Recent(q) == SubSeq(q, IF Len(q) > HistoryLimit THEN Len(q) - HistoryLimit + 1
                                                ELSE 1, Len(q))

CurrentOf(stage) == IF stage.cursor = 0 THEN 0 ELSE stage.history[stage.cursor]
CurrentResult(p, s) == CurrentOf(p.stages[s])

\* The Stacking result of the opened master, while its history still has it.
DevelopBase(p) ==
  IF p.base \in Entries(p.stages["Stacking"].history) THEN p.base ELSE 0

UpstreamResult(p, s) ==
  CASE s = "Calibration" -> 0
    [] s = "Develop" -> DevelopBase(p)
    [] OTHER -> CurrentResult(p, Prior[s])

Active(p) == {a \in DOMAIN p.attempts :
                p.attempts[a].state \in {"queued", "running"}}

-----------------------------------------------------------------------------
(* Currency: the newest result made from the current upstream result.       *)

Matches(attempts, stage, upstream) ==
  {i \in DOMAIN stage.history : attempts[stage.history[i]].upstream = upstream}

Rematched(attempts, stage, upstream) ==
  LET found == Matches(attempts, stage, upstream)
  IN [stage EXCEPT !.cursor =
        IF found = {} THEN 0
        ELSE CHOOSE i \in found : \A j \in found : j <= i]

RestoreLineage(p) ==
  LET reg == Rematched(p.attempts, p.stages["Registration"],
                       CurrentResult(p, "Calibration"))
      stack == Rematched(p.attempts, p.stages["Stacking"], CurrentOf(reg))
      base == IF p.base = 0 THEN CurrentOf(stack) ELSE DevelopBase(p)
      dev == Rematched(p.attempts, p.stages["Develop"], base)
      kept == IF dev.cursor = 0 THEN NoPreview ELSE dev.preview
  IN [p EXCEPT !.stages =
        [s \in Stages |->
          CASE s = "Registration" -> reg
            [] s = "Stacking" -> stack
            [] s = "Develop" -> [dev EXCEPT !.preview = kept]
            [] OTHER -> p.stages[s]]]

-----------------------------------------------------------------------------
(* Sources.                                                                 *)

ProjectTarget(sources) ==
  LET named == {i \in DOMAIN sources : /\ sources[i].role = "Lights"
                                       /\ Target[sources[i].asset] # NoTarget}
  IN IF named = {} THEN NoTarget
     ELSE Target[sources[CHOOSE i \in named : \A j \in named : i <= j].asset]

\* A suggested Light of another target than the project's stays unassigned;
\* the first one that names a target sets it when the project has none.
AssignSuggestedRoles(order, existing) ==
  LET suggested == [i \in DOMAIN order |->
                     [asset |-> order[i], role |-> SuggestedRole[order[i]]]]
      target == IF existing # NoTarget THEN existing
                ELSE ProjectTarget(suggested)
      Conflict(i) == /\ suggested[i].role = "Lights"
                     /\ Target[order[i]] \notin {NoTarget, target}
  IN [i \in DOMAIN order |->
       IF Conflict(i) THEN [suggested[i] EXCEPT !.role = "Unassigned"]
                      ELSE suggested[i]]

Selections == {q \in UNION {[1..n -> Assets] : n \in 1..Cardinality(Assets)} :
                 \A i, j \in DOMAIN q : i < j => q[i] < q[j]}

SourceAssets(p) == {p.sources[i].asset : i \in DOMAIN p.sources}
Lights(p) == {p.sources[i].asset : i \in {j \in DOMAIN p.sources :
                                             p.sources[j].role = "Lights"}}

-----------------------------------------------------------------------------
Init ==
  /\ project = [p \in Projects |-> None]
  /\ current = {}
  /\ receipts = {}
  /\ library = {}
  /\ artifact = [o \in Outputs |-> "absent"]
  /\ work = <<>>
  /\ file = [o \in Outputs |-> "absent"]
  /\ turn = Idle
  /\ crashes = 0

Create(c, r, p, selection) ==
  /\ turn = Idle
  /\ \A row \in receipts : row.request # r
  /\ project[p] = None
  /\ \A o \in Projects : o < p => project[o] # None
  /\ project' = [project EXCEPT ![p] =
       [sources |-> AssignSuggestedRoles(selection, NoTarget),
        stages |-> [s \in Stages |-> FreshStage],
        attempts |-> <<>>, base |-> 0, saved |-> <<>>]]
  /\ current' = current \cup {<<c, p>>}
  /\ receipts' = receipts \cup {[request |-> r, project |-> p]}
  /\ UNCHANGED <<library, artifact, work, file, turn, crashes>>

\* Reading the project again, after a notice or a conflict.
Reload(c, p) ==
  /\ turn = Idle
  /\ project[p] # None
  /\ current' = current \cup {<<c, p>>}
  /\ UNCHANGED <<project, durable, turn, crashes>>

\* change: the guards all intents share.
Changeable(c, p) ==
  /\ turn = Idle
  /\ project[p] # None
  /\ <<c, p>> \in current
  /\ Active(project[p]) = {}

\* A new revision: the other clients' copies are stale, the caller's answer
\* carries the new one.
Revise(c, p, new) ==
  /\ project' = [project EXCEPT ![p] = new]
  /\ current' = (current \ (Clients \X {p})) \cup {<<c, p>>}

\* What is selected and not a source yet comes behind the sources, in capture
\* order; all of it may be known.
AddSources(c, p, fresh) ==
  LET q == project[p]
      added == AssignSuggestedRoles(fresh, ProjectTarget(q.sources))
  IN /\ Changeable(c, p)
     /\ Entries(fresh) \cap SourceAssets(q) = {}
     /\ Entries(fresh) \cup SourceAssets(q) # {}
     /\ Revise(c, p, [q EXCEPT !.sources = @ \o added])
     /\ UNCHANGED <<durable, turn, crashes>>

RemoveSource(c, p, asset) ==
  /\ Changeable(c, p)
  /\ \E i \in DOMAIN project[p].sources :
       /\ project[p].sources[i].asset = asset
       /\ Revise(c, p, [project[p] EXCEPT !.sources = Without(@, i)])
  /\ UNCHANGED <<durable, turn, crashes>>

AssignSourceRole(c, p, asset, role) ==
  LET q == project[p]
      target == ProjectTarget(q.sources)
  IN /\ Changeable(c, p)
     /\ asset \in SourceAssets(q)
     /\ ~ /\ role = "Lights"
          /\ target # NoTarget
          /\ Target[asset] \notin {NoTarget, target}
     /\ Revise(c, p, [q EXCEPT !.sources = [i \in DOMAIN @ |->
          IF @[i].asset = asset THEN [@[i] EXCEPT !.role = role] ELSE @[i]]])
     /\ UNCHANGED <<durable, turn, crashes>>

-----------------------------------------------------------------------------
(* Drafts and the Develop preview.                                          *)

\* Mutant: a draft is edited in place, under its revision and its preview.
RedraftInPlace(c, p, s, draft, undo, redo) ==
  /\ Changeable(c, p)
  /\ Revise(c, p, [project[p] EXCEPT
       !.stages[s].draft = draft, !.stages[s].undo = undo,
       !.stages[s].redo = redo])
  /\ UNCHANGED <<durable, turn, crashes>>

MayRedraft(c, p, s) ==
  Changeable(c, p) /\ project[p].stages[s].revision < MaxDraftRevision

\* Replacing, undoing or redoing a draft starts a new revision of it and,
\* for Develop, drops the preview made from the old one.
Redraft(c, p, s, draft, undo, redo) ==
  LET stage == project[p].stages[s]
  IN /\ MayRedraft(c, p, s)
     /\ Revise(c, p, [project[p] EXCEPT !.stages[s] =
          [revision |-> stage.revision + 1, draft |-> draft,
           undo |-> undo, redo |-> redo, preview |-> NoPreview,
           history |-> stage.history, cursor |-> stage.cursor]])
     /\ UNCHANGED <<durable, turn, crashes>>

ReplaceDraft(c, p, s, draft) ==
  LET stage == project[p].stages[s]
  IN Redraft(c, p, s, draft, Recent(Append(stage.undo, stage.draft)), <<>>)

UndoDraft(c, p, s) ==
  LET stage == project[p].stages[s]
  IN /\ project[p] # None
     /\ stage.undo # <<>>
     /\ Redraft(c, p, s, Last(stage.undo), Front(stage.undo),
                Recent(Append(stage.redo, stage.draft)))

RedoDraft(c, p, s) ==
  LET stage == project[p].stages[s]
  IN /\ project[p] # None
     /\ stage.redo # <<>>
     /\ Redraft(c, p, s, Last(stage.redo),
                Recent(Append(stage.undo, stage.draft)), Front(stage.redo))

MayPreview(c, p) == Changeable(c, p) /\ DevelopBase(project[p]) # 0

SyncDevelopPreview(c, p) ==
  LET stage == project[p].stages["Develop"]
  IN /\ MayPreview(c, p)
     /\ Revise(c, p, [project[p] EXCEPT !.stages["Develop"] =
          [stage EXCEPT !.preview = [revision |-> stage.revision,
                                     input |-> DevelopBase(project[p]),
                                     draft |-> stage.draft]]])
     /\ UNCHANGED <<durable, turn, crashes>>

-----------------------------------------------------------------------------
(* Attempts.                                                                *)

\* A master of this project's output is in the Library.
Saved(p, a) == <<p, a>> \in library

RunAvailable(p, s) ==
  LET q == project[p]
      upstream == UpstreamResult(q, s)
      preview == q.stages[s].preview
  IN /\ Active(q) = {}
     /\ s = "Calibration" => Lights(q) # {}
     /\ s # "Calibration" => upstream # 0
     /\ s = "Develop" => /\ Saved(p, upstream)
                         /\ preview # NoPreview
                         /\ preview.revision = q.stages[s].revision
                         /\ preview.input = upstream

\* The model's own limits on attempts.
Room(p) == Len(project[p].attempts) < MaxAttempts /\ Len(work) < MaxWork

\* Accepting a run freezes its inputs in a queued attempt (the copies of the
\* sources are left out) and enqueues its work row in the same transaction.
Enqueue(c, p, s, frozen) ==
  /\ Room(p)
  /\ Revise(c, p, [project[p] EXCEPT !.attempts =
       Append(@, [frozen EXCEPT !.state = "queued"])])
  /\ work' = Append(work,
       [project |-> p, attempt |-> Len(project[p].attempts) + 1,
        state |-> "pending"])
  /\ UNCHANGED <<receipts, library, artifact, file, turn, crashes>>

MayRun(c, p, s) == Changeable(c, p) /\ RunAvailable(p, s)

RunStage(c, p, s) ==
  LET q == project[p]
  IN /\ MayRun(c, p, s)
     /\ Enqueue(c, p, s,
          [stage |-> s, state |-> "queued", revision |-> q.stages[s].revision,
           draft |-> q.stages[s].draft, upstream |-> UpstreamResult(q, s),
           preview |-> q.stages[s].preview, retryOf |-> 0])

\* Mutant: a retry queues the failed attempt itself again.
RequeueFailed(c, p, a) ==
  /\ Changeable(c, p)
  /\ a \in DOMAIN project[p].attempts
  /\ project[p].attempts[a].state = "failed"
  /\ Revise(c, p, [project[p] EXCEPT !.attempts[a].state = "queued"])
  /\ UNCHANGED <<durable, turn, crashes>>

\* A retry takes every frozen input from the failed attempt, whatever the
\* project has become since.
RetryStage(c, p, a) ==
  LET q == project[p]
  IN /\ Changeable(c, p)
     /\ a \in DOMAIN q.attempts
     /\ q.attempts[a].state = "failed"
     /\ Enqueue(c, p, q.attempts[a].stage, [q.attempts[a] EXCEPT !.retryOf = a])

MayOpen(c, p, a) ==
  LET q == project[p]
  IN /\ Changeable(c, p)
     /\ a \in Entries(q.saved)
     /\ Saved(p, a)
     /\ q.attempts[a].stage = "Stacking"
     /\ a \in Entries(q.stages["Stacking"].history)

OpenDevelop(c, p, a) ==
  LET q == project[p]
  IN /\ MayOpen(c, p, a)
     /\ Revise(c, p, RestoreLineage([q EXCEPT !.base = a,
          !.stages["Develop"] = [@ EXCEPT !.preview = NoPreview]]))
     /\ UNCHANGED <<durable, turn, crashes>>

MayMove(c, p, s, cursor) ==
  Changeable(c, p) /\ cursor <= Len(project[p].stages[s].history)

MoveCurrentResult(c, p, s, cursor) ==
  LET q == project[p]
  IN /\ MayMove(c, p, s, cursor)
     /\ Revise(c, p, RestoreLineage(
          [q EXCEPT !.stages[s] = [@ EXCEPT !.cursor = cursor]]))
     /\ UNCHANGED <<durable, turn, crashes>>

UndoCurrentResult(c, p, s) ==
  /\ project[p] # None
  /\ project[p].stages[s].cursor > 0
  /\ MoveCurrentResult(c, p, s, project[p].stages[s].cursor - 1)

RedoCurrentResult(c, p, s) ==
  /\ project[p] # None
  /\ MoveCurrentResult(c, p, s, project[p].stages[s].cursor + 1)

MaySave(c, p, s) ==
  /\ Changeable(c, p)
  /\ s \in {"Stacking", "Develop"}
  /\ CurrentResult(project[p], s) # 0

SaveCurrentResult(c, p, s) ==
  LET q == project[p]
      a == CurrentResult(q, s)
      new == [q EXCEPT !.saved = Append(@, a)]
  IN /\ MaySave(c, p, s)
     /\ IF a \in Entries(q.saved) THEN UNCHANGED <<project, current>>
                         ELSE Revise(c, p, new)
     /\ IF Saved(p, a)
        THEN UNCHANGED <<library, artifact>>
        ELSE /\ library' = library \cup {<<p, a>>}
             /\ artifact' = [artifact EXCEPT ![<<p, a>>] =
                               IF @ = "absent" THEN @ ELSE "saved"]
     /\ UNCHANGED <<receipts, work, file, turn, crashes>>

-----------------------------------------------------------------------------
(* The worker: one pass takes the oldest unsettled row.                     *)

Unsettled == {i \in DOMAIN work : work[i].state \in {"pending", "claimed"}}
Oldest(i) == i \in Unsettled /\ \A j \in Unsettled : i <= j
OutputOf(row) == <<row.project, row.attempt>>
WorkerRevises(p, new) ==
  /\ project' = [project EXCEPT ![p] = new]
  /\ current' = current \ (Clients \X {p})

\* Mutant: the row is claimed, but the attempt is left queued.
ClaimRowOnly(i) ==
  /\ turn = Idle
  /\ Oldest(i)
  /\ work[i].state = "pending"
  /\ work' = [work EXCEPT ![i].state = "claimed"]
  /\ turn' = [at |-> "claimed", row |-> i]
  /\ UNCHANGED <<project, current, receipts, library, artifact, file, crashes>>

\* claim: the attempt runs from here on, whether or not this process lives.
Claim(i) ==
  LET row == work[i]
  IN /\ turn = Idle
     /\ Oldest(i)
     /\ row.state = "pending"
     /\ project[row.project].attempts[row.attempt].state = "queued"
     /\ work' = [work EXCEPT ![i].state = "claimed"]
     /\ WorkerRevises(row.project,
          [project[row.project] EXCEPT
             !.attempts[row.attempt].state = "running"])
     /\ turn' = [at |-> "claimed", row |-> i]
     /\ UNCHANGED <<receipts, library, artifact, file, crashes>>

\* Mutant: a claimed row is left to the pass that claimed it.
TakeUpOwnClaim(i) ==
  /\ turn = [at |-> "claimed", row |-> i]
  /\ work[i].state = "claimed"
  /\ UNCHANGED vars

\* A row claimed by a pass that never settled it is taken up as it stands.
TakeUpClaim(i) ==
  /\ turn = Idle
  /\ Oldest(i)
  /\ work[i].state = "claimed"
  /\ turn' = [at |-> "claimed", row |-> i]
  /\ UNCHANGED <<project, current, durable, crashes>>

\* materializeEvidence: write the temporary file, then rename it.
WriteTemporary ==
  LET o == OutputOf(work[turn.row])
  IN /\ turn.at = "claimed"
     /\ file[o] = "absent"
     /\ file' = [file EXCEPT ![o] = "temporary"]
     /\ UNCHANGED <<project, current, receipts, library, artifact, work, turn,
                    crashes>>

Rename ==
  LET o == OutputOf(work[turn.row])
  IN /\ turn.at = "claimed"
     /\ file[o] = "temporary"
     /\ file' = [file EXCEPT ![o] = "final"]
     /\ UNCHANGED <<project, current, receipts, library, artifact, work, turn,
                    crashes>>

\* No evidence: the adapter gives none, or a file on disk has other bytes.
LeaveUnresolved ==
  /\ turn.at = "claimed"
  /\ \/ file[OutputOf(work[turn.row])] = "torn"
     \/ "unresolved" \in AdapterOutcomes
  /\ turn' = Idle
  /\ UNCHANGED <<project, current, durable, crashes>>

WithResult(p, a, s) ==
  LET stage == p.stages[s]
  IN [p EXCEPT !.stages[s] =
        [stage EXCEPT !.history = Append(SubSeq(@, 1, stage.cursor), a),
                      !.cursor = @ + 1]]

\* Mutant: a settlement leaves the downstream cursors where they were.
SettleKeepsCursors(outcome) ==
  LET i == turn.row
      row == work[i]
      q == [project[row.project] EXCEPT
              !.attempts[row.attempt].state = "succeeded"]
  IN /\ turn.at = "claimed"
     /\ file[OutputOf(row)] = "final"
     /\ WorkerRevises(row.project,
          WithResult(q, row.attempt, q.attempts[row.attempt].stage))
     /\ work' = [work EXCEPT ![i].state = "settled"]
     /\ artifact' = [artifact EXCEPT ![OutputOf(row)] = "working"]
     /\ turn' = Idle
     /\ UNCHANGED <<receipts, library, file, crashes>>

Settle(outcome) ==
  LET i == turn.row
      row == work[i]
      q == project[row.project]
      s == q.attempts[row.attempt].stage
      ended == [q EXCEPT !.attempts[row.attempt].state =
                  IF outcome = "sha256" THEN "succeeded" ELSE "failed"]
  IN /\ turn.at = "claimed"
     /\ file[OutputOf(row)] = "final"
     /\ outcome \in AdapterOutcomes \cap {"sha256", "unverified"}
     /\ q.attempts[row.attempt].state = "running"
     /\ WorkerRevises(row.project, RestoreLineage(
          IF outcome = "sha256" THEN WithResult(ended, row.attempt, s)
                                ELSE ended))
     /\ work' = [work EXCEPT ![i].state =
                   IF outcome = "sha256" THEN "settled" ELSE "failed"]
     /\ artifact' = [artifact EXCEPT ![OutputOf(row)] = "working"]
     /\ turn' = Idle
     /\ UNCHANGED <<receipts, library, file, crashes>>

\* The process is lost inside a pass, at worst inside the write itself.
Crash ==
  /\ turn # Idle
  /\ crashes < MaxCrashes
  /\ crashes' = crashes + 1
  /\ turn' = Idle
  /\ \/ UNCHANGED file
     \/ /\ TornWrites
        /\ file[OutputOf(work[turn.row])] = "absent"
        /\ file' = [file EXCEPT ![OutputOf(work[turn.row])] = "torn"]
  /\ UNCHANGED <<project, current, receipts, library, artifact, work>>

-----------------------------------------------------------------------------
(* The page of an opened project: what the service shows of it, which       *)
(* buttons the page enables for that, and the intent each of them sends.     *)

Savable == {"Stacking", "Develop"}

\* stageView of one stage.
StageView(p, s) ==
  LET q == project[p]
      stage == q.stages[s]
  IN [run |-> RunAvailable(p, s),
      canUndo |-> stage.undo # <<>>,
      canRedo |-> stage.redo # <<>>,
      result |-> CurrentOf(stage),
      canUndoResult |-> stage.cursor > 0,
      canRedoResult |-> stage.cursor < Len(stage.history)]

\* The master a page opens: the last saved asset that the evidence of the
\* attempts, once every page of it was read, names as a Stacking master.
LatestSavedMaster(q) ==
  LET masters == {i \in DOMAIN q.saved :
                    q.attempts[q.saved[i]].stage = "Stacking"}
  IN IF masters = {} THEN 0
     ELSE q.saved[CHOOSE i \in masters : \A j \in masters : j <= i]

\* Mutant: the page does not look at the active attempt.
ButtonsWhileActive(p) ==
  {button \in {"undoDraft", "run"} \X Stages :
     button[1] = "undoDraft" => StageView(p, button[2]).canUndo}

\* The enabled buttons of the page of an owner's desktop.
Buttons(p) ==
  {button \in {"replace", "preview", "run", "undoDraft", "redoDraft",
               "undoResult", "redoResult", "save", "open"} \X Stages :
    LET kind == button[1]
        s == button[2]
        view == StageView(p, s)
    IN /\ Active(project[p]) = {}
       /\ kind \in {"replace", "preview"} => s = "Develop"
       /\ kind = "preview" => project[p].base # 0
       /\ kind = "run" => view.run
       /\ kind = "undoDraft" => view.canUndo
       /\ kind = "redoDraft" => view.canRedo
       /\ kind = "undoResult" => view.canUndoResult
       /\ kind = "redoResult" => view.canRedoResult
       /\ kind = "save" => s \in Savable /\ view.result # 0
       /\ kind = "open" => s = "Stacking" /\ LatestSavedMaster(project[p]) # 0}

\* What a click sends is accepted: the guards of the intent, with what the
\* page shows.
Accepted(c, p, button) ==
  LET s == button[2]
      stage == project[p].stages[s]
  IN CASE button[1] = "replace" -> Drafts # {} /\ MayRedraft(c, p, s)
       [] button[1] = "preview" -> MayPreview(c, p)
       [] button[1] = "run" -> MayRun(c, p, s) /\ Room(p)
       [] button[1] = "undoDraft" -> stage.undo # <<>> /\ MayRedraft(c, p, s)
       [] button[1] = "redoDraft" -> stage.redo # <<>> /\ MayRedraft(c, p, s)
       [] button[1] = "undoResult" ->
            stage.cursor > 0 /\ MayMove(c, p, s, stage.cursor - 1)
       [] button[1] = "redoResult" -> MayMove(c, p, s, stage.cursor + 1)
       [] button[1] = "save" -> MaySave(c, p, s)
       [] button[1] = "open" -> MayOpen(c, p, LatestSavedMaster(project[p]))

-----------------------------------------------------------------------------
Intent(c, p) ==
  \/ \E a \in Assets : RemoveSource(c, p, a)
  \/ \E a \in Assets, role \in Roles : AssignSourceRole(c, p, a, role)
  \/ \E fresh \in Selections \cup {<<>>} : AddSources(c, p, fresh)
  \/ \E s \in Stages, d \in Drafts : ReplaceDraft(c, p, s, d)
  \/ \E s \in Stages : UndoDraft(c, p, s) \/ RedoDraft(c, p, s)
  \/ SyncDevelopPreview(c, p)
  \/ \E s \in Stages : RunStage(c, p, s)
  \/ \E a \in 1..MaxAttempts : RetryStage(c, p, a) \/ OpenDevelop(c, p, a)
  \/ \E s \in Stages : UndoCurrentResult(c, p, s) \/ RedoCurrentResult(c, p, s)
  \/ \E s \in Stages : SaveCurrentResult(c, p, s)

WorkerStep ==
  \/ \E i \in DOMAIN work : Claim(i) \/ TakeUpClaim(i)
  \/ WriteTemporary
  \/ Rename
  \/ LeaveUnresolved
  \/ \E outcome \in AdapterOutcomes : Settle(outcome)

Next ==
  \/ \E c \in Clients, p \in Projects :
       \/ \E r \in Requests, sel \in Selections : Create(c, r, p, sel)
       \/ Reload(c, p)
       \/ Intent(c, p)
  \/ WorkerStep
  \/ Crash

Spec == Init /\ [][Next]_vars

\* Passes follow one another every 250 ms, and every pass ends.
Fairness ==
  /\ WF_vars(\E i \in DOMAIN work : Claim(i) \/ TakeUpClaim(i))
  /\ WF_vars(WriteTemporary)
  /\ WF_vars(Rename)
  /\ WF_vars(\E outcome \in AdapterOutcomes : Settle(outcome))
  /\ WF_vars(LeaveUnresolved)

FairSpec == Spec /\ Fairness

-----------------------------------------------------------------------------
Existing == {p \in Projects : project[p] # None}

\* The state has its shape: a source is listed once, cursors stay in their
\* histories, and draft histories within their limit (ProcessingStageState).
TypeOK ==
  /\ project \in [Projects -> ProjectRows \cup {None}]
  /\ \A p \in Existing :
       /\ Len(project[p].attempts) <= MaxAttempts
       /\ \A i, j \in DOMAIN project[p].sources :
            project[p].sources[i].asset = project[p].sources[j].asset => i = j
       /\ \A s \in Stages : LET stage == project[p].stages[s] IN
            /\ stage.cursor <= Len(stage.history)
            /\ Len(stage.undo) <= HistoryLimit
            /\ Len(stage.redo) <= HistoryLimit
  /\ current \subseteq Clients \X Projects
  /\ receipts \subseteq [request : Requests, project : Projects]
  /\ library \subseteq Outputs
  /\ artifact \in [Outputs -> {"absent", "working", "saved"}]
  /\ file \in [Outputs -> {"absent", "temporary", "final", "torn"}]
  /\ turn.at \in {"idle", "claimed"}

RowState == [queued |-> "pending", running |-> "claimed",
             succeeded |-> "settled", failed |-> "failed"]

\* Claim, settlement and the losses of the process between them leave every
\* attempt with exactly one work row, and the row and the attempt agree.
RowsMatchAttempts ==
  \A p \in Existing : \A a \in DOMAIN project[p].attempts :
    \E i \in DOMAIN work :
      /\ work[i] = [project |-> p, attempt |-> a,
                    state |-> RowState[project[p].attempts[a].state]]
      /\ \A j \in DOMAIN work \ {i} : OutputOf(work[j]) # <<p, a>>

\* A project has one active attempt at most, over every order of intents,
\* passes and crashes (the filter of ProcessingProject).
OneActiveAttempt ==
  \A p \in Existing : \A a, b \in Active(project[p]) : a = b

\* CONTEXT.md, Current Result: its currency is derived from exact upstream
\* lineage.  Whatever was run, retried, undone, redone or opened, a current
\* result was made from the result that is now current upstream.
CurrentLineage ==
  \A p \in Existing : \A s \in Stages \ {"Calibration"} :
    LET q == project[p] IN
      CurrentResult(q, s) # 0 =>
        q.attempts[CurrentResult(q, s)].upstream = UpstreamResult(q, s)

\* Result histories hold succeeded attempts of their own stage, each once:
\* a failed or interrupted attempt never becomes a result.
HistoriesHoldResults ==
  \A p \in Existing : \A s \in Stages :
    LET q == project[p]
        history == q.stages[s].history
    IN /\ \A i \in DOMAIN history :
            /\ history[i] \in DOMAIN q.attempts
            /\ q.attempts[history[i]].stage = s
            /\ q.attempts[history[i]].state = "succeeded"
       /\ \A i, j \in DOMAIN history : history[i] = history[j] => i = j

\* The Lights of a project share one target, however sources were added,
\* removed and assigned, and whichever of them set the target.
LightsShareTarget ==
  \A p \in Existing : \A a, b \in Lights(project[p]) :
    NoTarget \notin {Target[a], Target[b]} => Target[a] = Target[b]

\* An applied Develop attempt runs the operation whose preview the owner
\* synchronised, on the master that preview was made from.
AppliesWhatWasPreviewed ==
  \A p \in Existing : \A a \in DOMAIN project[p].attempts :
    LET attempt == project[p].attempts[a] IN
      attempt.stage = "Develop" =>
        /\ attempt.preview.draft = attempt.draft
        /\ attempt.preview.input = attempt.upstream

\* Develop works on saved masters only, and what the Library lists has its
\* artifact marked and its bytes complete on disk.
SavedResultsAreWhole ==
  /\ \A o \in library : artifact[o] = "saved" /\ file[o] = "final"
  /\ \A p \in Existing : \A a \in DOMAIN project[p].attempts :
       project[p].attempts[a].stage = "Develop" =>
         <<p, project[p].attempts[a].upstream>> \in library

\* CONTEXT.md, Processing Attempt: what an attempt froze never changes, and
\* after settlement nothing of it does.
AttemptsAreImmutable ==
  [][\A p \in Existing : \A a \in DOMAIN project[p].attempts :
       LET before == project[p].attempts[a]
           after == project'[p].attempts[a]
       IN /\ after = [before EXCEPT !.state = after.state]
          /\ before.state \in {"succeeded", "failed"} => after = before]_vars

\* A create request carries no revision: its receipt alone keeps a repeated
\* delivery from opening a second project.
OneProjectPerRequest ==
  \A p \in Existing :
    \E row \in receipts : row.project = p /\
      \A other \in receipts \ {row} :
        other.project # p /\ other.request # row.request

\* A write that the loss of the process tore is refused by every later pass
\* (materializeEvidence), which takes up the oldest row again and again.
QueueIsStuck ==
  \E i \in DOMAIN work : Oldest(i) /\ file[OutputOf(work[i])] = "torn"

\* Every accepted attempt settles, behind however many rows of other projects
\* and after whatever passes the loss of the process cut short, unless one of
\* them tore the temporary file of the attempt that is next.
AttemptsSettle ==
  \A o \in Outputs :
    (\E i \in DOMAIN work : OutputOf(work[i]) = o) ~>
      \/ \E i \in DOMAIN work : /\ OutputOf(work[i]) = o
                                /\ work[i].state \in {"settled", "failed"}
      \/ QueueIsStuck

\* The rows of the work agree with the attempts, of which one at most is
\* active, and a repeated request finds its project (insertAttempt, claim,
\* settle, create).
WorkIsSound ==
  TypeOK /\ RowsMatchAttempts /\ OneActiveAttempt /\ OneProjectPerRequest

\* What a stage shows as current descends from what the stages before it show,
\* is a whole result of its history, and its sources are of one target
\* (restoreLineage, saveCurrentResult, assignSourceRole).
LineageIsSound ==
  /\ CurrentLineage /\ HistoriesHoldResults
  /\ SavedResultsAreWhole /\ LightsShareTarget

\* The model's own limits, behind which nothing more is accepted.
WithinBounds(p, button) ==
  /\ button[1] = "run" => Room(p)
  /\ button[1] \in {"replace", "undoDraft", "redoDraft"} =>
       project[p].stages[button[2]].revision < MaxDraftRevision
  /\ button[1] = "replace" => Drafts # {}

\* The history of Stacking dropped the master: an undone result that a later
\* run replaced can neither be opened again nor be previewed on, and the
\* page has no way to know.
MasterDropped(p, button) ==
  LET q == project[p]
      history == Entries(q.stages["Stacking"].history)
  IN \/ button[1] = "preview" /\ q.base \notin history
     \/ button[1] = "open" /\ LatestSavedMaster(q) \notin history

\* What a click on undo or redo of a result leaves: the cursor it asks for, as
\* restoreLineage then derives it again.
Restored(p, s, cursor) ==
  RestoreLineage([project[p] EXCEPT !.stages[s] = [@ EXCEPT !.cursor = cursor]])

MovesResult(p, button) ==
  LET s == button[2]
      cursor == project[p].stages[s].cursor
      asked == IF button[1] = "undoResult" THEN cursor - 1 ELSE cursor + 1
  IN Restored(p, s, asked).stages[s].cursor # cursor

\* Every button of a page that shows the project as it is sends an intent
\* that the service accepts, except the two on a dropped master, and an
\* accepted undo or redo of a result moves it at Calibration alone: at every
\* later stage the newest result of what is current before it is current
\* again at once, and the click does nothing (stageView, StageControls,
\* processIntent, restoreLineage).
OfferedIsAccepted ==
  turn = Idle =>
    \A c \in Clients, p \in Existing :
      <<c, p>> \in current =>
        \A button \in Buttons(p) :
          WithinBounds(p, button) =>
            /\ Accepted(c, p, button) <=> ~MasterDropped(p, button)
            /\ button[1] \in {"undoResult", "redoResult"} =>
                 (MovesResult(p, button) <=> button[2] = "Calibration")
=============================================================================
