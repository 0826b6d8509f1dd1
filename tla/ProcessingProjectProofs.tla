----------------------- MODULE ProcessingProjectProofs -----------------------
(***************************************************************************)
(* Theorems of ProcessingProject for any projects, clients, assets, drafts, *)
(* adapter outcomes, histories, bounds and losses of the process.           *)
(*                                                                          *)
(* The inductive invariant says what a project is by itself (Whole), how    *)
(* the work queue and the pass in progress relate to the attempts (WorkOK,  *)
(* TurnOK), what the disk, the artifacts and the Library hold of them       *)
(* (KeptOK), and which request made which project (ReceiptsOK).  What the   *)
(* page offers needs one thing more: the Library lists what a project saved *)
(* (Listed).                                                                *)
(***************************************************************************)
EXTENDS ProcessingProject, SequenceTheorems, FiniteSetTheorems,
        WellFoundedInduction, TLAPS

-----------------------------------------------------------------------------
(* What a project is by itself.                                             *)

\* Its shape.
Shaped(q) ==
  /\ q \in ProjectRows
  /\ Len(q.attempts) <= MaxAttempts
  /\ \A i, j \in DOMAIN q.sources :
       q.sources[i].asset = q.sources[j].asset => i = j

\* A stage stays in its histories; a preview is of the draft as it is.
StageFits(stage) ==
  /\ stage.cursor <= Len(stage.history)
  /\ Len(stage.undo) <= HistoryLimit
  /\ Len(stage.redo) <= HistoryLimit
  /\ stage.preview # NoPreview =>
       stage.preview.revision = stage.revision /\
       stage.preview.draft = stage.draft

\* The history of stage s holds succeeded attempts of it, each once.
HistoryHolds(q, s) ==
  LET history == q.stages[s].history
  IN /\ \A i \in DOMAIN history :
          /\ history[i] \in DOMAIN q.attempts
          /\ q.attempts[history[i]].stage = s
          /\ q.attempts[history[i]].state = "succeeded"
     /\ \A i, j \in DOMAIN history : history[i] = history[j] => i = j

\* No result of stage s that was made from its upstream result is newer than
\* the current one, and where there is one, one is current.
Newest(q, s) ==
  \A i \in DOMAIN q.stages[s].history :
    q.attempts[q.stages[s].history[i]].upstream = UpstreamResult(q, s)
      => i <= q.stages[s].cursor

Descends(q, s) ==
  /\ CurrentResult(q, s) # 0 =>
       q.attempts[CurrentResult(q, s)].upstream = UpstreamResult(q, s)
  /\ Newest(q, s)

\* Develop is run for an opened master only, as it was previewed.
DevelopFits(q) ==
  \A a \in DOMAIN q.attempts :
    q.attempts[a].stage = "Develop" =>
      /\ q.base # 0
      /\ q.attempts[a].preview.draft = q.attempts[a].draft
      /\ q.attempts[a].preview.input = q.attempts[a].upstream

LightsAgree(q) ==
  \A a, b \in Lights(q) :
    NoTarget \notin {Target[a], Target[b]} => Target[a] = Target[b]

OneActive(q) == \A a, b \in Active(q) : a = b

\* All of it but currency, which restoreLineage establishes again.
Lawful(q) ==
  /\ Shaped(q) /\ OneActive(q) /\ DevelopFits(q) /\ LightsAgree(q)
  /\ \A s \in Stages : StageFits(q.stages[s]) /\ HistoryHolds(q, s)

Whole(q) ==
  Lawful(q) /\ \A s \in Stages \ {"Calibration"} : Descends(q, s)

-----------------------------------------------------------------------------
(* How the projects, the work, the files and the Library relate.            *)

AttemptOf(row) == project[row.project].attempts[row.attempt]

WorkRows ==
  [project : Projects, attempt : 1..MaxAttempts,
   state : {"pending", "claimed", "settled", "failed"}]

\* Every row is of an attempt and in its state; every attempt has one row.
WorkOK ==
  /\ work \in Seq(WorkRows)
  /\ \A i \in DOMAIN work :
       /\ work[i].project \in Existing
       /\ work[i].attempt \in DOMAIN project[work[i].project].attempts
       /\ work[i].state = RowState[AttemptOf(work[i]).state]
  /\ \A i, j \in DOMAIN work : OutputOf(work[i]) = OutputOf(work[j]) => i = j
  /\ \A p \in Existing : \A a \in DOMAIN project[p].attempts :
       \E i \in DOMAIN work : OutputOf(work[i]) = <<p, a>>

\* A pass in progress has a claimed row.
TurnOK ==
  \/ turn = Idle
  \/ /\ turn.at = "claimed"
     /\ turn.row \in DOMAIN work
     /\ work[turn.row].state = "claimed"

\* A succeeded attempt has its bytes and its artifact, a listed one its mark.
KeptOK ==
  /\ artifact \in [Outputs -> {"absent", "working", "saved"}]
  /\ file \in [Outputs -> {"absent", "temporary", "final", "torn"}]
  /\ \A p \in Existing : \A a \in DOMAIN project[p].attempts :
       /\ project[p].attempts[a].state = "succeeded" =>
            file[<<p, a>>] = "final" /\ artifact[<<p, a>>] # "absent"
       /\ project[p].attempts[a].stage = "Develop" =>
            <<p, project[p].attempts[a].upstream>> \in library
  /\ \A o \in library :
       /\ o \in Outputs /\ o[1] \in Existing
       /\ o[2] \in DOMAIN project[o[1]].attempts
       /\ project[o[1]].attempts[o[2]].state = "succeeded"
       /\ artifact[o] = "saved"

ReceiptsOK ==
  /\ receipts \subseteq [request : Requests, project : Projects]
  /\ \A row \in receipts : row.project \in Existing
  /\ \A p \in Existing : \E row \in receipts : row.project = p
  /\ \A row, other \in receipts :
       row.project = other.project \/ row.request = other.request =>
         row = other

ProjectsOK ==
  /\ project \in [Projects -> ProjectRows \cup {None}]
  /\ current \subseteq Clients \X Projects
  /\ \A p \in Existing : Whole(project[p])

Inv == ProjectsOK /\ WorkOK /\ TurnOK /\ KeptOK /\ ReceiptsOK

-----------------------------------------------------------------------------
(* Numbers and sequences.                                                   *)

LEMMA LeastNumber ==
  ASSUME NEW T \in SUBSET Nat, T # {}
  PROVE  \E i \in T : \A j \in T : i <= j
<1> DEFINE R == {pair \in Nat \X Nat : pair[1] < pair[2]}
<1>1. IsWellFoundedOn(R, Nat)
  BY NatLessThanWellFounded DEF OpToRel
<1> HIDE DEF R
<1>2. PICK i \in T : \A j \in T : ~(<<j, i>> \in R)
  BY <1>1, WFMin
<1>3. \A j \in T : ~(j < i)
  BY <1>2 DEF R
<1> QED BY <1>3

LEMMA GreatestNumber ==
  ASSUME NEW n \in Nat, NEW T \in SUBSET (1..n), T # {}
  PROVE  \E i \in T : \A j \in T : j <= i
<1> DEFINE U == {n - i : i \in T}
<1>1. U \in SUBSET Nat /\ U # {}
  <2>1. \A i \in T : n - i \in Nat
    OBVIOUS
  <2> QED BY <2>1
<1>2. PICK u \in U : \A v \in U : u <= v
  BY <1>1, LeastNumber
<1>3. PICK i \in T : u = n - i
  BY <1>2
<1>4. \A j \in T : n - i <= n - j
  BY <1>2, <1>3
<1> QED BY <1>4

LEMMA Bounds ==
  /\ HistoryLimit \in Nat \ {0} /\ MaxAttempts \in Nat
  /\ MaxDraftRevision \in Nat
BY ProjectAssumption

LEMMA PartOf ==
  ASSUME NEW S, NEW q \in Seq(S), NEW m \in Nat \ {0}, NEW n \in Nat,
         n <= Len(q)
  PROVE  /\ SubSeq(q, m, n) \in Seq(S)
         /\ Len(SubSeq(q, m, n)) = IF m <= n THEN n - m + 1 ELSE 0
         /\ \A i \in 1..(n - m + 1) : SubSeq(q, m, n)[i] = q[m + i - 1]
<1>1. \A i \in m..n : q[i] \in S
  <2>1. \A i \in m..n : i \in 1..Len(q)
    OBVIOUS
  <2> QED BY <2>1, ElementOfSeq
<1>2. m \in Int /\ n \in Int
  OBVIOUS
<1> QED BY <1>1, <1>2, SubSeqProperties

LEMMA Prefix ==
  ASSUME NEW S, NEW q \in Seq(S), NEW n \in Nat, n <= Len(q)
  PROVE  /\ SubSeq(q, 1, n) \in Seq(S) /\ Len(SubSeq(q, 1, n)) = n
         /\ \A i \in 1..n : SubSeq(q, 1, n)[i] = q[i]
<1>1. \A i \in 1..n : q[i] \in S
  <2>1. \A i \in 1..n : i \in 1..Len(q)
    BY LenProperties
  <2> QED BY <2>1, ElementOfSeq
<1> DEFINE front == SubSeq(q, 1, n)
<1>2. /\ front \in Seq(S)
      /\ Len(front) = IF 1 <= n THEN n - 1 + 1 ELSE 0
      /\ \A i \in 1..(n - 1 + 1) : front[i] = q[1 + i - 1]
  BY <1>1, SubSeqProperties
<1> HIDE DEF front
<1>3. front \in Seq(S) /\ Len(front) = n /\ \A i \in 1..n : front[i] = q[i]
  BY <1>2
<1> QED BY <1>3 DEF front

LEMMA RecentFits ==
  ASSUME NEW S, NEW q \in Seq(S)
  PROVE  Recent(q) \in Seq(S) /\ Len(Recent(q)) <= HistoryLimit
<1> DEFINE first == IF Len(q) > HistoryLimit THEN Len(q) - HistoryLimit + 1
                                             ELSE 1
<1>1. Len(q) \in Nat
  BY LenProperties
<1>0. HistoryLimit \in Nat \ {0}
  BY Bounds
<1>2. first \in Nat \ {0} /\ Len(q) - first + 1 <= HistoryLimit
  BY <1>0, <1>1
<1>3. Recent(q) = SubSeq(q, first, Len(q))
  BY DEF Recent
<1> HIDE DEF first
<1>4. Recent(q) \in Seq(S) /\
        Len(Recent(q)) = IF first <= Len(q) THEN Len(q) - first + 1 ELSE 0
  BY <1>1, <1>2, <1>3, PartOf
<1> QED BY <1>0, <1>1, <1>2, <1>4

LEMMA FrontAndLast ==
  ASSUME NEW S, NEW q \in Seq(S), q # <<>>
  PROVE  Front(q) \in Seq(S) /\ Len(Front(q)) <= Len(q) /\ Last(q) \in S
<1>1. Len(q) \in Nat /\ Len(q) > 0 /\ DOMAIN q = 1..Len(q)
  BY EmptySeq, LenProperties
<1>2. Last(q) \in S
  BY <1>1, ElementOfSeq DEF Last
<1>3. Len(q) - 1 \in Nat /\ Len(q) - 1 <= Len(q)
  BY <1>1
<1> QED BY <1>1, <1>2, <1>3, PartOf DEF Front

LEMMA WithoutOne ==
  ASSUME NEW S, NEW q \in Seq(S), NEW i \in DOMAIN q
  PROVE  /\ Without(q, i) \in Seq(S)
         /\ \A k \in DOMAIN Without(q, i) :
              \E m \in DOMAIN q : /\ Without(q, i)[k] = q[m]
                                  /\ m = IF k < i THEN k ELSE k + 1
<1> DEFINE left == SubSeq(q, 1, i - 1)
           right == SubSeq(q, i + 1, Len(q))
<1>1. Len(q) \in Nat /\ DOMAIN q = 1..Len(q) /\ i \in 1..Len(q)
  BY LenProperties
<1>2. /\ left \in Seq(S) /\ Len(left) = i - 1
      /\ \A k \in 1..(i - 1) : left[k] = q[k]
  BY <1>1, PartOf
<1>3. /\ right \in Seq(S) /\ Len(right) = Len(q) - i
      /\ \A k \in 1..(Len(q) - i) : right[k] = q[i + k]
  BY <1>1, PartOf
<1>4. Without(q, i) = left \o right
  BY DEF Without
<1> HIDE DEF left, right
<1> DEFINE w == left \o right
<1>5. /\ w \in Seq(S) /\ Len(w) = Len(q) - 1
      /\ \A k \in 1..(Len(q) - 1) :
           w[k] = IF k <= i - 1 THEN left[k] ELSE right[k - (i - 1)]
  <2>1. Len(left) + Len(right) = Len(q) - 1
    BY <1>1, <1>2, <1>3
  <2>2. /\ w \in Seq(S) /\ Len(w) = Len(left) + Len(right)
        /\ \A k \in 1..(Len(left) + Len(right)) :
             w[k] = IF k <= Len(left) THEN left[k] ELSE right[k - Len(left)]
    BY <1>2, <1>3, ConcatProperties
  <2> HIDE DEF w
  <2> QED BY <1>2, <2>1, <2>2
<1> HIDE DEF w
<1>6. DOMAIN w = 1..(Len(q) - 1)
  BY <1>5, LenProperties
<1>7. ASSUME NEW k \in DOMAIN w
      PROVE  \E m \in DOMAIN q : w[k] = q[m] /\ m = IF k < i THEN k ELSE k + 1
  <2>1. k \in 1..(Len(q) - 1)
    BY <1>6
  <2>2. CASE k < i
    <3>1. k \in 1..(i - 1) /\ k \in 1..Len(q)
      BY <1>1, <2>1, <2>2
    <3>2. w[k] = q[k]
      BY <1>1, <1>2, <1>5, <2>1, <3>1
    <3> QED BY <1>1, <2>2, <3>1, <3>2
  <2>3. CASE ~(k < i)
    <3>1. k - (i - 1) \in 1..(Len(q) - i) /\ k + 1 \in 1..Len(q)
          /\ i + (k - (i - 1)) = k + 1 /\ ~(k <= i - 1)
      BY <1>1, <2>1, <2>3
    <3>2. w[k] = right[k - (i - 1)]
      BY <1>5, <2>1, <3>1
    <3>3. right[k - (i - 1)] = q[i + (k - (i - 1))]
      BY <1>3, <3>1
    <3> QED BY <1>1, <2>3, <3>1, <3>2, <3>3
  <2> QED BY <2>2, <2>3
<1>8. Without(q, i) = w
  BY <1>4 DEF w
<1> QED BY <1>5, <1>7, <1>8

-----------------------------------------------------------------------------
(* Changing one part of a project.                                          *)

SourceSeqs == Seq([asset : Assets, role : SourceRoles])

LEMMA Parts ==
  ASSUME NEW q \in ProjectRows
  PROVE  /\ q.sources \in SourceSeqs /\ q.stages \in [Stages -> StageStates]
         /\ q.attempts \in Seq(Attempts) /\ q.base \in 0..MaxAttempts
         /\ q.saved \in Seq(1..MaxAttempts)
BY DEF ProjectRows, SourceSeqs

LEMMA SetSources ==
  ASSUME NEW q \in ProjectRows, NEW new \in SourceSeqs
  PROVE  LET r == [q EXCEPT !.sources = new]
         IN /\ r \in ProjectRows /\ r.sources = new /\ r.stages = q.stages
            /\ r.attempts = q.attempts /\ r.base = q.base /\ r.saved = q.saved
BY DEF ProjectRows, SourceSeqs

LEMMA SetStages ==
  ASSUME NEW q \in ProjectRows, NEW new \in [Stages -> StageStates]
  PROVE  LET r == [q EXCEPT !.stages = new]
         IN /\ r \in ProjectRows /\ r.sources = q.sources /\ r.stages = new
            /\ r.attempts = q.attempts /\ r.base = q.base /\ r.saved = q.saved
BY DEF ProjectRows

LEMMA SetAttempts ==
  ASSUME NEW q \in ProjectRows, NEW new \in Seq(Attempts)
  PROVE  LET r == [q EXCEPT !.attempts = new]
         IN /\ r \in ProjectRows /\ r.sources = q.sources
            /\ r.stages = q.stages /\ r.attempts = new /\ r.base = q.base
            /\ r.saved = q.saved
BY DEF ProjectRows

LEMMA SetBase ==
  ASSUME NEW q \in ProjectRows, NEW new \in 0..MaxAttempts
  PROVE  LET r == [q EXCEPT !.base = new]
         IN /\ r \in ProjectRows /\ r.sources = q.sources
            /\ r.stages = q.stages /\ r.attempts = q.attempts /\ r.base = new
            /\ r.saved = q.saved
BY DEF ProjectRows

LEMMA SetSaved ==
  ASSUME NEW q \in ProjectRows, NEW new \in Seq(1..MaxAttempts)
  PROVE  LET r == [q EXCEPT !.saved = new]
         IN /\ r \in ProjectRows /\ r.sources = q.sources
            /\ r.stages = q.stages /\ r.attempts = q.attempts
            /\ r.base = q.base /\ r.saved = new
BY DEF ProjectRows

LEMMA SetStage ==
  ASSUME NEW q \in ProjectRows, NEW s \in Stages, NEW new \in StageStates
  PROVE  LET r == [q EXCEPT !.stages[s] = new]
         IN /\ r \in ProjectRows /\ r.sources = q.sources
            /\ r.attempts = q.attempts /\ r.base = q.base /\ r.saved = q.saved
            /\ r.stages[s] = new
            /\ \A t \in Stages \ {s} : r.stages[t] = q.stages[t]
<1> DEFINE stages == [q.stages EXCEPT ![s] = new]
<1>1. /\ stages \in [Stages -> StageStates] /\ stages[s] = new
      /\ \A t \in Stages \ {s} : stages[t] = q.stages[t]
  BY Parts
<1>2. [q EXCEPT !.stages[s] = new] = [q EXCEPT !.stages = stages]
  OBVIOUS
<1> HIDE DEF stages
<1> DEFINE r == [q EXCEPT !.stages = stages]
<1>3. /\ r \in ProjectRows /\ r.sources = q.sources /\ r.stages = stages
      /\ r.attempts = q.attempts /\ r.base = q.base /\ r.saved = q.saved
  BY <1>1, SetStages
<1> HIDE DEF r
<1>4. [q EXCEPT !.stages[s] = new] = r
  BY <1>2 DEF r
<1> QED BY <1>1, <1>3, <1>4

\* The state of an attempt alone.
LEMMA SetState ==
  ASSUME NEW q \in ProjectRows, NEW a \in DOMAIN q.attempts,
         NEW state \in AttemptStates
  PROVE  LET r == [q EXCEPT !.attempts[a].state = state]
         IN /\ r \in ProjectRows /\ r.sources = q.sources
            /\ r.stages = q.stages /\ r.base = q.base /\ r.saved = q.saved
            /\ DOMAIN r.attempts = DOMAIN q.attempts
            /\ Len(r.attempts) = Len(q.attempts)
            /\ r.attempts[a] = [q.attempts[a] EXCEPT !.state = state]
            /\ r.attempts[a].state = state
            /\ r.attempts[a].stage = q.attempts[a].stage
            /\ r.attempts[a].draft = q.attempts[a].draft
            /\ r.attempts[a].upstream = q.attempts[a].upstream
            /\ r.attempts[a].preview = q.attempts[a].preview
            /\ \A b \in DOMAIN q.attempts \ {a} :
                 r.attempts[b] = q.attempts[b]
<1> DEFINE moved == [q.attempts[a] EXCEPT !.state = state]
           attempts == [q.attempts EXCEPT ![a] = moved]
<1>1. q.attempts \in Seq(Attempts) /\ q.attempts[a] \in Attempts
  BY Parts, ElementOfSeq
<1>2. /\ moved \in Attempts /\ moved.state = state
      /\ moved.stage = q.attempts[a].stage /\ moved.draft = q.attempts[a].draft
      /\ moved.upstream = q.attempts[a].upstream
      /\ moved.preview = q.attempts[a].preview
  BY <1>1 DEF Attempts
<1>3. [q EXCEPT !.attempts[a].state = state] = [q EXCEPT !.attempts = attempts]
  OBVIOUS
<1>4. moved = [q.attempts[a] EXCEPT !.state = state]
  OBVIOUS
<1> HIDE DEF moved
<1>5. /\ attempts \in Seq(Attempts) /\ Len(attempts) = Len(q.attempts)
      /\ DOMAIN attempts = DOMAIN q.attempts /\ attempts[a] = moved
      /\ \A b \in DOMAIN q.attempts \ {a} : attempts[b] = q.attempts[b]
  <2>1. DOMAIN q.attempts = 1..Len(q.attempts)
    BY <1>1, LenProperties
  <2>2. /\ attempts \in Seq(Attempts) /\ Len(attempts) = Len(q.attempts)
        /\ \A b \in 1..Len(q.attempts) :
             attempts[b] = IF b = a THEN moved ELSE q.attempts[b]
    BY <1>1, <1>2, <2>1, ExceptSeq
  <2>3. DOMAIN attempts = DOMAIN q.attempts
    OBVIOUS
  <2> HIDE DEF attempts
  <2> QED BY <2>1, <2>2, <2>3
<1> HIDE DEF attempts
<1> QED BY <1>2, <1>3, <1>4, <1>5, SetAttempts

-----------------------------------------------------------------------------
(* Currency.                                                                *)

LEMMA CurrentFacts ==
  ASSUME NEW stage \in StageStates, stage.cursor <= Len(stage.history)
  PROVE  /\ CurrentOf(stage) \in 0..MaxAttempts
         /\ CurrentOf(stage) # 0 =>
              \E i \in DOMAIN stage.history : CurrentOf(stage) = stage.history[i]
<1>1. stage.history \in Seq(1..MaxAttempts) /\ stage.cursor \in Nat
  BY DEF StageStates
<1>2. DOMAIN stage.history = 1..Len(stage.history) /\ Len(stage.history) \in Nat
  BY <1>1, LenProperties
<1>3. CASE stage.cursor = 0
  BY <1>3, Bounds DEF CurrentOf
<1>4. CASE stage.cursor # 0
  <2>1. stage.cursor \in 1..Len(stage.history)
    BY <1>1, <1>2, <1>4
  <2>2. stage.history[stage.cursor] \in 1..MaxAttempts
    BY <1>1, <2>1, ElementOfSeq
  <2> QED BY <1>2, <1>4, <2>1, <2>2, Bounds DEF CurrentOf
<1> QED BY <1>3, <1>4

LEMMA StageOf ==
  ASSUME NEW q, Lawful(q), NEW s \in Stages
  PROVE  /\ q.stages[s] \in StageStates
         /\ q.stages[s].cursor <= Len(q.stages[s].history)
         /\ q.stages[s].history \in Seq(1..MaxAttempts)
<1>1. q.stages[s] \in StageStates
  BY Parts DEF Lawful, Shaped
<1> QED BY <1>1 DEF Lawful, StageFits, StageStates

LEMMA UpstreamType ==
  ASSUME NEW q, Lawful(q), NEW s \in Stages
  PROVE  UpstreamResult(q, s) \in 0..MaxAttempts
<1>1. CASE s = "Calibration"
  BY <1>1, Bounds DEF UpstreamResult
<1>2. CASE s = "Develop"
  <2>1. q.base \in 0..MaxAttempts
    BY Parts DEF Lawful, Shaped
  <2> QED BY <1>2, <2>1, Bounds DEF UpstreamResult, DevelopBase
<1>3. CASE s \in {"Registration", "Stacking"}
  <2>1. Prior[s] \in Stages
    BY <1>3 DEF Prior, Stages
  <2> QED BY <1>3, <2>1, StageOf, CurrentFacts
          DEF UpstreamResult, CurrentResult
<1> QED BY <1>1, <1>2, <1>3 DEF Stages

(* What leaves the results where they are leaves their currency.            *)
LEMMA SameLineage ==
  ASSUME NEW q, Whole(q), NEW r, r.base = q.base,
         \A s \in Stages : /\ r.stages[s].history = q.stages[s].history
                           /\ r.stages[s].cursor = q.stages[s].cursor,
         \A a \in DOMAIN q.attempts :
           r.attempts[a].upstream = q.attempts[a].upstream
  PROVE  \A s \in Stages \ {"Calibration"} : Descends(r, s)
<1> SUFFICES ASSUME NEW s \in Stages \ {"Calibration"}
             PROVE  Descends(r, s)
  OBVIOUS
<1>1. \A t \in Stages : CurrentResult(r, t) = CurrentResult(q, t)
  BY DEF CurrentResult, CurrentOf
<1>2. DevelopBase(r) = DevelopBase(q)
  BY DEF DevelopBase, Stages
<1>3. UpstreamResult(r, s) = UpstreamResult(q, s)
  BY <1>1, <1>2 DEF UpstreamResult, Prior, Stages
<1>4. CurrentResult(q, s) # 0 => CurrentResult(q, s) \in DOMAIN q.attempts
  <2>1. CurrentResult(q, s) # 0 =>
          \E i \in DOMAIN q.stages[s].history :
             CurrentResult(q, s) = q.stages[s].history[i]
    BY StageOf, CurrentFacts DEF CurrentResult, Whole
  <2> QED BY <2>1 DEF Whole, Lawful, HistoryHolds
<1>5. Descends(q, s)
  BY DEF Whole
<1>6. \A i \in DOMAIN q.stages[s].history :
        q.stages[s].history[i] \in DOMAIN q.attempts
  BY DEF Whole, Lawful, HistoryHolds
<1>7. Newest(r, s)
  BY <1>3, <1>5, <1>6 DEF Descends, Newest
<1> QED BY <1>1, <1>3, <1>4, <1>5, <1>7 DEF Descends

LEMMA SameHistories ==
  ASSUME NEW q, Lawful(q), NEW r,
         \A s \in Stages : r.stages[s].history = q.stages[s].history,
         \A a \in DOMAIN q.attempts :
           /\ a \in DOMAIN r.attempts
           /\ r.attempts[a].stage = q.attempts[a].stage
           /\ q.attempts[a].state = "succeeded" =>
                r.attempts[a].state = "succeeded"
  PROVE  \A s \in Stages : HistoryHolds(r, s)
BY DEF Lawful, HistoryHolds

\* What restoreLineage makes of a stage: its cursor moves, nothing else.
Follows(r, attempts, stage, upstream) ==
  /\ r \in StageStates /\ StageFits(r) /\ r.history = stage.history
  /\ r.preview = stage.preview
  /\ CurrentOf(r) # 0 => attempts[CurrentOf(r)].upstream = upstream
  /\ \A i \in DOMAIN r.history :
       attempts[r.history[i]].upstream = upstream => i <= r.cursor

LEMMA SetCursor ==
  ASSUME NEW stage \in StageStates, NEW cursor \in Nat
  PROVE  LET r == [stage EXCEPT !.cursor = cursor]
         IN /\ r \in StageStates /\ r.cursor = cursor
            /\ r.history = stage.history /\ r.undo = stage.undo
            /\ r.redo = stage.redo /\ r.draft = stage.draft
            /\ r.revision = stage.revision /\ r.preview = stage.preview
BY DEF StageStates

WithResults(stage, history, cursor) ==
  [stage EXCEPT !.history = history, !.cursor = cursor]

LEMMA SetResults ==
  ASSUME NEW stage \in StageStates, NEW cursor \in Nat,
         NEW history \in Seq(1..MaxAttempts)
  PROVE  LET r == WithResults(stage, history, cursor)
         IN /\ r \in StageStates /\ r.cursor = cursor
            /\ r.history = history /\ r.undo = stage.undo
            /\ r.redo = stage.redo /\ r.draft = stage.draft
            /\ r.revision = stage.revision /\ r.preview = stage.preview
BY DEF StageStates, WithResults

LEMMA SetPreview ==
  ASSUME NEW stage \in StageStates, NEW preview \in Previews
  PROVE  LET r == [stage EXCEPT !.preview = preview]
         IN /\ r \in StageStates /\ r.cursor = stage.cursor
            /\ r.history = stage.history /\ r.undo = stage.undo
            /\ r.redo = stage.redo /\ r.draft = stage.draft
            /\ r.revision = stage.revision /\ r.preview = preview
BY DEF StageStates

LEMMA RematchedFacts ==
  ASSUME NEW attempts, NEW stage \in StageStates, StageFits(stage), NEW upstream
  PROVE  Follows(Rematched(attempts, stage, upstream), attempts, stage, upstream)
<1> DEFINE found == Matches(attempts, stage, upstream)
           cursor == IF found = {} THEN 0
                     ELSE CHOOSE i \in found : \A j \in found : j <= i
           r == [stage EXCEPT !.cursor = cursor]
<1>1. /\ stage.history \in Seq(1..MaxAttempts)
      /\ DOMAIN stage.history = 1..Len(stage.history)
      /\ Len(stage.history) \in Nat
  BY LenProperties DEF StageStates
<1>2. found \in SUBSET (1..Len(stage.history))
  BY <1>1 DEF Matches
<1>3. cursor = 0 \/ cursor \in found
  BY <1>1, <1>2, GreatestNumber
<1>4. Rematched(attempts, stage, upstream) = r
  BY DEF Rematched
<1>6. cursor # 0 => attempts[stage.history[cursor]].upstream = upstream
  BY <1>3 DEF Matches
<1>10. \A i \in found : i <= cursor
  <2>1. CASE found = {}
    BY <2>1
  <2>2. CASE found # {}
    <3> HIDE DEF found
    <3>1. \E i \in found : \A j \in found : j <= i
      BY <1>1, <1>2, <2>2, GreatestNumber
    <3> QED BY <2>2, <3>1
  <2> QED BY <2>1, <2>2
<1>11. \A i \in DOMAIN stage.history :
         attempts[stage.history[i]].upstream = upstream => i <= cursor
  BY <1>10 DEF Matches
<1> HIDE DEF cursor, found
<1>5. cursor \in Nat /\ cursor <= Len(stage.history)
  <2>1. CASE cursor = 0
    BY <1>1, <2>1
  <2>2. CASE cursor \in found
    <3>1. cursor \in 1..Len(stage.history)
      BY <1>2, <2>2
    <3> QED BY <1>1, <3>1
  <2> QED BY <1>3, <2>1, <2>2
<1>7. /\ r \in StageStates /\ r.cursor = cursor
      /\ r.history = stage.history /\ r.undo = stage.undo
      /\ r.redo = stage.redo /\ r.draft = stage.draft
      /\ r.revision = stage.revision /\ r.preview = stage.preview
  BY <1>5, SetCursor
<1> HIDE DEF r
<1>8. StageFits(r)
  <2>1. r.cursor <= Len(r.history)
    BY <1>5, <1>7
  <2> QED BY <1>7, <2>1 DEF StageFits
<1>9. CurrentOf(r) # 0 => attempts[CurrentOf(r)].upstream = upstream
  BY <1>6, <1>7 DEF CurrentOf
<1>12. \A i \in DOMAIN r.history :
         attempts[r.history[i]].upstream = upstream => i <= r.cursor
  BY <1>7, <1>11
<1> QED BY <1>4, <1>7, <1>8, <1>9, <1>12 DEF Follows

\* The same results at every stage, and the same one current at Calibration.
SameResults(r, q) ==
  /\ r.attempts = q.attempts /\ r.base = q.base
  /\ \A s \in Stages : r.stages[s].history = q.stages[s].history
  /\ r.stages["Calibration"].cursor = q.stages["Calibration"].cursor

(* Whatever the cursors were, the restored lineage is current.              *)
LEMMA RestoreFacts ==
  ASSUME NEW q, Lawful(q)
  PROVE  /\ Whole(RestoreLineage(q))
         /\ RestoreLineage(q).attempts = q.attempts
         /\ SameResults(RestoreLineage(q), q)
<1> DEFINE reg == Rematched(q.attempts, q.stages["Registration"],
                            CurrentResult(q, "Calibration"))
           stack == Rematched(q.attempts, q.stages["Stacking"], CurrentOf(reg))
           base == IF q.base = 0 THEN CurrentOf(stack) ELSE DevelopBase(q)
           dev == Rematched(q.attempts, q.stages["Develop"], base)
           kept == IF dev.cursor = 0 THEN NoPreview ELSE dev.preview
           shown == [dev EXCEPT !.preview = kept]
           new == [s \in Stages |->
                     CASE s = "Registration" -> reg
                       [] s = "Stacking" -> stack
                       [] s = "Develop" -> shown
                       [] OTHER -> q.stages[s]]
           r == [q EXCEPT !.stages = new]
<1>1. RestoreLineage(q) = r
  BY DEF RestoreLineage
<1>2. /\ q \in ProjectRows
      /\ \A s \in Stages : q.stages[s] \in StageStates /\ StageFits(q.stages[s])
      /\ {"Calibration", "Registration", "Stacking", "Develop"} \subseteq Stages
  BY StageOf DEF Lawful, Shaped, Stages
<1>3. Follows(reg, q.attempts, q.stages["Registration"],
              CurrentResult(q, "Calibration"))
  BY <1>2, RematchedFacts
<1>4. Follows(stack, q.attempts, q.stages["Stacking"], CurrentOf(reg))
  BY <1>2, RematchedFacts
<1>5. Follows(dev, q.attempts, q.stages["Develop"], base)
  BY <1>2, RematchedFacts
<1> HIDE DEF reg, stack, base, dev
<1>6. /\ shown \in StageStates /\ StageFits(shown)
      /\ shown.history = dev.history /\ CurrentOf(shown) = CurrentOf(dev)
      /\ shown.cursor = dev.cursor
  <2>1. NoPreview \in Previews
    BY Bounds DEF NoPreview, Previews
  <2>2. kept \in Previews /\ (kept = NoPreview \/ kept = dev.preview)
    BY <1>5, <2>1 DEF StageStates, Follows
  <2> HIDE DEF kept
  <2>3. /\ shown \in StageStates /\ shown.preview = kept
        /\ shown.history = dev.history /\ shown.cursor = dev.cursor
        /\ shown.undo = dev.undo /\ shown.redo = dev.redo
        /\ shown.revision = dev.revision /\ shown.draft = dev.draft
    BY <1>5, <2>2 DEF StageStates, Follows
  <2> HIDE DEF shown
  <2> QED BY <1>5, <2>2, <2>3 DEF StageFits, CurrentOf, Follows
<1> HIDE DEF shown
<1>7. /\ new \in [Stages -> StageStates]
      /\ new["Calibration"] = q.stages["Calibration"]
      /\ new["Registration"] = reg /\ new["Stacking"] = stack
      /\ new["Develop"] = shown
  BY <1>2, <1>3, <1>4, <1>6 DEF Stages, Follows
<1> HIDE DEF new
<1>8. /\ r \in ProjectRows /\ r.sources = q.sources /\ r.stages = new
      /\ r.attempts = q.attempts /\ r.base = q.base
  BY <1>2, <1>7, SetStages
<1> HIDE DEF r
<1>9. \A s \in Stages : /\ r.stages[s].history = q.stages[s].history
                        /\ StageFits(r.stages[s])
  BY <1>3, <1>4, <1>5, <1>6, <1>7, <1>8 DEF Stages, Lawful, Follows
<1>10. Lawful(r)
  <2>1. \A s \in Stages : HistoryHolds(r, s)
    BY <1>8, <1>9, SameHistories
  <2>2. Shaped(r)
    BY <1>8 DEF Lawful, Shaped
  <2>3. OneActive(r) /\ DevelopFits(r) /\ LightsAgree(r)
    BY <1>8
    DEF Lawful, OneActive, Active, DevelopFits, LightsAgree, Lights
  <2> QED BY <1>9, <2>1, <2>2, <2>3 DEF Lawful
<1>11. Descends(r, "Registration") /\ Descends(r, "Stacking")
  BY <1>3, <1>4, <1>7, <1>8
  DEF Descends, Newest, UpstreamResult, CurrentResult, Prior, Stages, Follows
<1>12. Descends(r, "Develop")
  <2>1. DevelopBase(r) = DevelopBase(q)
    BY <1>8, <1>9 DEF DevelopBase, Stages
  <2>2. CASE q.base # 0
    BY <1>5, <1>6, <1>7, <1>8, <2>1, <2>2
    DEF Descends, Newest, UpstreamResult, CurrentResult, base, Follows
  <2>3. CASE q.base = 0
    <3>1. \A i \in DOMAIN dev.history : FALSE
      BY <1>5, <2>3 DEF Lawful, HistoryHolds, DevelopFits, Stages, Follows
    <3>2. CurrentOf(dev) = 0
      BY <1>5, <3>1, CurrentFacts DEF Follows, StageFits
    <3>3. Newest(r, "Develop")
      BY <1>6, <1>7, <1>8, <3>1 DEF Newest
    <3> QED BY <1>6, <1>7, <1>8, <3>2, <3>3 DEF Descends, CurrentResult
  <2> QED BY <2>2, <2>3
<1>13. SameResults(r, q)
  BY <1>7, <1>8, <1>9 DEF SameResults
<1> QED BY <1>1, <1>8, <1>10, <1>11, <1>12, <1>13 DEF Whole, Stages

(* One lineage only is whole over given results: what is current at         *)
(* Calibration decides what is current at every later stage.                *)
LEMMA NoneNewer ==
  ASSUME NEW q, Whole(q), NEW r, Whole(r), SameResults(r, q),
         NEW s \in Stages \ {"Calibration"},
         UpstreamResult(r, s) = UpstreamResult(q, s)
  PROVE  r.stages[s].cursor = q.stages[s].cursor
<1> DEFINE history == q.stages[s].history
           c == q.stages[s].cursor
           d == r.stages[s].cursor
<1>1. /\ q.stages[s] \in StageStates /\ r.stages[s] \in StageStates
      /\ c <= Len(history) /\ d <= Len(r.stages[s].history)
      /\ history \in Seq(1..MaxAttempts)
  BY StageOf DEF Whole
<1>2. r.stages[s].history = history /\ r.attempts = q.attempts
  BY DEF SameResults
<1>3. c \in Nat /\ d \in Nat
  BY <1>1 DEF StageStates
<1>4. DOMAIN history = 1..Len(history) /\ Len(history) \in Nat
  BY <1>1, LenProperties
<1>5. Descends(q, s) /\ Descends(r, s)
  BY DEF Whole
<1>6. ASSUME c # 0 PROVE c <= d
  <2>1. c \in DOMAIN history
    BY <1>1, <1>3, <1>4, <1>6
  <2>2. history[c] \in 1..MaxAttempts
    BY <1>1, <1>4, <2>1, ElementOfSeq
  <2>3. CurrentResult(q, s) = history[c] /\ history[c] # 0
    BY <1>6, <2>2, Bounds DEF CurrentResult, CurrentOf
  <2>4. q.attempts[history[c]].upstream = UpstreamResult(r, s)
    BY <1>5, <2>3 DEF Descends
  <2> QED BY <1>2, <1>5, <2>1, <2>4 DEF Descends, Newest
<1>7. ASSUME d # 0 PROVE d <= c
  <2>1. d \in DOMAIN history
    BY <1>1, <1>2, <1>3, <1>4, <1>7
  <2>2. history[d] \in 1..MaxAttempts
    BY <1>1, <1>4, <2>1, ElementOfSeq
  <2>3. CurrentResult(r, s) = history[d] /\ history[d] # 0
    BY <1>2, <1>7, <2>2, Bounds DEF CurrentResult, CurrentOf
  <2>4. q.attempts[history[d]].upstream = UpstreamResult(q, s)
    BY <1>2, <1>5, <2>3 DEF Descends
  <2> QED BY <1>5, <2>1, <2>4 DEF Descends, Newest
<1> HIDE DEF c, d
<1>8. c = d
  BY <1>3, <1>6, <1>7
<1> QED BY <1>8 DEF c, d

LEMMA OneLineage ==
  ASSUME NEW q, Whole(q), NEW r, Whole(r), SameResults(r, q)
  PROVE  \A s \in Stages : r.stages[s].cursor = q.stages[s].cursor
<1>1. r.stages["Calibration"].cursor = q.stages["Calibration"].cursor
  BY DEF SameResults
<1>2. \A s \in Stages :
        r.stages[s].cursor = q.stages[s].cursor =>
          CurrentResult(r, s) = CurrentResult(q, s)
  BY DEF SameResults, CurrentResult, CurrentOf
<1>3. r.stages["Registration"].cursor = q.stages["Registration"].cursor
  <2>1. UpstreamResult(r, "Registration") = UpstreamResult(q, "Registration")
    BY <1>1, <1>2 DEF UpstreamResult, Prior, Stages
  <2> QED BY <2>1, NoneNewer DEF Stages
<1>4. r.stages["Stacking"].cursor = q.stages["Stacking"].cursor
  <2>1. UpstreamResult(r, "Stacking") = UpstreamResult(q, "Stacking")
    BY <1>2, <1>3 DEF UpstreamResult, Prior, Stages
  <2> QED BY <2>1, NoneNewer DEF Stages
<1>5. r.stages["Develop"].cursor = q.stages["Develop"].cursor
  <2>1. UpstreamResult(r, "Develop") = UpstreamResult(q, "Develop")
    BY DEF UpstreamResult, DevelopBase, SameResults, Stages
  <2> QED BY <2>1, NoneNewer DEF Stages
<1> QED BY <1>1, <1>3, <1>4, <1>5 DEF Stages

-----------------------------------------------------------------------------
(* Sources.                                                                 *)

\* Every Light that names a target names t.
Aim(sources, t) ==
  \A i \in DOMAIN sources :
    sources[i].role = "Lights" => Target[sources[i].asset] \in {NoTarget, t}

\* All of them join the target t, when there is one.
Joins(sources, t) ==
  \E u : Aim(sources, u) /\ (t # NoTarget => u = t)

EachOnce(sources) ==
  \A i, j \in DOMAIN sources :
    sources[i].asset = sources[j].asset => i = j

LEMMA SourceAt ==
  ASSUME NEW sources \in SourceSeqs, NEW i \in DOMAIN sources
  PROVE  /\ sources[i] \in [asset : Assets, role : SourceRoles]
         /\ sources[i].asset \in Assets /\ sources[i].role \in SourceRoles
<1>1. sources[i] \in [asset : Assets, role : SourceRoles]
  BY LenProperties, ElementOfSeq DEF SourceSeqs
<1> QED BY <1>1

\* The first Light that names a target sets it for all of them.
LEMMA TargetFound ==
  ASSUME NEW sources \in SourceSeqs,
         \A i, j \in DOMAIN sources :
           /\ sources[i].role = "Lights" /\ sources[j].role = "Lights"
           /\ Target[sources[i].asset] # NoTarget
           /\ Target[sources[j].asset] # NoTarget
           => Target[sources[i].asset] = Target[sources[j].asset]
  PROVE  Aim(sources, ProjectTarget(sources))
<1> DEFINE named == {i \in DOMAIN sources :
                       /\ sources[i].role = "Lights"
                       /\ Target[sources[i].asset] # NoTarget}
           first == CHOOSE i \in named : \A j \in named : i <= j
<1>1. DOMAIN sources \subseteq Nat
  BY LenProperties DEF SourceSeqs
<1>2. CASE named = {}
  BY <1>2 DEF Aim
<1>3. CASE named # {}
  <2>1. named \in SUBSET Nat
    BY <1>1
  <2>2. first \in named
    BY <1>3, <2>1, LeastNumber
  <2>3. ProjectTarget(sources) = Target[sources[first].asset]
    BY <1>3 DEF ProjectTarget
  <2> HIDE DEF first
  <2> QED BY <2>2, <2>3 DEF Aim
<1> QED BY <1>2, <1>3

LEMMA SuggestedRoles ==
  ASSUME NEW order \in Seq(Assets), NEW existing
  PROVE  LET added == AssignSuggestedRoles(order, existing)
         IN /\ added \in SourceSeqs /\ DOMAIN added = DOMAIN order
            /\ \A i \in DOMAIN order : added[i].asset = order[i]
            /\ Joins(added, existing)
<1> DEFINE suggested == [i \in DOMAIN order |->
             [asset |-> order[i], role |-> SuggestedRole[order[i]]]]
           t == IF existing # NoTarget THEN existing
                ELSE ProjectTarget(suggested)
           Conflict(i) == /\ suggested[i].role = "Lights"
                          /\ Target[order[i]] \notin {NoTarget, t}
           added == [i \in DOMAIN order |->
             IF Conflict(i) THEN [suggested[i] EXCEPT !.role = "Unassigned"]
                            ELSE suggested[i]]
<1>1. AssignSuggestedRoles(order, existing) = added
  BY DEF AssignSuggestedRoles
<1>2. Len(order) \in Nat /\ DOMAIN order = 1..Len(order)
  BY LenProperties
<1>3. \A i \in DOMAIN order : order[i] \in Assets
  BY <1>2, ElementOfSeq
<1>4. \A i \in DOMAIN order : SuggestedRole[order[i]] \in SourceRoles
  BY <1>3, ProjectAssumption
<1>5. "Unassigned" \in SourceRoles
  BY DEF SourceRoles
<1>6. \A i \in DOMAIN order :
        /\ suggested[i] \in [asset : Assets, role : SourceRoles]
        /\ suggested[i].asset = order[i]
  BY <1>3, <1>4
<1> HIDE DEF suggested, t
<1>7. \A i \in DOMAIN order :
        /\ added[i] \in [asset : Assets, role : SourceRoles]
        /\ added[i].asset = order[i]
        /\ added[i].role = "Lights" =>
             Target[order[i]] \in {NoTarget, t}
  <2> SUFFICES ASSUME NEW i \in DOMAIN order
               PROVE  /\ added[i] \in [asset : Assets, role : SourceRoles]
                      /\ added[i].asset = order[i]
                      /\ added[i].role = "Lights" =>
                           Target[order[i]] \in {NoTarget, t}
    OBVIOUS
  <2>1. CASE Conflict(i)
    BY <1>5, <1>6, <2>1
  <2>2. CASE ~Conflict(i)
    BY <1>6, <2>2
  <2> QED BY <2>1, <2>2
<1>8. DOMAIN added = DOMAIN order /\ added = [i \in DOMAIN order |-> added[i]]
  OBVIOUS
<1> HIDE DEF added
<1>9. added \in SourceSeqs
  <2> DEFINE Rows == [asset : Assets, role : SourceRoles]
  <2>1. \A i \in 1..Len(order) : added[i] \in Rows
    BY <1>2, <1>7
  <2>2. added = [i \in 1..Len(order) |-> added[i]]
    BY <1>2, <1>8
  <2> HIDE DEF Rows
  <2>3. [i \in 1..Len(order) |-> added[i]] \in [1..Len(order) -> Rows]
    BY <2>1
  <2>4. added \in Seq(Rows)
    BY <1>2, <2>2, <2>3, SeqDef
  <2> QED BY <2>4 DEF SourceSeqs, Rows
<1>10. Aim(added, t)
  BY <1>7, <1>8 DEF Aim
<1>11. existing # NoTarget => t = existing
  BY DEF t
<1>12. Joins(added, existing)
  BY <1>10, <1>11 DEF Joins
<1> QED BY <1>1, <1>7, <1>8, <1>9, <1>12

LEMMA SourcesChange ==
  ASSUME NEW q, Whole(q), NEW new \in SourceSeqs, EachOnce(new),
         NEW t, Aim(new, t)
  PROVE  LET r == [q EXCEPT !.sources = new]
         IN Whole(r) /\ r.attempts = q.attempts
<1> DEFINE r == [q EXCEPT !.sources = new]
<1>1. /\ r \in ProjectRows /\ r.sources = new /\ r.stages = q.stages
      /\ r.attempts = q.attempts /\ r.base = q.base
  BY SetSources DEF Whole, Lawful, Shaped
<1> HIDE DEF r
<1>2. LightsAgree(r)
  BY <1>1 DEF LightsAgree, Lights, Aim
<1>3. Shaped(r)
  BY <1>1 DEF Whole, Lawful, Shaped, EachOnce
<1>4. \A s \in Stages : HistoryHolds(r, s) /\ StageFits(r.stages[s])
  BY <1>1 DEF Whole, Lawful, HistoryHolds
<1>5. OneActive(r) /\ DevelopFits(r)
  BY <1>1 DEF Whole, Lawful, OneActive, Active, DevelopFits
<1>6. \A s \in Stages \ {"Calibration"} : Descends(r, s)
  BY <1>1, SameLineage
<1>7. Whole(r)
  BY <1>2, <1>3, <1>4, <1>5, <1>6 DEF Whole, Lawful
<1> QED BY <1>1, <1>7 DEF r

\* The sources of a project agree on its target.
LEMMA ProjectAims ==
  ASSUME NEW q, Lawful(q)
  PROVE  /\ q.sources \in SourceSeqs /\ EachOnce(q.sources)
         /\ Aim(q.sources, ProjectTarget(q.sources))
<1>1. q.sources \in SourceSeqs /\ EachOnce(q.sources)
  BY Parts DEF Lawful, Shaped, EachOnce
<1>2. \A i \in DOMAIN q.sources :
        q.sources[i].role = "Lights" => q.sources[i].asset \in Lights(q)
  BY DEF Lights
<1>3. Aim(q.sources, ProjectTarget(q.sources))
  BY <1>1, <1>2, TargetFound DEF Lawful, LightsAgree
<1> QED BY <1>1, <1>3

LEMMA SelectionFacts ==
  ASSUME NEW order \in Selections \cup {<<>>}
  PROVE  /\ order \in Seq(Assets)
         /\ \A i, j \in DOMAIN order : order[i] = order[j] => i = j
<1>1. CASE order = <<>>
  BY <1>1, EmptySeq
<1>2. CASE order \in Selections
  <2>1. Cardinality(Assets) \in Nat
    BY ProjectAssumption, FS_CardinalityType
  <2>2. PICK n \in 1..Cardinality(Assets) : order \in [1..n -> Assets]
    BY <1>2 DEF Selections
  <2>3. n \in Nat
    BY <2>1
  <2>4. order \in Seq(Assets)
    BY <2>2, <2>3, SeqDef
  <2>5. \A i, j \in 1..n : i < j => order[i] < order[j]
    BY <1>2, <2>2 DEF Selections
  <2>6. \A i \in 1..n : order[i] \in Nat
    BY <2>2, ProjectAssumption
  <2>7. \A i, j \in 1..n : i < j \/ j < i \/ i = j
    BY <2>3
  <2>8. \A i, j \in 1..n : order[i] = order[j] => i = j
    BY <2>5, <2>6, <2>7
  <2> QED BY <2>2, <2>4, <2>8
<1> QED BY <1>1, <1>2

(* AddSources. *)
LEMMA SourcesAdded ==
  ASSUME NEW q, Whole(q), NEW fresh \in Selections \cup {<<>>},
         Entries(fresh) \cap SourceAssets(q) = {}
  PROVE  LET added == AssignSuggestedRoles(fresh, ProjectTarget(q.sources))
             new == q.sources \o added
         IN new \in SourceSeqs /\ EachOnce(new) /\ \E t : Aim(new, t)
<1> DEFINE old == q.sources
           added == AssignSuggestedRoles(fresh, ProjectTarget(old))
           new == old \o added
<1>1. old \in SourceSeqs /\ EachOnce(old) /\ Aim(old, ProjectTarget(old))
  BY ProjectAims DEF Whole
<1>2. /\ fresh \in Seq(Assets)
      /\ \A i, j \in DOMAIN fresh : fresh[i] = fresh[j] => i = j
  BY SelectionFacts
<1>3. /\ added \in SourceSeqs /\ DOMAIN added = DOMAIN fresh
      /\ \A i \in DOMAIN fresh : added[i].asset = fresh[i]
  BY <1>2, SuggestedRoles
<1>4. PICK t : Aim(added, t) /\ (ProjectTarget(old) # NoTarget =>
                                     t = ProjectTarget(old))
  <2>1. Joins(added, ProjectTarget(old))
    BY <1>2, SuggestedRoles
  <2> HIDE DEF added, old
  <2> QED BY <2>1 DEF Joins
<1>5. \A i \in DOMAIN old, j \in DOMAIN added : old[i].asset # added[j].asset
  BY <1>3 DEF Entries, SourceAssets
<1> HIDE DEF old, added
<1>6. /\ Len(old) \in Nat /\ DOMAIN old = 1..Len(old)
      /\ Len(added) \in Nat /\ DOMAIN added = 1..Len(added)
  BY <1>1, <1>3, LenProperties DEF SourceSeqs
<1>7. /\ new \in SourceSeqs /\ Len(new) = Len(old) + Len(added)
      /\ \A k \in 1..(Len(old) + Len(added)) :
           new[k] = IF k <= Len(old) THEN old[k] ELSE added[k - Len(old)]
  BY <1>1, <1>3, ConcatProperties DEF SourceSeqs
<1> HIDE DEF new
<1>8. DOMAIN new = 1..(Len(old) + Len(added))
  BY <1>7, LenProperties DEF SourceSeqs
<1>9. \A k \in DOMAIN new :
        \/ k \in DOMAIN old /\ new[k] = old[k]
        \/ k - Len(old) \in DOMAIN added /\ new[k] = added[k - Len(old)]
  <2> SUFFICES ASSUME NEW k \in DOMAIN new
               PROVE  \/ k \in DOMAIN old /\ new[k] = old[k]
                      \/ /\ k - Len(old) \in DOMAIN added
                         /\ new[k] = added[k - Len(old)]
    OBVIOUS
  <2>1. CASE k <= Len(old)
    BY <1>6, <1>7, <1>8, <2>1
  <2>2. CASE ~(k <= Len(old))
    BY <1>6, <1>7, <1>8, <2>2
  <2> QED BY <2>1, <2>2
<1>10. EachOnce(new)
  <2> SUFFICES ASSUME NEW i \in DOMAIN new, NEW j \in DOMAIN new,
                      new[i].asset = new[j].asset
               PROVE  i = j
    BY DEF EachOnce
  <2>1. CASE i \in DOMAIN old /\ new[i] = old[i]
             /\ j \in DOMAIN old /\ new[j] = old[j]
    BY <1>1, <2>1 DEF EachOnce
  <2>2. ASSUME i - Len(old) \in DOMAIN added, new[i] = added[i - Len(old)],
               j - Len(old) \in DOMAIN added, new[j] = added[j - Len(old)]
        PROVE  i = j
    <3>1. i - Len(old) = j - Len(old)
      BY <1>2, <1>3, <2>2
    <3> QED BY <1>6, <1>8, <3>1
  <2> QED BY <1>5, <1>9, <2>1, <2>2
<1>11. \E u : Aim(new, u)
  <2>1. CASE ProjectTarget(old) = NoTarget
    <3>1. Aim(new, t)
      BY <1>1, <1>4, <1>9, <2>1 DEF Aim
    <3> QED BY <3>1
  <2>2. CASE ProjectTarget(old) # NoTarget
    <3>1. Aim(new, t)
      BY <1>1, <1>4, <1>9, <2>2 DEF Aim
    <3> QED BY <3>1
  <2> QED BY <2>1, <2>2
<1> QED BY <1>7, <1>10, <1>11 DEF new, added, old

(* RemoveSource. *)
LEMMA SourceRemoved ==
  ASSUME NEW q, Whole(q), NEW i \in DOMAIN q.sources
  PROVE  LET new == Without(q.sources, i)
         IN new \in SourceSeqs /\ EachOnce(new) /\ \E t : Aim(new, t)
<1> DEFINE old == q.sources
           new == Without(old, i)
           t == ProjectTarget(old)
<1>1. old \in SourceSeqs /\ EachOnce(old) /\ Aim(old, t)
  BY ProjectAims DEF Whole
<1> HIDE DEF old, t
<1>2. /\ new \in SourceSeqs
      /\ \A k \in DOMAIN new : \E m \in DOMAIN old :
           new[k] = old[m] /\ m = IF k < i THEN k ELSE k + 1
  BY <1>1, WithoutOne DEF SourceSeqs, old
<1> HIDE DEF new
<1>3. i \in Nat /\ DOMAIN new \subseteq Nat
  BY <1>1, <1>2, LenProperties DEF SourceSeqs, old
<1>4. EachOnce(new)
  <2> SUFFICES ASSUME NEW k \in DOMAIN new, NEW l \in DOMAIN new,
                      new[k].asset = new[l].asset
               PROVE  k = l
    BY DEF EachOnce
  <2>1. PICK m \in DOMAIN old :
          new[k] = old[m] /\ m = IF k < i THEN k ELSE k + 1
    BY <1>2
  <2>2. PICK n \in DOMAIN old :
          new[l] = old[n] /\ n = IF l < i THEN l ELSE l + 1
    BY <1>2
  <2>3. m = n
    BY <1>1, <2>1, <2>2 DEF EachOnce
  <2> QED BY <1>3, <2>1, <2>2, <2>3
<1>5. Aim(new, t)
  BY <1>1, <1>2 DEF Aim
<1> QED BY <1>2, <1>4, <1>5 DEF new, old

(* AssignSourceRole. *)
LEMMA RoleAssigned ==
  ASSUME NEW q, Whole(q), NEW asset, NEW role \in SourceRoles,
         \/ role # "Lights" \/ ProjectTarget(q.sources) = NoTarget
         \/ Target[asset] \in {NoTarget, ProjectTarget(q.sources)}
  PROVE  LET new == [i \in DOMAIN q.sources |->
                       IF q.sources[i].asset = asset
                       THEN [q.sources[i] EXCEPT !.role = role]
                       ELSE q.sources[i]]
         IN new \in SourceSeqs /\ EachOnce(new) /\ \E t : Aim(new, t)
<1> DEFINE old == q.sources
           new == [i \in DOMAIN old |->
                     IF old[i].asset = asset
                     THEN [old[i] EXCEPT !.role = role] ELSE old[i]]
           t == ProjectTarget(old)
           u == IF role = "Lights" /\ t = NoTarget THEN Target[asset] ELSE t
           Rows == [asset : Assets, role : SourceRoles]
<1>1. old \in SourceSeqs /\ EachOnce(old) /\ Aim(old, t)
  BY ProjectAims DEF Whole
<1>2. role # "Lights" \/ t = NoTarget \/ Target[asset] \in {NoTarget, t}
  OBVIOUS
<1> HIDE DEF old, t
<1>3. Len(old) \in Nat /\ DOMAIN old = 1..Len(old)
  BY <1>1, LenProperties DEF SourceSeqs
<1>4. \A i \in DOMAIN old :
        /\ new[i] \in Rows /\ new[i].asset = old[i].asset
        /\ new[i].role = IF old[i].asset = asset THEN role ELSE old[i].role
  <2> SUFFICES ASSUME NEW i \in DOMAIN old
               PROVE  /\ new[i] \in Rows /\ new[i].asset = old[i].asset
                      /\ new[i].role = IF old[i].asset = asset THEN role
                                       ELSE old[i].role
    OBVIOUS
  <2>1. old[i] \in Rows
    BY <1>1, SourceAt
  <2> QED BY <2>1
<1>5. DOMAIN new = DOMAIN old /\ new = [i \in DOMAIN old |-> new[i]]
  OBVIOUS
<1> HIDE DEF new
<1>6. new \in SourceSeqs
  <2>1. \A i \in 1..Len(old) : new[i] \in Rows
    BY <1>3, <1>4
  <2>2. new = [i \in 1..Len(old) |-> new[i]]
    BY <1>3, <1>5
  <2> HIDE DEF Rows
  <2>3. [i \in 1..Len(old) |-> new[i]] \in [1..Len(old) -> Rows]
    BY <2>1
  <2>4. new \in Seq(Rows)
    BY <1>3, <2>2, <2>3, SeqDef
  <2> QED BY <2>4 DEF SourceSeqs, Rows
<1>7. EachOnce(new)
  BY <1>1, <1>4, <1>5 DEF EachOnce
<1>8. Aim(new, u)
  <2> SUFFICES ASSUME NEW i \in DOMAIN new, new[i].role = "Lights"
               PROVE  Target[new[i].asset] \in {NoTarget, u}
    BY DEF Aim
  <2>1. CASE old[i].asset = asset
    BY <1>2, <1>4, <1>5, <2>1
  <2>2. CASE old[i].asset # asset
    BY <1>1, <1>4, <1>5, <2>2 DEF Aim
  <2> QED BY <2>1, <2>2
<1> QED BY <1>6, <1>7, <1>8 DEF new, old

-----------------------------------------------------------------------------
(* Drafts, attempts and results.                                            *)

LEMMA StageMoved ==
  ASSUME NEW q, Lawful(q), NEW s \in Stages, NEW new \in StageStates,
         StageFits(new), new.history = q.stages[s].history
  PROVE  LET r == [q EXCEPT !.stages[s] = new]
         IN /\ Lawful(r) /\ r.attempts = q.attempts /\ r.base = q.base
            /\ r.stages[s] = new
            /\ \A t \in Stages \ {s} : r.stages[t] = q.stages[t]
<1> DEFINE r == [q EXCEPT !.stages[s] = new]
<1>1. /\ r \in ProjectRows /\ r.sources = q.sources
      /\ r.attempts = q.attempts /\ r.base = q.base
      /\ r.stages[s] = new
      /\ \A t \in Stages \ {s} : r.stages[t] = q.stages[t]
  BY SetStage DEF Lawful, Shaped
<1> HIDE DEF r
<1>2. \A t \in Stages : /\ r.stages[t].history = q.stages[t].history
                       /\ StageFits(r.stages[t])
  BY <1>1 DEF Lawful
<1>3. \A t \in Stages : HistoryHolds(r, t)
  BY <1>1, <1>2, SameHistories
<1>4. Shaped(r) /\ OneActive(r) /\ DevelopFits(r) /\ LightsAgree(r)
  BY <1>1
  DEF Lawful, Shaped, OneActive, Active, DevelopFits, LightsAgree, Lights
<1>5. Lawful(r)
  BY <1>2, <1>3, <1>4 DEF Lawful
<1> QED BY <1>1, <1>5 DEF r

LEMMA StageRevised ==
  ASSUME NEW q, Whole(q), NEW s \in Stages, NEW new \in StageStates,
         StageFits(new), new.history = q.stages[s].history,
         new.cursor = q.stages[s].cursor
  PROVE  LET r == [q EXCEPT !.stages[s] = new]
         IN Whole(r) /\ r.attempts = q.attempts
<1> DEFINE r == [q EXCEPT !.stages[s] = new]
<1>1. /\ Lawful(r) /\ r.attempts = q.attempts /\ r.base = q.base
      /\ r.stages[s] = new
      /\ \A t \in Stages \ {s} : r.stages[t] = q.stages[t]
  BY StageMoved DEF Whole
<1> HIDE DEF r
<1>2. \A t \in Stages \ {"Calibration"} : Descends(r, t)
  BY <1>1, SameLineage
<1>3. Whole(r)
  BY <1>1, <1>2 DEF Whole
<1> QED BY <1>1, <1>3 DEF r

Redrawn(q, s, draft, undo, redo) ==
  [q EXCEPT !.stages[s] =
    [revision |-> q.stages[s].revision + 1, draft |-> draft,
     undo |-> undo, redo |-> redo, preview |-> NoPreview,
     history |-> q.stages[s].history, cursor |-> q.stages[s].cursor]]

(* Redraft. *)
LEMMA Redrafted ==
  ASSUME NEW q, Whole(q), NEW s \in Stages,
         q.stages[s].revision < MaxDraftRevision, NEW draft \in SUBSET Assets,
         NEW undo \in Seq(SUBSET Assets), Len(undo) <= HistoryLimit,
         NEW redo \in Seq(SUBSET Assets), Len(redo) <= HistoryLimit
  PROVE  LET r == Redrawn(q, s, draft, undo, redo)
         IN Whole(r) /\ r.attempts = q.attempts
<1> DEFINE old == q.stages[s]
           new == [revision |-> old.revision + 1, draft |-> draft,
                   undo |-> undo, redo |-> redo, preview |-> NoPreview,
                   history |-> old.history, cursor |-> old.cursor]
<1>1. old \in StageStates /\ old.cursor <= Len(old.history)
  BY StageOf DEF Whole
<1>2. old.revision < MaxDraftRevision
  OBVIOUS
<1> HIDE DEF old
<1>3. NoPreview \in Previews
  BY Bounds DEF NoPreview, Previews
<1>4. old.revision + 1 \in 0..MaxDraftRevision
  BY <1>1, <1>2, Bounds DEF StageStates
<1>5. new \in StageStates
  BY <1>1, <1>3, <1>4 DEF StageStates
<1>6. StageFits(new)
  BY <1>1 DEF StageFits
<1>7. new.history = old.history /\ new.cursor = old.cursor
  OBVIOUS
<1> HIDE DEF new
<1>8. LET r == [q EXCEPT !.stages[s] = new]
      IN Whole(r) /\ r.attempts = q.attempts
  BY <1>5, <1>6, <1>7, StageRevised DEF old
<1> QED BY <1>8 DEF new, old, Redrawn

WithPreview(q) ==
  LET stage == q.stages["Develop"]
  IN [q EXCEPT !.stages["Develop"] =
       [stage EXCEPT !.preview = [revision |-> stage.revision,
                                  input |-> DevelopBase(q),
                                  draft |-> stage.draft]]]

(* SyncDevelopPreview. *)
LEMMA Previewed ==
  ASSUME NEW q, Whole(q)
  PROVE  LET r == WithPreview(q)
         IN Whole(r) /\ r.attempts = q.attempts
<1> DEFINE old == q.stages["Develop"]
           preview == [revision |-> old.revision, input |-> DevelopBase(q),
                       draft |-> old.draft]
           new == [old EXCEPT !.preview = preview]
<1>1. "Develop" \in Stages
  BY DEF Stages
<1>2. old \in StageStates /\ StageFits(old)
  BY <1>1, StageOf DEF Whole, Lawful
<1>3. DevelopBase(q) \in 0..MaxAttempts
  BY <1>1, UpstreamType DEF UpstreamResult, Whole
<1>4. preview \in Previews
  BY <1>2, <1>3 DEF Previews, StageStates
<1>5. preview.revision = old.revision /\ preview.draft = old.draft
  OBVIOUS
<1> HIDE DEF old, preview
<1>6. /\ new \in StageStates /\ new.cursor = old.cursor
      /\ new.history = old.history /\ new.undo = old.undo
      /\ new.redo = old.redo /\ new.draft = old.draft
      /\ new.revision = old.revision /\ new.preview = preview
  BY <1>2, <1>4, SetPreview
<1> HIDE DEF new
<1>7. StageFits(new)
  BY <1>2, <1>5, <1>6 DEF StageFits
<1>8. LET r == [q EXCEPT !.stages["Develop"] = new]
      IN Whole(r) /\ r.attempts = q.attempts
  BY <1>1, <1>6, <1>7, StageRevised DEF old
<1> QED BY <1>8 DEF new, old, preview, WithPreview

WithCursor(q, s, cursor) ==
  RestoreLineage([q EXCEPT !.stages[s] = [@ EXCEPT !.cursor = cursor]])

(* MoveCurrentResult. *)
LEMMA CursorMoved ==
  ASSUME NEW q, Whole(q), NEW s \in Stages, NEW cursor \in Nat,
         cursor <= Len(q.stages[s].history)
  PROVE  LET r == WithCursor(q, s, cursor)
         IN Whole(r) /\ r.attempts = q.attempts
<1> DEFINE old == q.stages[s]
           new == [old EXCEPT !.cursor = cursor]
           moved == [q EXCEPT !.stages[s] = new]
<1>1. old \in StageStates /\ StageFits(old) /\ cursor <= Len(old.history)
  BY StageOf DEF Whole, Lawful
<1>2. [q EXCEPT !.stages[s] = [@ EXCEPT !.cursor = cursor]] = moved
  OBVIOUS
<1> HIDE DEF old
<1>3. /\ new \in StageStates /\ new.cursor = cursor
      /\ new.history = old.history /\ new.undo = old.undo
      /\ new.redo = old.redo /\ new.draft = old.draft
      /\ new.revision = old.revision /\ new.preview = old.preview
  BY <1>1, SetCursor
<1> HIDE DEF new
<1>4. StageFits(new)
  BY <1>1, <1>3 DEF StageFits
<1>5. Lawful(moved) /\ moved.attempts = q.attempts
  BY <1>3, <1>4, StageMoved DEF Whole, old
<1> HIDE DEF moved
<1>6. WithCursor(q, s, cursor) = RestoreLineage(moved)
  BY <1>2 DEF WithCursor
<1> QED BY <1>5, <1>6, RestoreFacts

Opened(q, a) ==
  RestoreLineage([q EXCEPT !.base = a,
    !.stages["Develop"] = [@ EXCEPT !.preview = NoPreview]])

(* OpenDevelop. *)
LEMMA DevelopOpened ==
  ASSUME NEW q, Whole(q), NEW a \in 1..MaxAttempts
  PROVE  LET r == Opened(q, a)
         IN Whole(r) /\ r.attempts = q.attempts
<1> DEFINE based == [q EXCEPT !.base = a]
           old == q.stages["Develop"]
           new == [old EXCEPT !.preview = NoPreview]
           moved == [based EXCEPT !.stages["Develop"] = new]
<1>1. [q EXCEPT !.base = a,
         !.stages["Develop"] = [@ EXCEPT !.preview = NoPreview]] = moved
  OBVIOUS
<1>2. a \in 0..MaxAttempts /\ a # 0
  BY Bounds
<1>3. /\ based \in ProjectRows /\ based.sources = q.sources
      /\ based.stages = q.stages /\ based.attempts = q.attempts
      /\ based.base = a
  BY <1>2, SetBase DEF Whole, Lawful, Shaped
<1>4. "Develop" \in Stages
  BY DEF Stages
<1>5. old \in StageStates /\ StageFits(old)
  BY <1>4, StageOf DEF Whole, Lawful
<1> HIDE DEF based
<1>6. Lawful(based)
  <2>1. Shaped(based) /\ OneActive(based) /\ LightsAgree(based)
    BY <1>3 DEF Whole, Lawful, Shaped, OneActive, Active, LightsAgree, Lights
  <2>2. DevelopFits(based)
    BY <1>2, <1>3 DEF Whole, Lawful, DevelopFits
  <2>3. \A s \in Stages : StageFits(based.stages[s]) /\ HistoryHolds(based, s)
    BY <1>3 DEF Whole, Lawful, HistoryHolds
  <2> QED BY <2>1, <2>2, <2>3 DEF Lawful
<1>7. old = based.stages["Develop"]
  BY <1>3
<1> HIDE DEF old
<1>8. NoPreview \in Previews
  BY Bounds DEF NoPreview, Previews
<1>9. /\ new \in StageStates /\ new.cursor = old.cursor
      /\ new.history = old.history /\ new.undo = old.undo
      /\ new.redo = old.redo /\ new.draft = old.draft
      /\ new.revision = old.revision /\ new.preview = NoPreview
  BY <1>5, <1>8, SetPreview
<1> HIDE DEF new
<1>10. StageFits(new)
  BY <1>5, <1>9 DEF StageFits
<1>11. Lawful(moved) /\ moved.attempts = q.attempts
  BY <1>3, <1>4, <1>6, <1>7, <1>9, <1>10, StageMoved
<1> HIDE DEF moved
<1>12. Opened(q, a) = RestoreLineage(moved)
  BY <1>1 DEF Opened
<1> QED BY <1>11, <1>12, RestoreFacts

WithSaved(q, a) == [q EXCEPT !.saved = Append(@, a)]

LEMMA ResultSaved ==
  ASSUME NEW q, Whole(q), NEW a \in 1..MaxAttempts
  PROVE  LET r == WithSaved(q, a)
         IN Whole(r) /\ r.attempts = q.attempts
<1> DEFINE saved == Append(q.saved, a)
           r == [q EXCEPT !.saved = saved]
<1>1. q \in ProjectRows /\ q.saved \in Seq(1..MaxAttempts)
  BY Parts DEF Whole, Lawful, Shaped
<1>2. saved \in Seq(1..MaxAttempts)
  BY <1>1, AppendProperties
<1> HIDE DEF saved
<1>3. /\ r \in ProjectRows /\ r.sources = q.sources /\ r.stages = q.stages
      /\ r.attempts = q.attempts /\ r.base = q.base
  BY <1>1, <1>2, SetSaved
<1> HIDE DEF r
<1>4. Shaped(r) /\ OneActive(r) /\ LightsAgree(r) /\ DevelopFits(r)
  BY <1>3 DEF Whole, Lawful, Shaped, OneActive, Active, LightsAgree, Lights,
              DevelopFits
<1>5. \A s \in Stages : StageFits(r.stages[s]) /\ HistoryHolds(r, s)
  BY <1>3 DEF Whole, Lawful, HistoryHolds
<1>6. \A s \in Stages \ {"Calibration"} : Descends(r, s)
  BY <1>3, SameLineage
<1>7. Whole(r)
  BY <1>4, <1>5, <1>6 DEF Whole, Lawful
<1> QED BY <1>3, <1>7 DEF r, saved, WithSaved

\* RunStage, RetryStage: a queued attempt behind the others, none active.
Appended(q, new) == [q EXCEPT !.attempts = Append(@, new)]

LEMMA AttemptAppended ==
  ASSUME NEW q, Whole(q), Active(q) = {}, Len(q.attempts) < MaxAttempts,
         NEW new \in Attempts, new.state = "queued",
         new.stage = "Develop" => /\ q.base # 0
                                  /\ new.preview.draft = new.draft
                                  /\ new.preview.input = new.upstream
  PROVE  LET r == Appended(q, new)
         IN /\ Whole(r)
            /\ DOMAIN r.attempts = DOMAIN q.attempts \cup {Len(q.attempts) + 1}
            /\ r.attempts[Len(q.attempts) + 1] = new
            /\ \A b \in DOMAIN q.attempts : r.attempts[b] = q.attempts[b]
<1> DEFINE attempts == Append(q.attempts, new)
           n == Len(q.attempts) + 1
           r == [q EXCEPT !.attempts = attempts]
<1>1. q \in ProjectRows /\ q.attempts \in Seq(Attempts)
  BY Parts DEF Whole, Lawful, Shaped
<1>2. /\ Len(q.attempts) \in Nat /\ DOMAIN q.attempts = 1..Len(q.attempts)
  BY <1>1, LenProperties
<1>3. /\ attempts \in Seq(Attempts) /\ Len(attempts) = n /\ attempts[n] = new
      /\ \A b \in 1..Len(q.attempts) : attempts[b] = q.attempts[b]
  BY <1>1, AppendProperties
<1> HIDE DEF attempts
<1>4. DOMAIN attempts = DOMAIN q.attempts \cup {n} /\ n \notin DOMAIN q.attempts
  <2>1. DOMAIN attempts = 1..n
    BY <1>3, LenProperties
  <2> QED BY <1>2, <2>1
<1>5. /\ r \in ProjectRows /\ r.sources = q.sources /\ r.stages = q.stages
      /\ r.attempts = attempts /\ r.base = q.base
  BY <1>1, <1>3, SetAttempts
<1> HIDE DEF r
<1>6. Shaped(r)
  BY <1>2, <1>3, <1>5, Bounds DEF Whole, Lawful, Shaped
<1>7. OneActive(r)
  <2>1. \A b \in DOMAIN q.attempts : b \notin Active(r)
    BY <1>2, <1>3, <1>5 DEF Active
  <2>2. Active(r) \subseteq {n}
    BY <1>4, <1>5, <2>1 DEF Active
  <2> QED BY <2>2 DEF OneActive
<1>8. DevelopFits(r)
  <2> SUFFICES ASSUME NEW b \in DOMAIN r.attempts,
                      r.attempts[b].stage = "Develop"
               PROVE  /\ r.base # 0
                      /\ r.attempts[b].preview.draft = r.attempts[b].draft
                      /\ r.attempts[b].preview.input = r.attempts[b].upstream
    BY DEF DevelopFits
  <2>1. CASE b = n
    BY <1>3, <1>5, <2>1
  <2>2. CASE b \in DOMAIN q.attempts
    BY <1>2, <1>3, <1>5, <2>2 DEF Whole, Lawful, DevelopFits
  <2> QED BY <1>4, <1>5, <2>1, <2>2
<1>9. LightsAgree(r)
  BY <1>5 DEF Whole, Lawful, LightsAgree, Lights
<1>10. \A b \in DOMAIN q.attempts :
         b \in DOMAIN r.attempts /\ r.attempts[b] = q.attempts[b]
  BY <1>2, <1>3, <1>4, <1>5
<1>11. \A s \in Stages : HistoryHolds(r, s)
  BY <1>5, <1>10, SameHistories DEF Whole
<1>12. \A s \in Stages \ {"Calibration"} : Descends(r, s)
  BY <1>5, <1>10, SameLineage
<1>13. Whole(r)
  BY <1>5, <1>6, <1>7, <1>8, <1>9, <1>11, <1>12 DEF Whole, Lawful
<1> QED BY <1>3, <1>4, <1>5, <1>10, <1>13 DEF r, attempts, Appended

\* Project r is q with attempt a in another state, and with its results.
Moves(q, r, a, state) ==
  /\ Whole(r)
  /\ DOMAIN r.attempts = DOMAIN q.attempts
  /\ r.attempts[a] = [q.attempts[a] EXCEPT !.state = state]
  /\ r.attempts[a].state = state
  /\ r.attempts[a].stage = q.attempts[a].stage
  /\ r.attempts[a].upstream = q.attempts[a].upstream
  /\ \A b \in DOMAIN q.attempts \ {a} : r.attempts[b] = q.attempts[b]

WithState(q, a, state) == [q EXCEPT !.attempts[a].state = state]

\* Claim, Settle: the state of the active attempt moves.
LEMMA AttemptMoved ==
  ASSUME NEW q, Whole(q), NEW a \in Active(q), NEW state \in AttemptStates
  PROVE  /\ Moves(q, WithState(q, a, state), a, state)
         /\ WithState(q, a, state).stages = q.stages
<1> DEFINE r == [q EXCEPT !.attempts[a].state = state]
<1>1. a \in DOMAIN q.attempts /\ q.attempts[a].state # "succeeded"
  BY DEF Active
<1>2. /\ r \in ProjectRows /\ r.sources = q.sources
      /\ r.stages = q.stages /\ r.base = q.base
      /\ DOMAIN r.attempts = DOMAIN q.attempts
      /\ Len(r.attempts) = Len(q.attempts)
      /\ r.attempts[a] = [q.attempts[a] EXCEPT !.state = state]
      /\ r.attempts[a].state = state
      /\ r.attempts[a].stage = q.attempts[a].stage
      /\ r.attempts[a].draft = q.attempts[a].draft
      /\ r.attempts[a].upstream = q.attempts[a].upstream
      /\ r.attempts[a].preview = q.attempts[a].preview
      /\ \A b \in DOMAIN q.attempts \ {a} : r.attempts[b] = q.attempts[b]
  BY <1>1, SetState DEF Whole, Lawful, Shaped
<1> HIDE DEF r
<1>3. Shaped(r) /\ LightsAgree(r)
  BY <1>2 DEF Whole, Lawful, Shaped, LightsAgree, Lights
<1>4. OneActive(r)
  <2>1. Active(r) \subseteq Active(q)
    BY <1>2 DEF Active
  <2> QED BY <2>1 DEF Whole, Lawful, OneActive
<1>5. DevelopFits(r)
  <2> SUFFICES ASSUME NEW b \in DOMAIN r.attempts,
                      r.attempts[b].stage = "Develop"
               PROVE  /\ r.base # 0
                      /\ r.attempts[b].preview.draft = r.attempts[b].draft
                      /\ r.attempts[b].preview.input = r.attempts[b].upstream
    BY DEF DevelopFits
  <2>1. DevelopFits(q)
    BY DEF Whole, Lawful
  <2>2. CASE b = a
    BY <1>1, <1>2, <2>1, <2>2 DEF DevelopFits
  <2>3. CASE b # a
    BY <1>2, <2>1, <2>3 DEF DevelopFits
  <2> QED BY <2>2, <2>3
<1>6. \A b \in DOMAIN q.attempts :
        /\ b \in DOMAIN r.attempts
        /\ r.attempts[b].stage = q.attempts[b].stage
        /\ r.attempts[b].upstream = q.attempts[b].upstream
        /\ q.attempts[b].state = "succeeded" =>
             r.attempts[b].state = "succeeded"
  BY <1>1, <1>2
<1>7. \A s \in Stages : HistoryHolds(r, s)
  BY <1>2, <1>6, SameHistories DEF Whole
<1>8. \A s \in Stages \ {"Calibration"} : Descends(r, s)
  BY <1>2, <1>6, SameLineage
<1>9. Whole(r)
  BY <1>2, <1>3, <1>4, <1>5, <1>7, <1>8 DEF Whole, Lawful
<1>10. Moves(q, r, a, state)
  BY <1>2, <1>9 DEF Moves
<1>11. WithState(q, a, state) = r
  BY DEF r, WithState
<1> QED BY <1>2, <1>10, <1>11

\* A result joins the history of its stage, behind the one that is current.
LEMMA ResultAdded ==
  ASSUME NEW q, Lawful(q), NEW a \in DOMAIN q.attempts,
         q.attempts[a].state = "succeeded",
         a \notin Entries(q.stages[q.attempts[a].stage].history)
  PROVE  LET r == WithResult(q, a, q.attempts[a].stage)
         IN Lawful(r) /\ r.attempts = q.attempts
<1> DEFINE s == q.attempts[a].stage
           old == q.stages[s]
           kept == SubSeq(old.history, 1, old.cursor)
           history == Append(kept, a)
           new == [old EXCEPT !.history = history, !.cursor = @ + 1]
           r == [q EXCEPT !.stages[s] = new]
<1>1. /\ q \in ProjectRows /\ q.attempts \in Seq(Attempts)
      /\ Len(q.attempts) \in Nat /\ Len(q.attempts) <= MaxAttempts
      /\ DOMAIN q.attempts = 1..Len(q.attempts)
  BY Parts, LenProperties DEF Lawful, Shaped
<1>2. a \in 1..MaxAttempts
  BY <1>1, Bounds
<1>3. q.attempts[a] \in Attempts
  BY <1>1, ElementOfSeq
<1>4. s \in Stages
  BY <1>3 DEF Attempts
<1>5. /\ old \in StageStates /\ StageFits(old)
      /\ old.history \in Seq(1..MaxAttempts) /\ old.cursor \in Nat
      /\ old.cursor <= Len(old.history)
  BY <1>4, StageOf DEF Lawful, StageStates
<1>6. HistoryHolds(q, s)
  BY <1>4 DEF Lawful
<1>7. WithResult(q, a, s) = r
  BY DEF WithResult
<1>8. s = q.attempts[a].stage /\ old = q.stages[s]
  OBVIOUS
<1> HIDE DEF s, old
<1>9. Len(old.history) \in Nat /\ DOMAIN old.history = 1..Len(old.history)
  BY <1>5, LenProperties
<1>10. /\ kept \in Seq(1..MaxAttempts) /\ Len(kept) = old.cursor
       /\ \A i \in 1..old.cursor : kept[i] = old.history[i]
  BY <1>5, Prefix
<1> HIDE DEF kept
<1>11. /\ history \in Seq(1..MaxAttempts) /\ Len(history) = old.cursor + 1
       /\ \A i \in 1..old.cursor : history[i] = kept[i]
       /\ history[old.cursor + 1] = a
  BY <1>2, <1>10, AppendProperties
<1> HIDE DEF history
<1>12. DOMAIN history = 1..(old.cursor + 1)
  BY <1>11, LenProperties
<1>13. \A i \in DOMAIN history :
         \/ i \in DOMAIN old.history /\ history[i] = old.history[i]
         \/ i = old.cursor + 1 /\ history[i] = a
  <2> SUFFICES ASSUME NEW i \in DOMAIN history
               PROVE  \/ i \in DOMAIN old.history /\ history[i] = old.history[i]
                      \/ i = old.cursor + 1 /\ history[i] = a
    OBVIOUS
  <2>1. CASE i \in 1..old.cursor
    BY <1>5, <1>9, <1>10, <1>11, <2>1
  <2>2. CASE i = old.cursor + 1
    BY <1>11, <2>2
  <2> QED BY <1>5, <1>12, <2>1, <2>2
<1>14. /\ new \in StageStates /\ new.history = history
       /\ new.cursor = old.cursor + 1 /\ new.undo = old.undo
       /\ new.redo = old.redo /\ new.preview = old.preview
       /\ new.revision = old.revision /\ new.draft = old.draft
  <2>1. old.cursor + 1 \in Nat
    BY <1>5
  <2> DEFINE next == old.cursor + 1
  <2>2. next \in Nat
    BY <2>1
  <2>3. new = WithResults(old, history, next)
    BY DEF WithResults
  <2> HIDE DEF next
  <2>4. LET n == WithResults(old, history, next)
        IN /\ n \in StageStates /\ n.history = history
           /\ n.cursor = next /\ n.undo = old.undo
           /\ n.redo = old.redo /\ n.preview = old.preview
           /\ n.revision = old.revision /\ n.draft = old.draft
    <3>1. old \in StageStates /\ history \in Seq(1..MaxAttempts)
      BY <1>5, <1>11
    <3> QED BY <2>2, <3>1, SetResults
  <2> HIDE DEF new
  <2> QED BY <2>3, <2>4 DEF next
<1> HIDE DEF new
<1>15. StageFits(new)
  <2>1. new.cursor <= Len(new.history)
    BY <1>5, <1>11, <1>14
  <2> QED BY <1>5, <1>14, <2>1 DEF StageFits
<1>16. /\ r \in ProjectRows /\ r.sources = q.sources
       /\ r.attempts = q.attempts /\ r.base = q.base
       /\ r.stages[s] = new
       /\ \A t \in Stages \ {s} : r.stages[t] = q.stages[t]
  BY <1>1, <1>4, <1>14, SetStage
<1> HIDE DEF r
<1>17. a \notin Entries(old.history)
  BY <1>8
<1>18. HistoryHolds(r, s)
  <2>1. \A i \in DOMAIN history :
          /\ history[i] \in DOMAIN q.attempts
          /\ q.attempts[history[i]].stage = s
          /\ q.attempts[history[i]].state = "succeeded"
    BY <1>6, <1>8, <1>13 DEF HistoryHolds
  <2>2. ASSUME NEW i \in DOMAIN history, NEW j \in DOMAIN history,
               history[i] = history[j]
        PROVE  i = j
    <3>1. CASE i = old.cursor + 1 /\ j = old.cursor + 1
      BY <3>1
    <3>2. CASE /\ i \in DOMAIN old.history /\ history[i] = old.history[i]
               /\ j \in DOMAIN old.history /\ history[j] = old.history[j]
      BY <1>6, <1>8, <2>2, <3>2 DEF HistoryHolds
    <3> QED BY <1>13, <1>17, <2>2, <3>1, <3>2 DEF Entries
  <2> QED BY <1>14, <1>16, <2>1, <2>2 DEF HistoryHolds
<1>19. \A t \in Stages : StageFits(r.stages[t]) /\ HistoryHolds(r, t)
  <2> SUFFICES ASSUME NEW t \in Stages
               PROVE  StageFits(r.stages[t]) /\ HistoryHolds(r, t)
    OBVIOUS
  <2>1. CASE t = s
    BY <1>15, <1>16, <1>18, <2>1
  <2>2. CASE t # s
    BY <1>16, <2>2 DEF Lawful, HistoryHolds
  <2> QED BY <2>1, <2>2
<1>20. Shaped(r) /\ OneActive(r) /\ DevelopFits(r) /\ LightsAgree(r)
  BY <1>16
  DEF Lawful, Shaped, OneActive, Active, DevelopFits, LightsAgree, Lights
<1>21. Lawful(r)
  BY <1>19, <1>20 DEF Lawful
<1>22. r = WithResult(q, a, q.attempts[a].stage)
  BY <1>7, <1>8
<1> QED BY <1>16, <1>21, <1>22

StateFor(outcome) == IF outcome = "sha256" THEN "succeeded" ELSE "failed"

Settled(q, a, outcome) ==
  RestoreLineage(
    IF outcome = "sha256"
    THEN WithResult(WithState(q, a, StateFor(outcome)), a, q.attempts[a].stage)
    ELSE WithState(q, a, StateFor(outcome)))

(* Settle. *)
LEMMA AttemptSettled ==
  ASSUME NEW q, Whole(q), NEW a \in Active(q), NEW outcome
  PROVE  Moves(q, Settled(q, a, outcome), a, StateFor(outcome))
<1> DEFINE state == StateFor(outcome)
           ended == WithState(q, a, state)
           s == q.attempts[a].stage
           kept == IF outcome = "sha256" THEN WithResult(ended, a, s) ELSE ended
<1>1. state \in AttemptStates
  BY DEF AttemptStates, StateFor
<1>2. outcome = "sha256" => state = "succeeded"
  BY DEF StateFor
<1>3. a \in DOMAIN q.attempts /\ q.attempts[a].state # "succeeded"
  BY DEF Active
<1> HIDE DEF state
<1>4. /\ Whole(ended) /\ ended.stages = q.stages
      /\ DOMAIN ended.attempts = DOMAIN q.attempts
      /\ ended.attempts[a] = [q.attempts[a] EXCEPT !.state = state]
      /\ ended.attempts[a].state = state
      /\ ended.attempts[a].stage = s
      /\ ended.attempts[a].upstream = q.attempts[a].upstream
      /\ \A b \in DOMAIN q.attempts \ {a} : ended.attempts[b] = q.attempts[b]
  BY <1>1, AttemptMoved DEF Moves
<1> HIDE DEF ended
<1>5. s \in Stages
  <2>1. q.attempts \in Seq(Attempts)
    BY Parts DEF Whole, Lawful, Shaped
  <2>2. q.attempts[a] \in Attempts
    BY <1>3, <2>1, LenProperties, ElementOfSeq
  <2> QED BY <2>2 DEF Attempts
<1>6. a \notin Entries(q.stages[s].history)
  <2>1. HistoryHolds(q, s)
    BY <1>5 DEF Whole, Lawful
  <2> HIDE DEF s
  <2> QED BY <1>3, <2>1 DEF HistoryHolds, Entries
<1> HIDE DEF s
<1>7. Lawful(kept) /\ kept.attempts = ended.attempts
  <2>1. CASE outcome = "sha256"
    <3>1. /\ a \in DOMAIN ended.attempts
          /\ ended.attempts[a].state = "succeeded"
          /\ a \notin Entries(ended.stages[ended.attempts[a].stage].history)
      BY <1>2, <1>3, <1>4, <1>6, <2>1
    <3>2. LET r == WithResult(ended, a, ended.attempts[a].stage)
          IN Lawful(r) /\ r.attempts = ended.attempts
      BY <1>4, <3>1, ResultAdded DEF Whole
    <3> QED BY <1>4, <2>1, <3>2
  <2>2. CASE outcome # "sha256"
    BY <1>4, <2>2 DEF Whole
  <2> QED BY <2>1, <2>2
<1> HIDE DEF kept
<1>8. /\ Whole(RestoreLineage(kept))
      /\ RestoreLineage(kept).attempts = ended.attempts
  BY <1>7, RestoreFacts
<1> DEFINE r == RestoreLineage(kept)
<1>9. Whole(r) /\ r.attempts = ended.attempts
  BY <1>8
<1>10. Settled(q, a, outcome) = r
  BY DEF Settled, kept, ended, s, state
<1> HIDE DEF r
<1>11. Moves(q, r, a, state)
  BY <1>4, <1>9 DEF Moves, s
<1> QED BY <1>10, <1>11 DEF state

-----------------------------------------------------------------------------
(* Steps.                                                                   *)

\* What an attempt froze stays, and a settled attempt stays as it is.
Immutable ==
  \A p \in Existing : \A a \in DOMAIN project[p].attempts :
    LET before == project[p].attempts[a]
        after == project'[p].attempts[a]
    IN /\ after = [before EXCEPT !.state = after.state]
       /\ before.state \in {"succeeded", "failed"} => after = before

LEMMA AttemptAt ==
  ASSUME NEW q, Whole(q), NEW a \in DOMAIN q.attempts
  PROVE  /\ q.attempts[a] \in Attempts /\ a \in 1..MaxAttempts
         /\ q.attempts[a] = [q.attempts[a] EXCEPT !.state = q.attempts[a].state]
<1>1. /\ q.attempts \in Seq(Attempts) /\ Len(q.attempts) <= MaxAttempts
  BY Parts DEF Whole, Lawful, Shaped
<1>2. Len(q.attempts) \in Nat /\ DOMAIN q.attempts = 1..Len(q.attempts)
  BY <1>1, LenProperties
<1>3. q.attempts[a] \in Attempts
  BY <1>1, <1>2, ElementOfSeq
<1>4. a \in 1..MaxAttempts
  BY <1>1, <1>2, Bounds
<1>5. \A x \in Attempts : x = [x EXCEPT !.state = x.state]
  BY DEF Attempts
<1> QED BY <1>3, <1>4, <1>5

LEMMA Exists ==
  ASSUME NEW p \in Projects, project[p] # None
  PROVE  p \in Existing
BY DEF Existing

LEMMA WholeIsRow ==
  ASSUME NEW q, Whole(q)
  PROVE  q \in ProjectRows /\ q # None
BY ProjectAssumption DEF Whole, Lawful, Shaped

\* A project gets a new row.
LEMMA Replaced ==
  ASSUME Inv, NEW p \in Projects, NEW new, Whole(new),
         project' = [project EXCEPT ![p] = new]
  PROVE  /\ project' \in [Projects -> ProjectRows \cup {None}]
         /\ Existing' = Existing \cup {p}
         /\ project'[p] = new
         /\ \A o \in Projects \ {p} : project'[o] = project[o]
         /\ \A o \in Existing' : Whole(project'[o])
<1>1. project \in [Projects -> ProjectRows \cup {None}]
  BY DEF Inv, ProjectsOK
<1>2. new \in ProjectRows /\ new # None
  BY WholeIsRow
<1>3. project'[p] = new /\ \A o \in Projects \ {p} : project'[o] = project[o]
  BY <1>1
<1>4. Existing' = Existing \cup {p}
  BY <1>2, <1>3 DEF Existing
<1>5. \A o \in Existing : o \in Projects /\ Whole(project[o])
  BY DEF Inv, ProjectsOK, Existing
<1>6. \A o \in Existing' : Whole(project'[o])
  BY <1>3, <1>4, <1>5
<1> QED BY <1>1, <1>2, <1>3, <1>4, <1>6

\* Where no attempt moves, neither does what depends on them.
LEMMA SameAttempts ==
  ASSUME Inv, Existing' = Existing, UNCHANGED durable, UNCHANGED turn,
         \A p \in Existing : project'[p].attempts = project[p].attempts
  PROVE  WorkOK' /\ TurnOK' /\ KeptOK' /\ ReceiptsOK' /\ Immutable
<1>1. /\ receipts' = receipts /\ library' = library /\ artifact' = artifact
      /\ work' = work /\ file' = file /\ turn' = turn
  BY DEF durable
<1>2. WorkOK'
  BY <1>1 DEF Inv, WorkOK, AttemptOf, OutputOf
<1>3. TurnOK'
  BY <1>1 DEF Inv, TurnOK, Idle
<1>4. KeptOK'
  BY <1>1 DEF Inv, KeptOK
<1>5. ReceiptsOK'
  BY <1>1 DEF Inv, ReceiptsOK
<1>6. Immutable
  BY AttemptAt DEF Immutable, Inv, ProjectsOK
<1> QED BY <1>2, <1>3, <1>4, <1>5, <1>6

LEMMA RevisedInPlace ==
  ASSUME Inv, NEW c \in Clients, NEW p \in Projects, project[p] # None,
         NEW new, Whole(new), new.attempts = project[p].attempts,
         Revise(c, p, new), UNCHANGED durable, UNCHANGED turn
  PROVE  Inv' /\ Immutable
<1>1. project' = [project EXCEPT ![p] = new]
  BY DEF Revise
<1>2. p \in Existing
  BY Exists
<1>3. /\ project' \in [Projects -> ProjectRows \cup {None}]
      /\ Existing' = Existing /\ project'[p] = new
      /\ \A o \in Projects \ {p} : project'[o] = project[o]
      /\ \A o \in Existing' : Whole(project'[o])
  <2>1. /\ project' \in [Projects -> ProjectRows \cup {None}]
        /\ Existing' = Existing \cup {p} /\ project'[p] = new
        /\ \A o \in Projects \ {p} : project'[o] = project[o]
        /\ \A o \in Existing' : Whole(project'[o])
    BY <1>1, Replaced
  <2>2. Existing \cup {p} = Existing
    BY <1>2
  <2> QED BY <2>1, <2>2
<1>4. current' \subseteq Clients \X Projects
  BY DEF Revise, Inv, ProjectsOK
<1>5. ProjectsOK'
  BY <1>3, <1>4 DEF ProjectsOK
<1>6. \A o \in Existing : project'[o].attempts = project[o].attempts
  BY <1>3 DEF Existing
<1>7. WorkOK' /\ TurnOK' /\ KeptOK' /\ ReceiptsOK' /\ Immutable
  BY <1>3, <1>6, SameAttempts
<1> QED BY <1>5, <1>7 DEF Inv

LEMMA InvInit == Init => Inv
<1> SUFFICES ASSUME Init PROVE Inv
  OBVIOUS
<1>1. Existing = {}
  BY DEF Init, Existing
<1>2. ProjectsOK
  BY <1>1 DEF Init, ProjectsOK
<1>3. WorkOK
  <2>1. work = <<>> /\ DOMAIN work = {}
    BY DEF Init
  <2> QED BY <1>1, <2>1, EmptySeq DEF WorkOK
<1>4. TurnOK /\ KeptOK /\ ReceiptsOK
  BY <1>1 DEF Init, TurnOK, KeptOK, ReceiptsOK
<1> QED BY <1>2, <1>3, <1>4 DEF Inv

\* A row of the queue is of an attempt of a project that exists.
LEMMA RowAt ==
  ASSUME Inv, NEW i \in DOMAIN work
  PROVE  /\ work[i].project \in Existing /\ work[i].project \in Projects
         /\ work[i].attempt \in DOMAIN project[work[i].project].attempts
         /\ work[i].attempt \in 1..MaxAttempts
         /\ work[i].state = RowState[AttemptOf(work[i]).state]
         /\ OutputOf(work[i]) \in Outputs
         /\ Whole(project[work[i].project])
<1>1. /\ work[i].project \in Existing
      /\ work[i].attempt \in DOMAIN project[work[i].project].attempts
      /\ work[i].state = RowState[AttemptOf(work[i]).state]
  BY DEF Inv, WorkOK
<1>2. Whole(project[work[i].project]) /\ work[i].project \in Projects
  BY <1>1 DEF Inv, ProjectsOK, Existing
<1>3. work[i].attempt \in 1..MaxAttempts
  BY <1>1, <1>2, AttemptAt
<1> QED BY <1>1, <1>2, <1>3 DEF OutputOf, Outputs

\* The state of one attempt moves, and no other attempt does.
MovedTo(output, state) ==
  /\ Existing' = Existing
  /\ \A p \in Existing :
       /\ DOMAIN project'[p].attempts = DOMAIN project[p].attempts
       /\ \A a \in DOMAIN project[p].attempts :
            /\ project'[p].attempts[a].stage = project[p].attempts[a].stage
            /\ project'[p].attempts[a].upstream =
                 project[p].attempts[a].upstream
            /\ project'[p].attempts[a].state =
                 IF <<p, a>> = output THEN state
                                      ELSE project[p].attempts[a].state

\* Claim, Settle: an active attempt and its row move together.
LEMMA RowMoved ==
  ASSUME Inv, NEW i \in DOMAIN work, NEW state \in AttemptStates, NEW new,
         NEW p, NEW a, work[i].project = p, work[i].attempt = a,
         project[p].attempts[a].state \in {"queued", "running"},
         Moves(project[p], new, a, state), WorkerRevises(p, new),
         work' = [work EXCEPT ![i].state = RowState[state]]
  PROVE  /\ ProjectsOK' /\ WorkOK' /\ Immutable /\ MovedTo(<<p, a>>, state)
         /\ work'[i].state = RowState[state] /\ DOMAIN work' = DOMAIN work
<1>1. /\ p \in Existing /\ p \in Projects
      /\ a \in DOMAIN project[p].attempts /\ a \in 1..MaxAttempts
      /\ Whole(project[p])
  BY RowAt
<1>2. /\ new.attempts[a] = [project[p].attempts[a] EXCEPT !.state = state]
      /\ new.attempts[a].state = state
      /\ project[p].attempts[a].state \in {"queued", "running"}
      /\ DOMAIN new.attempts = DOMAIN project[p].attempts
      /\ new.attempts[a].stage = project[p].attempts[a].stage
      /\ new.attempts[a].upstream = project[p].attempts[a].upstream
      /\ \A b \in DOMAIN new.attempts \ {a} :
           new.attempts[b] = project[p].attempts[b]
      /\ Whole(new)
  BY DEF Moves
<1>3. project' = [project EXCEPT ![p] = new]
  BY DEF WorkerRevises
<1>4. current' \subseteq Clients \X Projects
  BY DEF WorkerRevises, Inv, ProjectsOK
<1>5. OutputOf(work[i]) = <<p, a>>
  BY DEF OutputOf
<1> DEFINE row == [work[i] EXCEPT !.state = RowState[state]]
<1>6. work' = [work EXCEPT ![i] = row]
  OBVIOUS
<1>7. /\ row.project = p /\ row.attempt = a /\ row.state = RowState[state]
      /\ row \in WorkRows
  <2>1. work[i] \in WorkRows
    BY LenProperties, ElementOfSeq DEF Inv, WorkOK
  <2>2. RowState[state] \in {"pending", "claimed", "settled", "failed"}
    BY DEF RowState, AttemptStates
  <2> QED BY <2>1, <2>2 DEF WorkRows
<1> HIDE DEF row
<1>8. /\ project' \in [Projects -> ProjectRows \cup {None}]
      /\ Existing' = Existing /\ project'[p] = new
      /\ \A o \in Projects \ {p} : project'[o] = project[o]
      /\ \A o \in Existing' : Whole(project'[o])
  <2>1. /\ project' \in [Projects -> ProjectRows \cup {None}]
        /\ Existing' = Existing \cup {p} /\ project'[p] = new
        /\ \A o \in Projects \ {p} : project'[o] = project[o]
        /\ \A o \in Existing' : Whole(project'[o])
    BY <1>1, <1>2, <1>3, Replaced
  <2>2. Existing \cup {p} = Existing
    BY <1>1
  <2> QED BY <2>1, <2>2
<1>9. ProjectsOK'
  BY <1>4, <1>8 DEF ProjectsOK
<1>10. /\ \A o \in Existing :
            DOMAIN project'[o].attempts = DOMAIN project[o].attempts
       /\ \A o \in Existing : \A b \in DOMAIN project[o].attempts :
            <<o, b>> # <<p, a>> =>
              project'[o].attempts[b] = project[o].attempts[b]
  <2> SUFFICES ASSUME NEW o \in Existing
               PROVE  /\ DOMAIN project'[o].attempts = DOMAIN project[o].attempts
                      /\ \A b \in DOMAIN project[o].attempts :
                           <<o, b>> # <<p, a>> =>
                             project'[o].attempts[b] = project[o].attempts[b]
    OBVIOUS
  <2>1. CASE o = p
    BY <1>2, <1>8, <2>1
  <2>2. CASE o # p
    BY <1>8, <2>2 DEF Existing
  <2> QED BY <2>1, <2>2
<1>11. project'[p].attempts[a].state = state
  BY <1>2, <1>8
<1>12. /\ DOMAIN work' = DOMAIN work /\ work'[i] = row
       /\ \A j \in DOMAIN work \ {i} : work'[j] = work[j]
       /\ work' \in Seq(WorkRows)
  <2>1. work \in Seq(WorkRows) /\ row \in WorkRows
    BY <1>7 DEF Inv, WorkOK
  <2>2. DOMAIN work = 1..Len(work)
    BY <2>1, LenProperties
  <2>3. work' \in Seq(WorkRows)
    BY <1>6, <2>1, <2>2, ExceptSeq
  <2>4. /\ DOMAIN work' = DOMAIN work /\ work'[i] = row
        /\ \A j \in DOMAIN work \ {i} : work'[j] = work[j]
    BY <1>6
  <2> QED BY <2>3, <2>4
<1>13. \A j \in DOMAIN work : /\ work'[j].project = work[j].project
                            /\ work'[j].attempt = work[j].attempt
  <2>1. work'[i].project = work[i].project /\ work'[i].attempt = work[i].attempt
    BY <1>7, <1>12
  <2> QED BY <1>12, <2>1
<1>14. WorkOK'
  <2>1. \A j, k \in DOMAIN work' :
          OutputOf(work'[j]) = OutputOf(work'[k]) => j = k
    <3>1. \A j, k \in DOMAIN work : OutputOf(work[j]) = OutputOf(work[k]) => j = k
      BY DEF Inv, WorkOK
    <3>2. \A j \in DOMAIN work : OutputOf(work'[j]) = OutputOf(work[j])
      BY <1>13 DEF OutputOf
    <3> QED BY <1>12, <3>1, <3>2
  <2>2. \A o \in Existing' : \A b \in DOMAIN project'[o].attempts :
          \E j \in DOMAIN work' : OutputOf(work'[j]) = <<o, b>>
    <3>1. \A o \in Existing : \A b \in DOMAIN project[o].attempts :
            \E j \in DOMAIN work : OutputOf(work[j]) = <<o, b>>
      BY DEF Inv, WorkOK
    <3>2. \A j \in DOMAIN work : OutputOf(work'[j]) = OutputOf(work[j])
      BY <1>13 DEF OutputOf
    <3> SUFFICES ASSUME NEW o \in Existing, NEW b \in DOMAIN project[o].attempts
                 PROVE  \E j \in DOMAIN work' : OutputOf(work'[j]) = <<o, b>>
      BY <1>8, <1>10
    <3>3. PICK j \in DOMAIN work : OutputOf(work[j]) = <<o, b>>
      BY <3>1
    <3> QED BY <1>12, <3>2, <3>3
  <2>3. ASSUME NEW j \in DOMAIN work'
        PROVE  /\ work'[j].project \in Existing'
               /\ work'[j].attempt \in
                    DOMAIN project'[work'[j].project].attempts
               /\ work'[j].state =
                    RowState[project'[work'[j].project].attempts[
                               work'[j].attempt].state]
    <3>1. /\ work[j].project \in Existing
          /\ work[j].attempt \in DOMAIN project[work[j].project].attempts
          /\ work[j].state = RowState[AttemptOf(work[j]).state]
      BY <1>12, RowAt
    <3>2. CASE j = i
      BY <1>1, <1>7, <1>8, <1>10, <1>11, <1>12, <3>2
    <3>3. CASE j # i
      <4>1. work'[j] = work[j]
        BY <1>12, <3>3
      <4> DEFINE o == work[j].project
                 b == work[j].attempt
      <4>2. OutputOf(work[j]) # OutputOf(work[i])
        <5>1. j \in DOMAIN work
          BY <1>12
        <5> QED BY <3>3, <5>1 DEF Inv, WorkOK
      <4>3. <<o, b>> # <<p, a>>
        BY <1>5, <4>2 DEF OutputOf
      <4>4. /\ o \in Existing /\ b \in DOMAIN project[o].attempts
            /\ work[j].state = RowState[project[o].attempts[b].state]
        BY <3>1 DEF AttemptOf
      <4>5. work'[j].project = o /\ work'[j].attempt = b
            /\ work'[j].state = work[j].state
        BY <4>1
      <4> HIDE DEF o, b
      <4>6. project'[o].attempts[b] = project[o].attempts[b]
        BY <1>10, <4>3, <4>4
      <4> QED BY <1>8, <1>10, <4>4, <4>5, <4>6
    <3> QED BY <3>2, <3>3
  <2> QED BY <1>12, <2>1, <2>2, <2>3 DEF WorkOK, AttemptOf, OutputOf
<1>15. Immutable
  <2> SUFFICES ASSUME NEW o \in Existing,
                      NEW b \in DOMAIN project[o].attempts
               PROVE  LET before == project[o].attempts[b]
                          after == project'[o].attempts[b]
                      IN /\ after = [before EXCEPT !.state = after.state]
                         /\ before.state \in {"succeeded", "failed"} =>
                              after = before
    BY DEF Immutable
  <2>1. CASE <<o, b>> = <<p, a>>
    BY <1>2, <1>8, <2>1
  <2>2. CASE <<o, b>> # <<p, a>>
    <3>1. project'[o].attempts[b] = project[o].attempts[b]
      BY <1>10, <2>2
    <3>2. Whole(project[o])
      BY DEF Inv, ProjectsOK
    <3> DEFINE x == project[o].attempts[b]
    <3>3. x = [x EXCEPT !.state = x.state]
      BY <3>2, AttemptAt
    <3> HIDE DEF x
    <3>4. project'[o].attempts[b] = x /\ project[o].attempts[b] = x
      BY <3>1 DEF x
    <3> QED BY <3>3, <3>4
  <2> QED BY <2>1, <2>2
<1>16. MovedTo(<<p, a>>, state)
  <2>1. ASSUME NEW o \in Existing, NEW b \in DOMAIN project[o].attempts
        PROVE  /\ project'[o].attempts[b].stage = project[o].attempts[b].stage
               /\ project'[o].attempts[b].upstream =
                    project[o].attempts[b].upstream
               /\ project'[o].attempts[b].state =
                    IF <<o, b>> = <<p, a>> THEN state
                                           ELSE project[o].attempts[b].state
    <3>1. CASE <<o, b>> = <<p, a>>
      <4>1. o = p /\ b = a
        BY <3>1
      <4> QED BY <1>2, <1>8, <4>1
    <3>2. CASE <<o, b>> # <<p, a>>
      BY <1>10, <3>2
    <3> QED BY <3>1, <3>2
  <2> QED BY <1>8, <1>10, <2>1 DEF MovedTo
<1> QED BY <1>7, <1>9, <1>12, <1>14, <1>15, <1>16

\* Until it has succeeded, nothing depends on an attempt.
LEMMA KeptMoved ==
  ASSUME Inv, NEW p \in Existing, NEW a \in DOMAIN project[p].attempts,
         project[p].attempts[a].state # "succeeded",
         NEW state, MovedTo(<<p, a>>, state),
         library' = library, file' = file,
         artifact' \in [Outputs -> {"absent", "working", "saved"}],
         \A o \in Outputs \ {<<p, a>>} : artifact'[o] = artifact[o],
         state = "succeeded" =>
           file[<<p, a>>] = "final" /\ artifact'[<<p, a>>] # "absent"
  PROVE  KeptOK'
<1>1. /\ Existing' = Existing
      /\ \A o \in Existing :
           DOMAIN project'[o].attempts = DOMAIN project[o].attempts
      /\ \A o \in Existing : \A b \in DOMAIN project[o].attempts :
           /\ project'[o].attempts[b].stage = project[o].attempts[b].stage
           /\ project'[o].attempts[b].upstream =
                project[o].attempts[b].upstream
           /\ project'[o].attempts[b].state =
                IF <<o, b>> = <<p, a>> THEN state
                                       ELSE project[o].attempts[b].state
  BY DEF MovedTo
<1>2. ASSUME NEW o \in Existing, NEW b \in DOMAIN project[o].attempts
      PROVE  /\ project'[o].attempts[b].state = "succeeded" =>
                  file[<<o, b>>] = "final" /\ artifact'[<<o, b>>] # "absent"
             /\ project'[o].attempts[b].stage = "Develop" =>
                  <<o, project'[o].attempts[b].upstream>> \in library
  <2>1. /\ project[o].attempts[b].state = "succeeded" =>
             file[<<o, b>>] = "final" /\ artifact[<<o, b>>] # "absent"
        /\ project[o].attempts[b].stage = "Develop" =>
             <<o, project[o].attempts[b].upstream>> \in library
    BY DEF Inv, KeptOK
  <2>2. <<o, b>> \in Outputs
    BY AttemptAt DEF Outputs, Inv, ProjectsOK, Existing
  <2>3. CASE <<o, b>> = <<p, a>>
    BY <1>1, <2>1, <2>3
  <2>4. CASE <<o, b>> # <<p, a>>
    BY <1>1, <2>1, <2>2, <2>4
  <2> QED BY <2>3, <2>4
<1>3. ASSUME NEW o \in library
      PROVE  /\ o \in Outputs /\ o[1] \in Existing
             /\ o[2] \in DOMAIN project[o[1]].attempts
             /\ project'[o[1]].attempts[o[2]].state = "succeeded"
             /\ artifact'[o] = "saved"
  <2>1. /\ o \in Outputs /\ o[1] \in Existing
        /\ o[2] \in DOMAIN project[o[1]].attempts
        /\ project[o[1]].attempts[o[2]].state = "succeeded"
        /\ artifact[o] = "saved"
    BY DEF Inv, KeptOK
  <2>2. o = <<o[1], o[2]>>
    BY <2>1 DEF Outputs
  <2>3. o # <<p, a>>
    BY <2>1
  <2>4. <<o[1], o[2]>> # <<p, a>>
    BY <2>2, <2>3
  <2> QED BY <1>1, <2>1, <2>3, <2>4
<1>4. file \in [Outputs -> {"absent", "temporary", "final", "torn"}]
  BY DEF Inv, KeptOK
<1> QED BY <1>1, <1>2, <1>3, <1>4 DEF KeptOK

LEMMA StepClaim ==
  ASSUME Inv, NEW i \in DOMAIN work, Claim(i)
  PROVE  Inv' /\ Immutable
<1> DEFINE p == work[i].project
           a == work[i].attempt
           q == project[p]
           new == WithState(q, a, "running")
<1>1. p \in Existing /\ a \in DOMAIN q.attempts /\ Whole(q)
  BY RowAt
<1>2. /\ q.attempts[a].state = "queued"
      /\ work' = [work EXCEPT ![i].state = "claimed"]
      /\ WorkerRevises(p, new) /\ turn' = [at |-> "claimed", row |-> i]
      /\ receipts' = receipts /\ library' = library /\ artifact' = artifact
      /\ file' = file
  BY DEF Claim, WithState
<1>3. work[i].project = p /\ work[i].attempt = a
  OBVIOUS
<1>4. a \in Active(q) /\ "running" \in AttemptStates
  BY <1>1, <1>2 DEF Active, AttemptStates
<1> HIDE DEF p, a
<1>5. Moves(q, new, a, "running")
  BY <1>1, <1>4, AttemptMoved
<1>6. work' = [work EXCEPT ![i].state = RowState["running"]]
  BY <1>2 DEF RowState
<1> HIDE DEF new
<1>7. /\ ProjectsOK' /\ WorkOK' /\ Immutable /\ MovedTo(<<p, a>>, "running")
      /\ work'[i].state = RowState["running"] /\ DOMAIN work' = DOMAIN work
  <2>1. q.attempts[a].state \in {"queued", "running"}
    BY <1>2
  <2>2. WorkerRevises(p, new)
    BY <1>2
  <2> QED BY <1>3, <1>4, <1>5, <1>6, <2>1, <2>2, RowMoved
<1>8. ReceiptsOK'
  BY <1>2, <1>7 DEF Inv, ReceiptsOK, MovedTo
<1>9. TurnOK'
  BY <1>2, <1>7 DEF TurnOK, RowState
<1>10. KeptOK'
  <2>1. artifact' \in [Outputs -> {"absent", "working", "saved"}]
    BY <1>2 DEF Inv, KeptOK
  <2>2. \A o \in Outputs \ {<<p, a>>} : artifact'[o] = artifact[o]
    BY <1>2
  <2> QED BY <1>1, <1>2, <1>7, <2>1, <2>2, KeptMoved
<1> QED BY <1>7, <1>8, <1>9, <1>10 DEF Inv

LEMMA StepSettle ==
  ASSUME Inv, NEW outcome, Settle(outcome)
  PROVE  Inv' /\ Immutable
<1> DEFINE i == turn.row
           p == work[i].project
           a == work[i].attempt
           q == project[p]
           state == StateFor(outcome)
           new == Settled(q, a, outcome)
<1>1. i \in DOMAIN work
  <2>1. turn.at = "claimed"
    BY DEF Settle
  <2>2. turn # Idle
    BY <2>1 DEF Idle
  <2> QED BY <2>2 DEF Inv, TurnOK
<1>2. /\ file[OutputOf(work[i])] = "final"
      /\ q.attempts[a].state = "running" /\ WorkerRevises(p, new)
      /\ work' = [work EXCEPT ![i].state =
                    IF outcome = "sha256" THEN "settled" ELSE "failed"]
      /\ artifact' = [artifact EXCEPT ![OutputOf(work[i])] = "working"]
      /\ turn' = Idle
      /\ receipts' = receipts /\ library' = library /\ file' = file
  BY DEF Settle, Settled, WithState, StateFor
<1>3. work[i].project = p /\ work[i].attempt = a /\ OutputOf(work[i]) = <<p, a>>
  BY DEF OutputOf
<1>4. /\ p \in Existing /\ a \in DOMAIN q.attempts /\ Whole(q)
      /\ <<p, a>> \in Outputs
  BY <1>1, <1>3, RowAt
<1>5. a \in Active(q)
  BY <1>2, <1>4 DEF Active
<1> HIDE DEF p, a, i
<1>6. Moves(q, new, a, state)
  BY <1>4, <1>5, AttemptSettled
<1>7. /\ state \in AttemptStates
      /\ RowState[state] = IF outcome = "sha256" THEN "settled" ELSE "failed"
  BY DEF AttemptStates, RowState, StateFor
<1> HIDE DEF new, state
<1>8. work' = [work EXCEPT ![i].state = RowState[state]]
  BY <1>2, <1>7
<1>9. /\ ProjectsOK' /\ WorkOK' /\ Immutable /\ MovedTo(<<p, a>>, state)
      /\ work'[i].state = RowState[state] /\ DOMAIN work' = DOMAIN work
  <2>1. q.attempts[a].state \in {"queued", "running"}
    BY <1>2
  <2>2. WorkerRevises(p, new)
    BY <1>2
  <2> QED BY <1>1, <1>3, <1>6, <1>7, <1>8, <2>1, <2>2, RowMoved
<1>10. ReceiptsOK'
  BY <1>2, <1>9 DEF Inv, ReceiptsOK, MovedTo
<1>11. TurnOK'
  BY <1>2 DEF TurnOK, Idle
<1>12. KeptOK'
  <2>1. artifact \in [Outputs -> {"absent", "working", "saved"}]
    BY DEF Inv, KeptOK
  <2>2. /\ artifact' \in [Outputs -> {"absent", "working", "saved"}]
        /\ \A o \in Outputs \ {<<p, a>>} : artifact'[o] = artifact[o]
        /\ artifact'[<<p, a>>] = "working"
    BY <1>2, <1>3, <1>4, <2>1
  <2>3. q.attempts[a].state # "succeeded" /\ file[<<p, a>>] = "final"
    BY <1>2, <1>3
  <2>4. library' = library /\ file' = file
    BY <1>2
  <2> QED BY <1>4, <1>9, <2>2, <2>3, <2>4, KeptMoved
<1> QED BY <1>9, <1>10, <1>11, <1>12 DEF Inv

LEMMA StepEnqueue ==
  ASSUME Inv, NEW c \in Clients, NEW p \in Projects, Changeable(c, p),
         NEW s, NEW frozen, Enqueue(c, p, s, frozen),
         [frozen EXCEPT !.state = "queued"] \in Attempts,
         LET new == [frozen EXCEPT !.state = "queued"]
         IN new.state = "queued" /\
              (new.stage = "Develop" =>
                 /\ project[p].base # 0
                 /\ new.preview.draft = new.draft
                 /\ new.preview.input = new.upstream
                 /\ <<p, new.upstream>> \in library)
  PROVE  Inv' /\ Immutable
<1> DEFINE q == project[p]
           new == [frozen EXCEPT !.state = "queued"]
           r == [q EXCEPT !.attempts = Append(@, new)]
           n == Len(q.attempts) + 1
           row == [project |-> p, attempt |-> n, state |-> "pending"]
<1>1. /\ Len(q.attempts) < MaxAttempts /\ Revise(c, p, r)
      /\ work' = Append(work, row) /\ receipts' = receipts
      /\ library' = library /\ artifact' = artifact /\ file' = file
      /\ turn' = turn
  BY DEF Enqueue, Room
<1>2. q # None /\ Active(q) = {} /\ turn = Idle /\ p \in Existing
  BY Exists DEF Changeable
<1>3. /\ new \in Attempts /\ new.state = "queued"
      /\ new.stage = "Develop" => /\ q.base # 0
                                  /\ new.preview.draft = new.draft
                                  /\ new.preview.input = new.upstream
                                  /\ <<p, new.upstream>> \in library
  OBVIOUS
<1>4. Whole(q)
  BY <1>2 DEF Inv, ProjectsOK
<1> HIDE DEF new
<1>5. /\ Whole(r) /\ DOMAIN r.attempts = DOMAIN q.attempts \cup {n}
      /\ r.attempts[n] = new
      /\ \A b \in DOMAIN q.attempts : r.attempts[b] = q.attempts[b]
  <2>1. Len(q.attempts) < MaxAttempts
    BY <1>1
  <2>2. new.stage = "Develop" => /\ q.base # 0
                                /\ new.preview.draft = new.draft
                                /\ new.preview.input = new.upstream
    BY <1>3
  <2> HIDE DEF q
  <2>3. r = Appended(q, new)
    BY DEF Appended
  <2> HIDE DEF r
  <2> QED BY <1>2, <1>3, <1>4, <2>1, <2>2, <2>3, AttemptAppended
<1> HIDE DEF r
<1>6. project' = [project EXCEPT ![p] = r]
  BY <1>1 DEF Revise
<1>7. current' \subseteq Clients \X Projects
  BY <1>1 DEF Revise, Inv, ProjectsOK
<1>8. /\ project' \in [Projects -> ProjectRows \cup {None}]
      /\ Existing' = Existing /\ project'[p] = r
      /\ \A o \in Projects \ {p} : project'[o] = project[o]
      /\ \A o \in Existing' : Whole(project'[o])
  <2>1. /\ project' \in [Projects -> ProjectRows \cup {None}]
        /\ Existing' = Existing \cup {p} /\ project'[p] = r
        /\ \A o \in Projects \ {p} : project'[o] = project[o]
        /\ \A o \in Existing' : Whole(project'[o])
    BY <1>5, <1>6, Replaced
  <2>2. Existing \cup {p} = Existing
    BY <1>2
  <2> QED BY <2>1, <2>2
<1>9. ProjectsOK'
  BY <1>7, <1>8 DEF ProjectsOK
<1>10. /\ n \notin DOMAIN q.attempts /\ n \in 1..MaxAttempts
  <2>1. q.attempts \in Seq(Attempts)
    BY <1>4, Parts DEF Whole, Lawful, Shaped
  <2>2. Len(q.attempts) \in Nat /\ DOMAIN q.attempts = 1..Len(q.attempts)
    BY <2>1, LenProperties
  <2> QED BY <1>1, <2>2, Bounds
<1> HIDE DEF n
<1>11. \A o \in Existing : \A b \in DOMAIN project[o].attempts :
         /\ b \in DOMAIN project'[o].attempts /\ <<o, b>> # <<p, n>>
         /\ project'[o].attempts[b] = project[o].attempts[b]
  <2> SUFFICES ASSUME NEW o \in Existing, NEW b \in DOMAIN project[o].attempts
               PROVE  /\ b \in DOMAIN project'[o].attempts
                      /\ <<o, b>> # <<p, n>>
                      /\ project'[o].attempts[b] = project[o].attempts[b]
    OBVIOUS
  <2>1. CASE o = p
    BY <1>5, <1>8, <1>10, <2>1
  <2>2. CASE o # p
    BY <1>8, <2>2 DEF Existing
  <2> QED BY <2>1, <2>2
<1>12. \A o \in Existing : \A b \in DOMAIN project'[o].attempts :
         \/ b \in DOMAIN project[o].attempts
         \/ o = p /\ b = n /\ project'[o].attempts[b] = new
  <2> SUFFICES ASSUME NEW o \in Existing, NEW b \in DOMAIN project'[o].attempts
               PROVE  \/ b \in DOMAIN project[o].attempts
                      \/ o = p /\ b = n /\ project'[o].attempts[b] = new
    OBVIOUS
  <2>1. CASE o = p
    BY <1>5, <1>8, <2>1
  <2>2. CASE o # p
    BY <1>8, <2>2 DEF Existing
  <2> QED BY <2>1, <2>2
<1>13. row \in WorkRows /\ OutputOf(row) = <<p, n>> /\ row.project = p
       /\ row.attempt = n /\ row.state = "pending"
  BY <1>10 DEF WorkRows, OutputOf
<1> HIDE DEF row
<1> DEFINE m == Len(work) + 1
<1>14. /\ work' \in Seq(WorkRows) /\ DOMAIN work' = DOMAIN work \cup {m}
       /\ m \notin DOMAIN work /\ work'[m] = row
       /\ \A j \in DOMAIN work : work'[j] = work[j]
  <2>1. work \in Seq(WorkRows)
    BY DEF Inv, WorkOK
  <2>2. Len(work) \in Nat /\ DOMAIN work = 1..Len(work)
    BY <2>1, LenProperties
  <2>3. /\ work' \in Seq(WorkRows) /\ Len(work') = m /\ work'[m] = row
        /\ \A j \in 1..Len(work) : work'[j] = work[j]
    BY <1>1, <1>13, <2>1, AppendProperties
  <2>4. DOMAIN work' = 1..m
    BY <2>3, LenProperties
  <2> QED BY <2>2, <2>3, <2>4
<1> HIDE DEF m
<1>15. WorkOK'
  <2>1. \A j \in DOMAIN work :
          /\ OutputOf(work[j]) # <<p, n>>
          /\ OutputOf(work'[j]) = OutputOf(work[j])
    <3> SUFFICES ASSUME NEW j \in DOMAIN work
                 PROVE  /\ OutputOf(work[j]) # <<p, n>>
                        /\ OutputOf(work'[j]) = OutputOf(work[j])
      OBVIOUS
    <3> DEFINE o == work[j].project
               b == work[j].attempt
    <3>1. o \in Existing /\ b \in DOMAIN project[o].attempts
      BY RowAt
    <3>2. OutputOf(work[j]) = <<o, b>>
      BY DEF OutputOf
    <3> HIDE DEF o, b
    <3> QED BY <1>11, <1>14, <3>1, <3>2
  <2>2. OutputOf(work'[m]) = <<p, n>>
    BY <1>13, <1>14
  <2>3. \A j, k \in DOMAIN work' :
          OutputOf(work'[j]) = OutputOf(work'[k]) => j = k
    <3>1. \A j, k \in DOMAIN work : OutputOf(work[j]) = OutputOf(work[k]) => j = k
      BY DEF Inv, WorkOK
    <3> QED BY <1>14, <2>1, <2>2, <3>1
  <2>4. \A o \in Existing' : \A b \in DOMAIN project'[o].attempts :
          \E j \in DOMAIN work' : OutputOf(work'[j]) = <<o, b>>
    <3>1. \A o \in Existing : \A b \in DOMAIN project[o].attempts :
            \E j \in DOMAIN work : OutputOf(work[j]) = <<o, b>>
      BY DEF Inv, WorkOK
    <3> SUFFICES ASSUME NEW o \in Existing, NEW b \in DOMAIN project'[o].attempts
                 PROVE  \E j \in DOMAIN work' : OutputOf(work'[j]) = <<o, b>>
      BY <1>8
    <3>2. CASE b \in DOMAIN project[o].attempts
      <4>1. PICK j \in DOMAIN work : OutputOf(work[j]) = <<o, b>>
        BY <3>1, <3>2
      <4> QED BY <1>14, <2>1, <4>1
    <3>3. CASE o = p /\ b = n
      BY <1>14, <2>2, <3>3
    <3> QED BY <1>12, <3>2, <3>3
  <2>5. ASSUME NEW j \in DOMAIN work'
        PROVE  /\ work'[j].project \in Existing'
               /\ work'[j].attempt \in
                    DOMAIN project'[work'[j].project].attempts
               /\ work'[j].state =
                    RowState[project'[work'[j].project].attempts[
                               work'[j].attempt].state]
    <3>1. CASE j \in DOMAIN work
      <4> DEFINE o == work[j].project
                 b == work[j].attempt
      <4>1. /\ o \in Existing /\ b \in DOMAIN project[o].attempts
            /\ work[j].state = RowState[project[o].attempts[b].state]
        BY <3>1, RowAt DEF AttemptOf
      <4>2. work'[j].project = o /\ work'[j].attempt = b
            /\ work'[j].state = work[j].state
        BY <1>14, <3>1
      <4> HIDE DEF o, b
      <4> QED BY <1>8, <1>11, <4>1, <4>2
    <3>2. CASE j = m
      <4>1. /\ work'[j].project = p /\ work'[j].attempt = n
            /\ work'[j].state = "pending"
        BY <1>13, <1>14, <3>2
      <4>2. /\ n \in DOMAIN project'[p].attempts
            /\ project'[p].attempts[n].state = "queued"
        BY <1>3, <1>5, <1>8
      <4>3. RowState["queued"] = "pending"
        BY DEF RowState
      <4> QED BY <1>2, <1>8, <4>1, <4>2, <4>3
    <3> QED BY <1>14, <3>1, <3>2
  <2> QED BY <1>14, <2>3, <2>4, <2>5 DEF WorkOK, AttemptOf, OutputOf
<1>16. KeptOK'
  <2>1. ASSUME NEW o \in Existing, NEW b \in DOMAIN project'[o].attempts
        PROVE  /\ project'[o].attempts[b].state = "succeeded" =>
                    file[<<o, b>>] = "final" /\ artifact[<<o, b>>] # "absent"
               /\ project'[o].attempts[b].stage = "Develop" =>
                    <<o, project'[o].attempts[b].upstream>> \in library
    <3>1. CASE b \in DOMAIN project[o].attempts
      <4>1. /\ project[o].attempts[b].state = "succeeded" =>
                 file[<<o, b>>] = "final" /\ artifact[<<o, b>>] # "absent"
            /\ project[o].attempts[b].stage = "Develop" =>
                 <<o, project[o].attempts[b].upstream>> \in library
        BY <3>1 DEF Inv, KeptOK
      <4> QED BY <1>11, <3>1, <4>1
    <3>2. CASE o = p /\ b = n /\ project'[o].attempts[b] = new
      BY <1>3, <3>2
    <3> QED BY <1>12, <3>1, <3>2
  <2>2. ASSUME NEW o \in library
        PROVE  /\ o \in Outputs /\ o[1] \in Existing
               /\ o[2] \in DOMAIN project'[o[1]].attempts
               /\ project'[o[1]].attempts[o[2]].state = "succeeded"
               /\ artifact[o] = "saved"
    <3>1. /\ o \in Outputs /\ o[1] \in Existing
          /\ o[2] \in DOMAIN project[o[1]].attempts
          /\ project[o[1]].attempts[o[2]].state = "succeeded"
          /\ artifact[o] = "saved"
      BY DEF Inv, KeptOK
    <3> QED BY <1>11, <3>1
  <2>3. /\ artifact \in [Outputs -> {"absent", "working", "saved"}]
        /\ file \in [Outputs -> {"absent", "temporary", "final", "torn"}]
    BY DEF Inv, KeptOK
  <2> QED BY <1>1, <1>8, <2>1, <2>2, <2>3 DEF KeptOK
<1>17. TurnOK'
  BY <1>1, <1>2 DEF TurnOK, Idle
<1>18. ReceiptsOK'
  BY <1>1, <1>8 DEF Inv, ReceiptsOK
<1>19. Immutable
  <2> SUFFICES ASSUME NEW o \in Existing,
                      NEW b \in DOMAIN project[o].attempts
               PROVE  LET before == project[o].attempts[b]
                          after == project'[o].attempts[b]
                      IN /\ after = [before EXCEPT !.state = after.state]
                         /\ before.state \in {"succeeded", "failed"} =>
                              after = before
    BY DEF Immutable
  <2> DEFINE x == project[o].attempts[b]
  <2>1. Whole(project[o])
    BY DEF Inv, ProjectsOK
  <2>2. x = [x EXCEPT !.state = x.state]
    BY <2>1, AttemptAt
  <2> HIDE DEF x
  <2>3. project'[o].attempts[b] = x /\ project[o].attempts[b] = x
    BY <1>11 DEF x
  <2> QED BY <2>2, <2>3
<1> QED BY <1>9, <1>15, <1>16, <1>17, <1>18, <1>19 DEF Inv

\* What every intent of a client finds.
LEMMA ChangeFacts ==
  ASSUME Inv, NEW c \in Clients, NEW p \in Projects, Changeable(c, p)
  PROVE  /\ project[p] # None /\ p \in Existing /\ Whole(project[p])
         /\ Active(project[p]) = {} /\ turn = Idle
BY Exists DEF Changeable, Inv, ProjectsOK

LEMMA StepSources ==
  ASSUME Inv, NEW c \in Clients, NEW p \in Projects,
         \/ \E a \in Assets : RemoveSource(c, p, a)
         \/ \E a \in Assets, role \in Roles : AssignSourceRole(c, p, a, role)
         \/ \E fresh \in Selections \cup {<<>>} : AddSources(c, p, fresh)
  PROVE  Inv' /\ Immutable
<1> DEFINE q == project[p]
           With(new) == [q EXCEPT !.sources = new]
<1>1. ASSUME NEW new \in SourceSeqs, EachOnce(new), \E t : Aim(new, t),
             Changeable(c, p), Revise(c, p, With(new)),
             UNCHANGED durable, UNCHANGED turn
      PROVE  Inv' /\ Immutable
  <2>1. q # None /\ Whole(q)
    BY <1>1, ChangeFacts
  <2>2. PICK t : Aim(new, t)
    BY <1>1
  <2>3. Whole(With(new)) /\ With(new).attempts = q.attempts
    BY <1>1, <2>1, <2>2, SourcesChange
  <2> HIDE DEF With
  <2> QED BY <1>1, <2>1, <2>3, RevisedInPlace
<1>2. ASSUME NEW a \in Assets, RemoveSource(c, p, a)
      PROVE  Inv' /\ Immutable
  <2>1. Changeable(c, p) /\ UNCHANGED durable /\ UNCHANGED turn
    BY <1>2 DEF RemoveSource
  <2>2. PICK i \in DOMAIN q.sources : Revise(c, p, With(Without(q.sources, i)))
    BY <1>2 DEF RemoveSource
  <2> DEFINE new == Without(q.sources, i)
  <2>3. Whole(q)
    BY <2>1, ChangeFacts
  <2>4. new \in SourceSeqs /\ EachOnce(new) /\ \E t : Aim(new, t)
    BY <2>3, SourceRemoved
  <2> HIDE DEF new, q
  <2>5. Revise(c, p, With(new))
    BY <2>2 DEF new
  <2> QED BY <1>1, <2>1, <2>4, <2>5
<1>3. ASSUME NEW a \in Assets, NEW role \in Roles, AssignSourceRole(c, p, a, role)
      PROVE  Inv' /\ Immutable
  <2> DEFINE new == [i \in DOMAIN q.sources |->
                       IF q.sources[i].asset = a
                       THEN [q.sources[i] EXCEPT !.role = role]
                       ELSE q.sources[i]]
  <2>1. /\ Changeable(c, p) /\ UNCHANGED durable /\ UNCHANGED turn
        /\ Revise(c, p, With(new))
        /\ \/ role # "Lights" \/ ProjectTarget(q.sources) = NoTarget
           \/ Target[a] \in {NoTarget, ProjectTarget(q.sources)}
    BY <1>3 DEF AssignSourceRole
  <2>2. Whole(q) /\ role \in SourceRoles
    BY <2>1, ChangeFacts, ProjectAssumption
  <2>3. new \in SourceSeqs /\ EachOnce(new) /\ \E t : Aim(new, t)
    BY <2>1, <2>2, RoleAssigned
  <2> HIDE DEF new
  <2> QED BY <1>1, <2>1, <2>3
<1>4. ASSUME NEW fresh \in Selections \cup {<<>>}, AddSources(c, p, fresh)
      PROVE  Inv' /\ Immutable
  <2> DEFINE added == AssignSuggestedRoles(fresh, ProjectTarget(q.sources))
             new == q.sources \o added
  <2>1. /\ Changeable(c, p) /\ UNCHANGED durable /\ UNCHANGED turn
        /\ Revise(c, p, With(new))
        /\ Entries(fresh) \cap SourceAssets(q) = {}
    BY <1>4 DEF AddSources
  <2>2. Whole(q)
    BY <2>1, ChangeFacts
  <2>3. new \in SourceSeqs /\ EachOnce(new) /\ \E t : Aim(new, t)
    BY <2>1, <2>2, SourcesAdded
  <2> HIDE DEF new
  <2> QED BY <1>1, <2>1, <2>3
<1> QED BY <1>2, <1>3, <1>4

LEMMA StepRedraft ==
  ASSUME Inv, NEW c \in Clients, NEW p \in Projects, NEW s \in Stages,
         NEW draft \in SUBSET Assets,
         NEW undo \in Seq(SUBSET Assets), Len(undo) <= HistoryLimit,
         NEW redo \in Seq(SUBSET Assets), Len(redo) <= HistoryLimit,
         Redraft(c, p, s, draft, undo, redo)
  PROVE  Inv' /\ Immutable
<1> DEFINE q == project[p]
           new == Redrawn(q, s, draft, undo, redo)
<1>1. /\ Changeable(c, p) /\ q.stages[s].revision < MaxDraftRevision
      /\ Revise(c, p, new) /\ UNCHANGED durable /\ UNCHANGED turn
  BY DEF Redraft, MayRedraft, Redrawn
<1>2. q # None /\ Whole(q)
  BY <1>1, ChangeFacts
<1>3. Whole(new) /\ new.attempts = q.attempts
  BY <1>1, <1>2, Redrafted
<1> HIDE DEF new
<1> QED BY <1>1, <1>2, <1>3, RevisedInPlace

LEMMA StepDraft ==
  ASSUME Inv, NEW c \in Clients, NEW p \in Projects, NEW s \in Stages,
         \/ \E d \in Drafts : ReplaceDraft(c, p, s, d)
         \/ UndoDraft(c, p, s)
         \/ RedoDraft(c, p, s)
  PROVE  Inv' /\ Immutable
<1> DEFINE stage == project[p].stages[s]
<1>1. Changeable(c, p)
  BY DEF ReplaceDraft, UndoDraft, RedoDraft, Redraft, MayRedraft
<1>2. /\ stage.undo \in Seq(SUBSET Assets) /\ Len(stage.undo) <= HistoryLimit
      /\ stage.redo \in Seq(SUBSET Assets) /\ Len(stage.redo) <= HistoryLimit
      /\ stage.draft \in SUBSET Assets
  <2>1. stage \in StageStates /\ StageFits(stage)
    BY <1>1, ChangeFacts, StageOf DEF Whole, Lawful
  <2> QED BY <2>1 DEF StageStates, StageFits
<1> HIDE DEF stage
<1>3. /\ Append(stage.undo, stage.draft) \in Seq(SUBSET Assets)
      /\ Append(stage.redo, stage.draft) \in Seq(SUBSET Assets)
  BY <1>2, AppendProperties
<1> DEFINE undone == Recent(Append(stage.undo, stage.draft))
           redone == Recent(Append(stage.redo, stage.draft))
<1>4. /\ undone \in Seq(SUBSET Assets) /\ Len(undone) <= HistoryLimit
      /\ redone \in Seq(SUBSET Assets) /\ Len(redone) <= HistoryLimit
  BY <1>3, RecentFits
<1> HIDE DEF undone, redone
<1>5. ASSUME NEW d \in Drafts, ReplaceDraft(c, p, s, d)
      PROVE  Inv' /\ Immutable
  <2>1. Redraft(c, p, s, d, undone, <<>>)
    BY <1>5 DEF ReplaceDraft, undone, stage
  <2>2. <<>> \in Seq(SUBSET Assets) /\ Len(<<>>) <= HistoryLimit
    BY Bounds, EmptySeq
  <2>3. d \in SUBSET Assets
    BY ProjectAssumption
  <2> QED BY <1>4, <2>1, <2>2, <2>3, StepRedraft
<1>6. ASSUME UndoDraft(c, p, s)
      PROVE  Inv' /\ Immutable
  <2>1. stage.undo # <<>> /\
          Redraft(c, p, s, Last(stage.undo), Front(stage.undo), redone)
    BY <1>6 DEF UndoDraft, redone, stage
  <2>2. /\ Last(stage.undo) \in SUBSET Assets
        /\ Front(stage.undo) \in Seq(SUBSET Assets)
        /\ Len(Front(stage.undo)) <= Len(stage.undo)
    BY <1>2, <2>1, FrontAndLast
  <2>3. Len(Front(stage.undo)) <= HistoryLimit
    BY <1>2, <2>2, Bounds, LenProperties
  <2> QED BY <1>4, <2>1, <2>2, <2>3, StepRedraft
<1>7. ASSUME RedoDraft(c, p, s)
      PROVE  Inv' /\ Immutable
  <2>1. stage.redo # <<>> /\
          Redraft(c, p, s, Last(stage.redo), undone, Front(stage.redo))
    BY <1>7 DEF RedoDraft, undone, stage
  <2>2. /\ Last(stage.redo) \in SUBSET Assets
        /\ Front(stage.redo) \in Seq(SUBSET Assets)
        /\ Len(Front(stage.redo)) <= Len(stage.redo)
    BY <1>2, <2>1, FrontAndLast
  <2>3. Len(Front(stage.redo)) <= HistoryLimit
    BY <1>2, <2>2, Bounds, LenProperties
  <2> QED BY <1>4, <2>1, <2>2, <2>3, StepRedraft
<1> QED BY <1>5, <1>6, <1>7

LEMMA StepPreview ==
  ASSUME Inv, NEW c \in Clients, NEW p \in Projects, SyncDevelopPreview(c, p)
  PROVE  Inv' /\ Immutable
<1> DEFINE q == project[p]
           new == WithPreview(q)
<1>1. /\ Changeable(c, p) /\ Revise(c, p, new)
      /\ UNCHANGED durable /\ UNCHANGED turn
  BY DEF SyncDevelopPreview, MayPreview, WithPreview
<1>2. q # None /\ Whole(q)
  BY <1>1, ChangeFacts
<1>3. Whole(new) /\ new.attempts = q.attempts
  BY <1>2, Previewed
<1> HIDE DEF new
<1> QED BY <1>1, <1>2, <1>3, RevisedInPlace

LEMMA StepOpen ==
  ASSUME Inv, NEW c \in Clients, NEW p \in Projects, NEW a \in 1..MaxAttempts,
         OpenDevelop(c, p, a)
  PROVE  Inv' /\ Immutable
<1> DEFINE q == project[p]
           new == Opened(q, a)
<1>1. /\ Changeable(c, p) /\ Revise(c, p, new)
      /\ UNCHANGED durable /\ UNCHANGED turn
  BY DEF OpenDevelop, MayOpen, Opened
<1>2. q # None /\ Whole(q)
  BY <1>1, ChangeFacts
<1>3. Whole(new) /\ new.attempts = q.attempts
  BY <1>2, DevelopOpened
<1> HIDE DEF new
<1> QED BY <1>1, <1>2, <1>3, RevisedInPlace

LEMMA StepCursor ==
  ASSUME Inv, NEW c \in Clients, NEW p \in Projects, NEW s \in Stages,
         UndoCurrentResult(c, p, s) \/ RedoCurrentResult(c, p, s)
  PROVE  Inv' /\ Immutable
<1> DEFINE q == project[p]
           stage == q.stages[s]
<1>1. ASSUME NEW cursor \in Nat, MoveCurrentResult(c, p, s, cursor)
      PROVE  Inv' /\ Immutable
  <2> DEFINE new == WithCursor(q, s, cursor)
  <2>1. /\ Changeable(c, p) /\ cursor <= Len(stage.history)
        /\ Revise(c, p, new) /\ UNCHANGED durable /\ UNCHANGED turn
    BY <1>1 DEF MoveCurrentResult, MayMove, WithCursor
  <2>2. q # None /\ Whole(q)
    BY <2>1, ChangeFacts
  <2>3. Whole(new) /\ new.attempts = q.attempts
    BY <2>1, <2>2, CursorMoved
  <2> HIDE DEF new
  <2> QED BY <2>1, <2>2, <2>3, RevisedInPlace
<1>2. stage.cursor \in Nat
  <2>1. Changeable(c, p)
    BY DEF UndoCurrentResult, RedoCurrentResult, MoveCurrentResult, MayMove
  <2>2. stage \in StageStates
    BY <2>1, ChangeFacts, StageOf DEF Whole
  <2> QED BY <2>2 DEF StageStates
<1> HIDE DEF stage
<1>3. CASE UndoCurrentResult(c, p, s)
  <2>1. stage.cursor > 0 /\ MoveCurrentResult(c, p, s, stage.cursor - 1)
    BY <1>3 DEF UndoCurrentResult, stage
  <2>2. stage.cursor - 1 \in Nat
    BY <1>2, <2>1
  <2> QED BY <1>1, <2>1, <2>2
<1>4. CASE RedoCurrentResult(c, p, s)
  <2>1. MoveCurrentResult(c, p, s, stage.cursor + 1)
    BY <1>4 DEF RedoCurrentResult, stage
  <2>2. stage.cursor + 1 \in Nat
    BY <1>2
  <2> QED BY <1>1, <2>1, <2>2
<1> QED BY <1>3, <1>4

LEMMA StepRun ==
  ASSUME Inv, NEW c \in Clients, NEW p \in Projects, NEW s \in Stages,
         RunStage(c, p, s)
  PROVE  Inv' /\ Immutable
<1> DEFINE q == project[p]
           stage == q.stages[s]
           upstream == UpstreamResult(q, s)
           frozen == [stage |-> s, state |-> "queued",
                      revision |-> stage.revision, draft |-> stage.draft,
                      upstream |-> upstream, preview |-> stage.preview,
                      retryOf |-> 0]
           new == [frozen EXCEPT !.state = "queued"]
<1>1. /\ Changeable(c, p) /\ RunAvailable(p, s)
      /\ Enqueue(c, p, s, frozen)
  BY DEF RunStage, MayRun
<1>2. Whole(q)
  BY <1>1, ChangeFacts
<1>3. stage \in StageStates /\ StageFits(stage)
  BY <1>2, StageOf DEF Whole, Lawful
<1>4. upstream \in 0..MaxAttempts
  BY <1>2, UpstreamType DEF Whole
<1>5. s = "Develop" => /\ <<p, upstream>> \in library
                       /\ q.base # 0
                       /\ stage.preview.draft = stage.draft
                       /\ stage.preview.input = upstream
  <2>1. s = "Develop" => /\ <<p, upstream>> \in library /\ upstream # 0
                         /\ stage.preview # NoPreview
                         /\ stage.preview.input = upstream
    BY <1>1 DEF RunAvailable, Saved
  <2>2. s = "Develop" => upstream = DevelopBase(q)
    BY DEF UpstreamResult
  <2>3. DevelopBase(q) # 0 => q.base # 0
    BY DEF DevelopBase
  <2> HIDE DEF stage, upstream
  <2> QED BY <1>3, <2>1, <2>2, <2>3 DEF StageFits
<1> HIDE DEF stage, upstream
<1>6. /\ new \in Attempts /\ new.state = "queued" /\ new.stage = s
      /\ new.draft = stage.draft /\ new.upstream = upstream
      /\ new.preview = stage.preview
  <2>1. 0 \in 0..MaxAttempts /\ "queued" \in AttemptStates
    BY Bounds DEF AttemptStates
  <2> QED BY <1>3, <1>4, <2>1 DEF StageStates, Attempts
<1>7. new.state = "queued" /\
        (new.stage = "Develop" =>
           /\ q.base # 0
           /\ new.preview.draft = new.draft
           /\ new.preview.input = new.upstream
           /\ <<p, new.upstream>> \in library)
  <2> HIDE DEF new
  <2> QED BY <1>5, <1>6
<1> HIDE DEF frozen
<1> QED BY <1>1, <1>6, <1>7, StepEnqueue

LEMMA StepRetry ==
  ASSUME Inv, NEW c \in Clients, NEW p \in Projects, NEW a, RetryStage(c, p, a)
  PROVE  Inv' /\ Immutable
<1> DEFINE q == project[p]
           old == q.attempts[a]
           frozen == [old EXCEPT !.retryOf = a]
           new == [frozen EXCEPT !.state = "queued"]
<1>1. /\ Changeable(c, p) /\ a \in DOMAIN q.attempts
      /\ Enqueue(c, p, old.stage, frozen)
  BY DEF RetryStage
<1>2. Whole(q) /\ p \in Existing
  BY <1>1, ChangeFacts
<1>3. old \in Attempts /\ a \in 0..MaxAttempts
  <2>1. old \in Attempts /\ a \in 1..MaxAttempts
    BY <1>1, <1>2, AttemptAt
  <2> QED BY <2>1, Bounds
<1>4. old.stage = "Develop" => /\ <<p, old.upstream>> \in library
                               /\ q.base # 0
                               /\ old.preview.draft = old.draft
                               /\ old.preview.input = old.upstream
  <2>1. DevelopFits(q)
    BY <1>2 DEF Whole, Lawful
  <2> QED BY <1>1, <1>2, <2>1 DEF DevelopFits, Inv, KeptOK
<1> HIDE DEF old
<1>5. /\ new \in Attempts /\ new.state = "queued" /\ new.stage = old.stage
      /\ new.draft = old.draft /\ new.upstream = old.upstream
      /\ new.preview = old.preview
  <2>1. "queued" \in AttemptStates
    BY DEF AttemptStates
  <2> QED BY <1>3, <2>1 DEF Attempts
<1>6. new.state = "queued" /\
        (new.stage = "Develop" =>
           /\ q.base # 0
           /\ new.preview.draft = new.draft
           /\ new.preview.input = new.upstream
           /\ <<p, new.upstream>> \in library)
  <2> HIDE DEF new
  <2> QED BY <1>4, <1>5
<1> HIDE DEF frozen
<1> QED BY <1>1, <1>5, <1>6, StepEnqueue

LEMMA StepSave ==
  ASSUME Inv, NEW c \in Clients, NEW p \in Projects, NEW s \in Stages,
         SaveCurrentResult(c, p, s)
  PROVE  Inv' /\ Immutable
<1> DEFINE q == project[p]
           a == CurrentResult(q, s)
           new == WithSaved(q, a)
<1>1. /\ Changeable(c, p) /\ a # 0
      /\ IF a \in Entries(q.saved) THEN UNCHANGED <<project, current>>
                                  ELSE Revise(c, p, new)
      /\ IF <<p, a>> \in library
         THEN UNCHANGED <<library, artifact>>
         ELSE /\ library' = library \cup {<<p, a>>}
              /\ artifact' = [artifact EXCEPT ![<<p, a>>] =
                                IF @ = "absent" THEN @ ELSE "saved"]
      /\ receipts' = receipts /\ work' = work /\ file' = file /\ turn' = turn
  BY DEF SaveCurrentResult, MaySave, WithSaved, Saved
<1>2. q # None /\ p \in Existing /\ Whole(q)
  BY <1>1, ChangeFacts
<1>3. /\ a \in DOMAIN q.attempts /\ q.attempts[a].state = "succeeded"
      /\ a \in 1..MaxAttempts
  <2>1. \E i \in DOMAIN q.stages[s].history : a = q.stages[s].history[i]
    BY <1>1, <1>2, StageOf, CurrentFacts DEF CurrentResult, Whole
  <2>2. HistoryHolds(q, s)
    BY <1>2 DEF Whole, Lawful
  <2>3. a \in DOMAIN q.attempts /\ q.attempts[a].state = "succeeded"
    BY <2>1, <2>2 DEF HistoryHolds
  <2> HIDE DEF a
  <2> QED BY <1>2, <2>3, AttemptAt
<1>4. Whole(new) /\ new.attempts = q.attempts
  BY <1>2, <1>3, ResultSaved
<1> HIDE DEF new, a
<1>5. /\ ProjectsOK' /\ Existing' = Existing
      /\ \A o \in Existing : project'[o].attempts = project[o].attempts
  <2>1. CASE UNCHANGED <<project, current>>
    BY <2>1 DEF Inv, ProjectsOK, Existing
  <2>2. CASE Revise(c, p, new)
    <3>1. project' = [project EXCEPT ![p] = new]
      BY <2>2 DEF Revise
    <3>2. /\ project' \in [Projects -> ProjectRows \cup {None}]
          /\ Existing' = Existing \cup {p} /\ project'[p] = new
          /\ \A o \in Projects \ {p} : project'[o] = project[o]
          /\ \A o \in Existing' : Whole(project'[o])
      BY <1>4, <3>1, Replaced
    <3>3. Existing' = Existing
      BY <1>2, <3>2
    <3>4. current' \subseteq Clients \X Projects
      BY <2>2 DEF Revise, Inv, ProjectsOK
    <3>5. \A o \in Existing : project'[o].attempts = project[o].attempts
      BY <1>4, <3>2 DEF Existing
    <3> QED BY <3>2, <3>3, <3>4, <3>5 DEF ProjectsOK
  <2> QED BY <1>1, <2>1, <2>2
<1>6. WorkOK'
  BY <1>1, <1>5 DEF Inv, WorkOK, AttemptOf, OutputOf
<1>7. TurnOK'
  BY <1>1 DEF Inv, TurnOK, Idle
<1>8. ReceiptsOK'
  BY <1>1, <1>5 DEF Inv, ReceiptsOK
<1>9. Immutable
  <2> SUFFICES ASSUME NEW o \in Existing,
                      NEW b \in DOMAIN project[o].attempts
               PROVE  LET before == project[o].attempts[b]
                          after == project'[o].attempts[b]
                      IN /\ after = [before EXCEPT !.state = after.state]
                         /\ before.state \in {"succeeded", "failed"} =>
                              after = before
    BY DEF Immutable
  <2> DEFINE x == project[o].attempts[b]
  <2>1. Whole(project[o])
    BY DEF Inv, ProjectsOK
  <2>2. x = [x EXCEPT !.state = x.state]
    BY <2>1, AttemptAt
  <2> HIDE DEF x
  <2>3. project'[o].attempts[b] = x /\ project[o].attempts[b] = x
    BY <1>5 DEF x
  <2> QED BY <2>2, <2>3
<1>10. KeptOK'
  <2>1. /\ artifact \in [Outputs -> {"absent", "working", "saved"}]
        /\ file \in [Outputs -> {"absent", "temporary", "final", "torn"}]
    BY DEF Inv, KeptOK
  <2>2. <<p, a>> \in Outputs /\ artifact[<<p, a>>] # "absent"
    BY <1>2, <1>3 DEF Outputs, Inv, KeptOK
  <2>3. /\ artifact' \in [Outputs -> {"absent", "working", "saved"}]
        /\ \A o \in Outputs : artifact[o] # "absent" => artifact'[o] # "absent"
        /\ \A o \in Outputs : artifact[o] = "saved" => artifact'[o] = "saved"
        /\ library \subseteq library' /\ library' \subseteq library \cup {<<p, a>>}
        /\ <<p, a>> \in library' => \/ <<p, a>> \in library
                                    \/ artifact'[<<p, a>>] = "saved"
    <3>1. CASE UNCHANGED <<library, artifact>>
      BY <2>1, <3>1
    <3>2. CASE /\ library' = library \cup {<<p, a>>}
               /\ artifact' = [artifact EXCEPT ![<<p, a>>] =
                                 IF @ = "absent" THEN @ ELSE "saved"]
      <4>1. artifact' = [artifact EXCEPT ![<<p, a>>] = "saved"]
        BY <2>2, <3>2
      <4> QED BY <2>1, <2>2, <3>2, <4>1
    <3> QED BY <1>1, <3>1, <3>2
  <2>4. ASSUME NEW o \in Existing, NEW b \in DOMAIN project[o].attempts
        PROVE  /\ project[o].attempts[b].state = "succeeded" =>
                    file[<<o, b>>] = "final" /\ artifact'[<<o, b>>] # "absent"
               /\ project[o].attempts[b].stage = "Develop" =>
                    <<o, project[o].attempts[b].upstream>> \in library'
    <3>1. /\ project[o].attempts[b].state = "succeeded" =>
               file[<<o, b>>] = "final" /\ artifact[<<o, b>>] # "absent"
          /\ project[o].attempts[b].stage = "Develop" =>
               <<o, project[o].attempts[b].upstream>> \in library
      BY DEF Inv, KeptOK
    <3>2. <<o, b>> \in Outputs
      BY AttemptAt DEF Outputs, Inv, ProjectsOK, Existing
    <3> QED BY <2>3, <3>1, <3>2
  <2>5. ASSUME NEW o \in library'
        PROVE  /\ o \in Outputs /\ o[1] \in Existing
               /\ o[2] \in DOMAIN project[o[1]].attempts
               /\ project[o[1]].attempts[o[2]].state = "succeeded"
               /\ artifact'[o] = "saved"
    <3>1. CASE o \in library
      <4>1. /\ o \in Outputs /\ o[1] \in Existing
            /\ o[2] \in DOMAIN project[o[1]].attempts
            /\ project[o[1]].attempts[o[2]].state = "succeeded"
            /\ artifact[o] = "saved"
        BY <3>1 DEF Inv, KeptOK
      <4> QED BY <2>3, <4>1
    <3>2. CASE o = <<p, a>> /\ o \notin library
      BY <1>2, <1>3, <2>2, <2>3, <3>2
    <3> QED BY <2>3, <3>1, <3>2
  <2> QED BY <1>1, <1>5, <2>1, <2>3, <2>4, <2>5 DEF KeptOK
<1> QED BY <1>5, <1>6, <1>7, <1>8, <1>9, <1>10 DEF Inv

LEMMA StepCreate ==
  ASSUME Inv, NEW c \in Clients, NEW r \in Requests, NEW p \in Projects,
         NEW selection \in Selections, Create(c, r, p, selection)
  PROVE  Inv' /\ Immutable
<1> DEFINE sources == AssignSuggestedRoles(selection, NoTarget)
           new == [sources |-> sources, stages |-> [s \in Stages |-> FreshStage],
                   attempts |-> <<>>, base |-> 0, saved |-> <<>>]
           row == [request |-> r, project |-> p]
<1>1. /\ project[p] = None
      /\ \A other \in receipts : other.request # r
      /\ project' = [project EXCEPT ![p] = new]
      /\ current' = current \cup {<<c, p>>}
      /\ receipts' = receipts \cup {row}
      /\ library' = library /\ artifact' = artifact /\ work' = work
      /\ file' = file /\ turn' = turn
  BY DEF Create
<1>2. /\ selection \in Seq(Assets)
      /\ \A i, j \in DOMAIN selection : selection[i] = selection[j] => i = j
  BY SelectionFacts
<1>3. /\ sources \in SourceSeqs /\ DOMAIN sources = DOMAIN selection
      /\ \A i \in DOMAIN selection : sources[i].asset = selection[i]
      /\ Joins(sources, NoTarget)
  BY <1>2, SuggestedRoles
<1> HIDE DEF sources
<1>4. EachOnce(sources)
  BY <1>2, <1>3 DEF EachOnce
<1>5. PICK t : Aim(sources, t)
  BY <1>3 DEF Joins
<1>6. FreshStage \in StageStates /\ StageFits(FreshStage)
  <2>1. NoPreview \in Previews
    BY Bounds DEF NoPreview, Previews
  <2>2. /\ <<>> \in Seq(SUBSET Assets) /\ <<>> \in Seq(1..MaxAttempts)
        /\ Len(<<>>) = 0 /\ {} \in SUBSET Assets
    BY EmptySeq
  <2>3. 0 \in 0..MaxDraftRevision /\ 0 \in Nat
    BY Bounds
  <2>4. FreshStage \in StageStates
    BY <2>1, <2>2, <2>3 DEF FreshStage, StageStates
  <2>5. StageFits(FreshStage)
    BY <2>2, Bounds DEF FreshStage, StageFits
  <2> QED BY <2>4, <2>5
<1>7. /\ new \in ProjectRows /\ new.sources = sources /\ new.attempts = <<>>
      /\ new.base = 0 /\ \A s \in Stages : new.stages[s] = FreshStage
  <2>1. /\ <<>> \in Seq(Attempts) /\ <<>> \in Seq(1..MaxAttempts)
        /\ 0 \in 0..MaxAttempts
    BY Bounds, EmptySeq
  <2>2. [s \in Stages |-> FreshStage] \in [Stages -> StageStates]
    BY <1>6
  <2> QED BY <1>3, <2>1, <2>2 DEF ProjectRows, SourceSeqs
<1> HIDE DEF new
<1>8. Whole(new)
  <2>1. Len(new.attempts) = 0 /\ DOMAIN new.attempts = {}
    BY <1>7, EmptySeq
  <2>2. Shaped(new)
    BY <1>4, <1>7, <2>1, Bounds DEF Shaped, EachOnce
  <2>3. LightsAgree(new)
    BY <1>5, <1>7 DEF LightsAgree, Lights, Aim
  <2>4. OneActive(new) /\ DevelopFits(new)
    BY <2>1 DEF OneActive, Active, DevelopFits
  <2>5. \A s \in Stages : StageFits(new.stages[s]) /\ HistoryHolds(new, s)
    <3>1. FreshStage.history = <<>> /\ DOMAIN FreshStage.history = {}
      BY EmptySeq DEF FreshStage
    <3> QED BY <1>6, <1>7, <3>1 DEF HistoryHolds
  <2>6. \A s \in Stages : CurrentResult(new, s) = 0
    BY <1>7 DEF CurrentResult, CurrentOf, FreshStage
  <2>7. \A s \in Stages : Newest(new, s)
    <3>1. FreshStage.history = <<>> /\ DOMAIN FreshStage.history = {}
      BY EmptySeq DEF FreshStage
    <3> QED BY <1>7, <3>1 DEF Newest
  <2> QED BY <2>2, <2>3, <2>4, <2>5, <2>6, <2>7 DEF Whole, Lawful, Descends
<1>9. /\ project' \in [Projects -> ProjectRows \cup {None}]
      /\ Existing' = Existing \cup {p} /\ project'[p] = new
      /\ \A o \in Projects \ {p} : project'[o] = project[o]
      /\ \A o \in Existing' : Whole(project'[o])
  BY <1>1, <1>8, Replaced
<1>10. p \notin Existing /\ \A o \in Existing : project'[o] = project[o]
  BY <1>1, <1>9 DEF Existing
<1>11. DOMAIN project'[p].attempts = {}
  BY <1>7, <1>9, EmptySeq
<1>12. ProjectsOK'
  BY <1>1, <1>9 DEF Inv, ProjectsOK
<1>13. WorkOK'
  <2>1. \A i \in DOMAIN work :
          /\ work[i].project \in Existing
          /\ work[i].attempt \in DOMAIN project[work[i].project].attempts
          /\ work[i].state = RowState[AttemptOf(work[i]).state]
    BY RowAt
  <2>2. \A o \in Existing' : \A a \in DOMAIN project'[o].attempts :
          \E i \in DOMAIN work : OutputOf(work[i]) = <<o, a>>
    BY <1>9, <1>10, <1>11 DEF Inv, WorkOK
  <2>3. /\ work \in Seq(WorkRows)
        /\ \A i, j \in DOMAIN work :
             OutputOf(work[i]) = OutputOf(work[j]) => i = j
    BY DEF Inv, WorkOK
  <2>4. \A i \in DOMAIN work :
          /\ work[i].project \in Existing'
          /\ work[i].attempt \in DOMAIN project'[work[i].project].attempts
          /\ work[i].state =
               RowState[project'[work[i].project].attempts[
                          work[i].attempt].state]
    BY <1>9, <1>10, <2>1 DEF AttemptOf
  <2> QED BY <1>1, <2>2, <2>3, <2>4 DEF WorkOK, AttemptOf, OutputOf
<1>14. TurnOK'
  BY <1>1 DEF Inv, TurnOK, Idle
<1>15. KeptOK'
  <2>1. \A o \in Existing' : \A a \in DOMAIN project'[o].attempts :
          /\ project'[o].attempts[a].state = "succeeded" =>
               file[<<o, a>>] = "final" /\ artifact[<<o, a>>] # "absent"
          /\ project'[o].attempts[a].stage = "Develop" =>
               <<o, project'[o].attempts[a].upstream>> \in library
    <3> SUFFICES ASSUME NEW o \in Existing', NEW a \in DOMAIN project'[o].attempts
                 PROVE  /\ project'[o].attempts[a].state = "succeeded" =>
                             file[<<o, a>>] = "final" /\ artifact[<<o, a>>] # "absent"
                        /\ project'[o].attempts[a].stage = "Develop" =>
                             <<o, project'[o].attempts[a].upstream>> \in library
      OBVIOUS
    <3>1. CASE o = p
      BY <1>11, <3>1
    <3>2. CASE o \in Existing
      BY <1>10, <3>2 DEF Inv, KeptOK
    <3> QED BY <1>9, <3>1, <3>2
  <2>2. \A o \in library :
          /\ o \in Outputs /\ o[1] \in Existing'
          /\ o[2] \in DOMAIN project'[o[1]].attempts
          /\ project'[o[1]].attempts[o[2]].state = "succeeded"
          /\ artifact[o] = "saved"
    BY <1>9, <1>10 DEF Inv, KeptOK
  <2>3. /\ artifact \in [Outputs -> {"absent", "working", "saved"}]
        /\ file \in [Outputs -> {"absent", "temporary", "final", "torn"}]
    BY DEF Inv, KeptOK
  <2> QED BY <1>1, <2>1, <2>2, <2>3 DEF KeptOK
<1>16. ReceiptsOK'
  <2>1. row.request = r /\ row.project = p
        /\ row \in [request : Requests, project : Projects]
    OBVIOUS
  <2>2. \A other \in receipts : other.project # p /\ other.request # r
    BY <1>1, <1>10 DEF Inv, ReceiptsOK
  <2> HIDE DEF row
  <2>3. receipts' \subseteq [request : Requests, project : Projects]
    BY <1>1, <2>1 DEF Inv, ReceiptsOK
  <2>4. \A x \in receipts' : x.project \in Existing'
    BY <1>1, <1>9, <2>1 DEF Inv, ReceiptsOK
  <2>5. \A o \in Existing' : \E x \in receipts' : x.project = o
    <3>1. row \in receipts' /\ receipts \subseteq receipts'
      BY <1>1
    <3>2. \A o \in Existing : \E x \in receipts : x.project = o
      BY DEF Inv, ReceiptsOK
    <3> QED BY <1>9, <2>1, <3>1, <3>2
  <2>6. \A x, other \in receipts' :
          x.project = other.project \/ x.request = other.request => x = other
    <3>1. \A x, other \in receipts :
            x.project = other.project \/ x.request = other.request =>
              x = other
      BY DEF Inv, ReceiptsOK
    <3> QED BY <1>1, <2>1, <2>2, <3>1
  <2> QED BY <2>3, <2>4, <2>5, <2>6 DEF ReceiptsOK
<1>17. Immutable
  BY <1>10, AttemptAt DEF Immutable, Inv, ProjectsOK
<1> QED BY <1>12, <1>13, <1>14, <1>15, <1>16, <1>17 DEF Inv

\* The pass between claim and settlement, and the loss of the process.
LEMMA StepPass ==
  ASSUME Inv,
         \/ WriteTemporary \/ Rename \/ LeaveUnresolved \/ Crash
         \/ \E i \in DOMAIN work : TakeUpClaim(i)
  PROVE  Inv' /\ Immutable
<1>1. /\ project' = project /\ current' = current /\ receipts' = receipts
      /\ library' = library /\ artifact' = artifact /\ work' = work
  BY DEF WriteTemporary, Rename, LeaveUnresolved, Crash, TakeUpClaim, durable
<1>2. Existing' = Existing
  BY <1>1 DEF Existing
<1>3. ProjectsOK' /\ ReceiptsOK'
  BY <1>1, <1>2 DEF Inv, ProjectsOK, ReceiptsOK
<1>4. WorkOK'
  BY <1>1, <1>2 DEF Inv, WorkOK, AttemptOf, OutputOf
<1>5. Immutable
  BY <1>1, AttemptAt DEF Immutable, Inv, ProjectsOK
<1>6. TurnOK'
  <2>1. CASE turn' = turn
    BY <1>1, <2>1 DEF Inv, TurnOK, Idle
  <2>2. CASE turn' = Idle
    BY <2>2 DEF TurnOK, Idle
  <2>3. CASE \E i \in DOMAIN work : TakeUpClaim(i)
    <3>1. PICK i \in DOMAIN work : TakeUpClaim(i)
      BY <2>3
    <3>2. turn' = [at |-> "claimed", row |-> i] /\ work[i].state = "claimed"
      BY <3>1 DEF TakeUpClaim
    <3> QED BY <1>1, <3>2 DEF TurnOK
  <2> QED BY <2>1, <2>2, <2>3
          DEF WriteTemporary, Rename, LeaveUnresolved, Crash
<1>7. /\ file' \in [Outputs -> {"absent", "temporary", "final", "torn"}]
      /\ \A o \in Outputs : file[o] = "final" => file'[o] = "final"
  <2>1. file \in [Outputs -> {"absent", "temporary", "final", "torn"}]
    BY DEF Inv, KeptOK
  <2>2. CASE file' = file
    BY <2>1, <2>2
  <2>3. ASSUME NEW o \in Outputs, file[o] \in {"absent", "temporary"},
               NEW new \in {"temporary", "final", "torn"},
               file' = [file EXCEPT ![o] = new]
        PROVE  /\ file' \in [Outputs -> {"absent", "temporary", "final", "torn"}]
               /\ \A x \in Outputs : file[x] = "final" => file'[x] = "final"
    BY <2>1, <2>3
  <2>4. turn # Idle => OutputOf(work[turn.row]) \in Outputs
    <3>1. turn # Idle => turn.row \in DOMAIN work
      BY DEF Inv, TurnOK
    <3> QED BY <3>1, RowAt
  <2>5. CASE WriteTemporary
    <3>1. turn # Idle
      BY <2>5 DEF WriteTemporary, Idle
    <3> QED BY <2>3, <2>4, <2>5, <3>1 DEF WriteTemporary
  <2>6. CASE Rename
    <3>1. turn # Idle
      BY <2>6 DEF Rename, Idle
    <3> QED BY <2>3, <2>4, <2>6, <3>1 DEF Rename
  <2>7. CASE LeaveUnresolved
    BY <2>2, <2>7 DEF LeaveUnresolved, durable
  <2>8. CASE Crash
    <3>1. turn # Idle /\ (file' = file \/
            (/\ file[OutputOf(work[turn.row])] = "absent"
             /\ file' = [file EXCEPT ![OutputOf(work[turn.row])] = "torn"]))
      BY <2>8 DEF Crash
    <3> QED BY <2>2, <2>3, <2>4, <3>1
  <2>9. CASE \E i \in DOMAIN work : TakeUpClaim(i)
    BY <2>2, <2>9 DEF TakeUpClaim, durable
  <2> QED BY <2>5, <2>6, <2>7, <2>8, <2>9
<1>8. KeptOK'
  <2>1. \A p \in Existing : \A a \in DOMAIN project[p].attempts :
          <<p, a>> \in Outputs
    BY AttemptAt DEF Outputs, Inv, ProjectsOK, Existing
  <2> QED BY <1>1, <1>2, <1>7, <2>1 DEF Inv, KeptOK
<1> QED BY <1>3, <1>4, <1>5, <1>6, <1>8 DEF Inv

LEMMA StepReload ==
  ASSUME Inv, NEW c \in Clients, NEW p \in Projects, Reload(c, p)
  PROVE  Inv' /\ Immutable
<1>1. /\ project' = project /\ current' = current \cup {<<c, p>>}
      /\ UNCHANGED durable /\ UNCHANGED turn
  BY DEF Reload
<1>2. Existing' = Existing
  BY <1>1 DEF Existing
<1>3. ProjectsOK'
  BY <1>1, <1>2 DEF Inv, ProjectsOK
<1>4. WorkOK' /\ TurnOK' /\ KeptOK' /\ ReceiptsOK' /\ Immutable
  BY <1>1, <1>2, SameAttempts
<1> QED BY <1>3, <1>4 DEF Inv

LEMMA StepStutter ==
  ASSUME Inv, UNCHANGED vars
  PROVE  Inv' /\ Immutable
<1>1. /\ project' = project /\ current' = current
      /\ UNCHANGED durable /\ UNCHANGED turn
  BY DEF vars, durable
<1>2. Existing' = Existing
  BY <1>1 DEF Existing
<1>3. ProjectsOK'
  BY <1>1, <1>2 DEF Inv, ProjectsOK
<1>4. WorkOK' /\ TurnOK' /\ KeptOK' /\ ReceiptsOK' /\ Immutable
  BY <1>1, <1>2, SameAttempts
<1> QED BY <1>3, <1>4 DEF Inv

LEMMA InvNext == Inv /\ [Next]_vars => Inv' /\ Immutable
<1> SUFFICES ASSUME Inv, [Next]_vars
             PROVE  Inv' /\ Immutable
  OBVIOUS
<1>1. ASSUME NEW c \in Clients, NEW p \in Projects, Intent(c, p)
      PROVE  Inv' /\ Immutable
  <2>1. ASSUME \/ \E a \in Assets : RemoveSource(c, p, a)
               \/ \E a \in Assets, role \in Roles :
                    AssignSourceRole(c, p, a, role)
               \/ \E fresh \in Selections \cup {<<>>} :
                    AddSources(c, p, fresh)
        PROVE  Inv' /\ Immutable
    BY <2>1, StepSources
  <2>2. ASSUME NEW s \in Stages,
               \/ \E d \in Drafts : ReplaceDraft(c, p, s, d)
               \/ UndoDraft(c, p, s)
               \/ RedoDraft(c, p, s)
        PROVE  Inv' /\ Immutable
    BY <2>2, StepDraft
  <2>3. CASE SyncDevelopPreview(c, p)
    BY <2>3, StepPreview
  <2>4. ASSUME NEW s \in Stages, RunStage(c, p, s)
        PROVE  Inv' /\ Immutable
    BY <2>4, StepRun
  <2>5. ASSUME NEW a \in 1..MaxAttempts, RetryStage(c, p, a)
        PROVE  Inv' /\ Immutable
    BY <2>5, StepRetry
  <2>6. ASSUME NEW a \in 1..MaxAttempts, OpenDevelop(c, p, a)
        PROVE  Inv' /\ Immutable
    BY <2>6, StepOpen
  <2>7. ASSUME NEW s \in Stages,
               UndoCurrentResult(c, p, s) \/ RedoCurrentResult(c, p, s)
        PROVE  Inv' /\ Immutable
    BY <2>7, StepCursor
  <2>8. ASSUME NEW s \in Stages, SaveCurrentResult(c, p, s)
        PROVE  Inv' /\ Immutable
    BY <2>8, StepSave
  <2> QED BY <1>1, <2>1, <2>2, <2>3, <2>4, <2>5, <2>6, <2>7, <2>8 DEF Intent
<1>2. ASSUME NEW c \in Clients, NEW p \in Projects, Reload(c, p)
      PROVE  Inv' /\ Immutable
  BY <1>2, StepReload
<1>3. ASSUME NEW c \in Clients, NEW p \in Projects, NEW r \in Requests,
             NEW sel \in Selections, Create(c, r, p, sel)
      PROVE  Inv' /\ Immutable
  BY <1>3, StepCreate
<1>4. ASSUME WorkerStep \/ Crash
      PROVE  Inv' /\ Immutable
  <2>1. ASSUME NEW i \in DOMAIN work, Claim(i)
        PROVE  Inv' /\ Immutable
    BY <2>1, StepClaim
  <2>2. ASSUME NEW outcome \in AdapterOutcomes, Settle(outcome)
        PROVE  Inv' /\ Immutable
    BY <2>2, StepSettle
  <2>3. ASSUME \/ WriteTemporary \/ Rename \/ LeaveUnresolved \/ Crash
               \/ \E i \in DOMAIN work : TakeUpClaim(i)
        PROVE  Inv' /\ Immutable
    BY <2>3, StepPass
  <2> QED BY <1>4, <2>1, <2>2, <2>3 DEF WorkerStep
<1>5. CASE UNCHANGED vars
  BY <1>5, StepStutter
<1> QED BY <1>1, <1>2, <1>3, <1>4, <1>5 DEF Next

-----------------------------------------------------------------------------
(* Theorems.                                                                *)

LEMMA InvImpliesType == Inv => TypeOK
<1> SUFFICES ASSUME Inv PROVE TypeOK
  OBVIOUS
<1>1. \A p \in Existing :
        /\ Len(project[p].attempts) <= MaxAttempts
        /\ \A i, j \in DOMAIN project[p].sources :
             project[p].sources[i].asset = project[p].sources[j].asset => i = j
        /\ \A s \in Stages : LET stage == project[p].stages[s] IN
             /\ stage.cursor <= Len(stage.history)
             /\ Len(stage.undo) <= HistoryLimit
             /\ Len(stage.redo) <= HistoryLimit
  BY DEF Inv, ProjectsOK, Whole, Lawful, Shaped, StageFits
<1>2. \A o \in library : o \in Outputs
  BY DEF Inv, KeptOK
<1>3. turn.at \in {"idle", "claimed"}
  BY DEF Inv, TurnOK, Idle
<1> QED BY <1>1, <1>2, <1>3
        DEF TypeOK, Inv, ProjectsOK, KeptOK, ReceiptsOK

LEMMA InvImpliesWork == Inv => WorkIsSound
<1> SUFFICES ASSUME Inv PROVE WorkIsSound
  OBVIOUS
<1>1. RowsMatchAttempts
  <2> SUFFICES ASSUME NEW p \in Existing, NEW a \in DOMAIN project[p].attempts
               PROVE  \E i \in DOMAIN work :
                        /\ work[i] = [project |-> p, attempt |-> a,
                             state |-> RowState[project[p].attempts[a].state]]
                        /\ \A j \in DOMAIN work \ {i} :
                             OutputOf(work[j]) # <<p, a>>
    BY DEF RowsMatchAttempts
  <2>1. PICK i \in DOMAIN work : OutputOf(work[i]) = <<p, a>>
    BY DEF Inv, WorkOK
  <2>2. work[i].project = p /\ work[i].attempt = a
    BY <2>1 DEF OutputOf
  <2>3. work[i].state = RowState[project[p].attempts[a].state]
    BY <2>2, RowAt DEF AttemptOf
  <2>4. work[i] \in WorkRows
    BY LenProperties, ElementOfSeq DEF Inv, WorkOK
  <2>5. work[i] = [project |-> p, attempt |-> a,
                   state |-> RowState[project[p].attempts[a].state]]
    BY <2>2, <2>3, <2>4 DEF WorkRows
  <2>6. \A j \in DOMAIN work \ {i} : OutputOf(work[j]) # <<p, a>>
    BY <2>1 DEF Inv, WorkOK
  <2> QED BY <2>5, <2>6
<1>2. OneActiveAttempt
  BY DEF OneActiveAttempt, Inv, ProjectsOK, Whole, Lawful, OneActive
<1>3. OneProjectPerRequest
  BY DEF OneProjectPerRequest, Inv, ReceiptsOK
<1> QED BY <1>1, <1>2, <1>3, InvImpliesType DEF WorkIsSound

LEMMA InvImpliesLineage == Inv => LineageIsSound
<1> SUFFICES ASSUME Inv PROVE LineageIsSound
  OBVIOUS
<1>1. CurrentLineage
  BY DEF CurrentLineage, Inv, ProjectsOK, Whole, Descends
<1>2. HistoriesHoldResults
  BY DEF HistoriesHoldResults, Inv, ProjectsOK, Whole, Lawful, HistoryHolds
<1>3. LightsShareTarget
  BY DEF LightsShareTarget, Inv, ProjectsOK, Whole, Lawful, LightsAgree
<1>4. SavedResultsAreWhole
  <2>1. ASSUME NEW o \in library
        PROVE  artifact[o] = "saved" /\ file[o] = "final"
    <3>1. /\ o \in Outputs /\ o[1] \in Existing
          /\ o[2] \in DOMAIN project[o[1]].attempts
          /\ project[o[1]].attempts[o[2]].state = "succeeded"
          /\ artifact[o] = "saved"
      BY DEF Inv, KeptOK
    <3>2. o = <<o[1], o[2]>>
      BY <3>1 DEF Outputs
    <3>3. file[<<o[1], o[2]>>] = "final"
      BY <3>1 DEF Inv, KeptOK
    <3> QED BY <3>1, <3>2, <3>3
  <2> QED BY <2>1 DEF SavedResultsAreWhole, Inv, KeptOK
<1> QED BY <1>1, <1>2, <1>3, <1>4 DEF LineageIsSound

LEMMA InvImpliesPreviewed == Inv => AppliesWhatWasPreviewed
BY DEF AppliesWhatWasPreviewed, Inv, ProjectsOK, Whole, Lawful, DevelopFits

\* The parts of the invariant hold each other up: no intent, claim,
\* settlement or loss of the process breaks one of them.
THEOREM Invariance == Spec => []Inv
<1>1. Init => Inv
  BY InvInit
<1>2. Inv /\ [Next]_vars => Inv'
  BY InvNext
<1> QED BY <1>1, <1>2, PTL DEF Spec

\* Claim, settlement and every loss of the process between them leave the
\* rows of the queue and the attempts in agreement, one attempt of a project
\* active at most, and one project per create request (insertAttempt, claim,
\* settle, create), for any number of projects and clients.
THEOREM WorkStaysSound == Spec => []WorkIsSound
BY Invariance, InvImpliesWork, PTL

\* Whatever is run, retried, undone, redone, opened or saved, what is shown
\* as current was made from what is current before it, histories hold whole
\* results only, and the Lights are of one target (restoreLineage, settle,
\* saveCurrentResult, assignSourceRole, assignSuggestedRoles).
THEOREM LineageStaysSound == Spec => []LineageIsSound
BY Invariance, InvImpliesLineage, PTL

\* A Develop attempt, retried ones too, applies the operation its owner
\* previewed to the master the preview was made from (syncDevelopPreview,
\* run, retry).
THEOREM PreviewsAreApplied == Spec => []AppliesWhatWasPreviewed
BY Invariance, InvImpliesPreviewed, PTL

\* No step changes what an attempt froze, or anything of a settled attempt
\* (run, retry, claim, settle).
THEOREM AttemptsStayImmutable == Spec => AttemptsAreImmutable
<1>1. Inv /\ [Next]_vars => [Immutable]_vars
  BY InvNext
<1>2. Spec => [][Immutable]_vars
  BY <1>1, Invariance, PTL DEF Spec
<1> QED BY <1>2, PTL DEF AttemptsAreImmutable, Immutable

-----------------------------------------------------------------------------
(* What a project saved is listed by the Library.                           *)

Listed ==
  \A p \in Existing : \A a \in Entries(project[p].saved) : Saved(p, a)

IsRow(q) == "saved" \in DOMAIN q

\* What was saved is a part of its own.
LEMMA SavedApart ==
  ASSUME NEW q, IsRow(q), NEW x, NEW s, NEW a
  PROVE  /\ IsRow([q EXCEPT !.sources = x])
         /\ [q EXCEPT !.sources = x].saved = q.saved
         /\ IsRow([q EXCEPT !.stages = x])
         /\ [q EXCEPT !.stages = x].saved = q.saved
         /\ IsRow([q EXCEPT !.stages[s] = x])
         /\ [q EXCEPT !.stages[s] = x].saved = q.saved
         /\ IsRow([q EXCEPT !.attempts = x])
         /\ [q EXCEPT !.attempts = x].saved = q.saved
         /\ IsRow([q EXCEPT !.attempts[a].state = x])
         /\ [q EXCEPT !.attempts[a].state = x].saved = q.saved
         /\ IsRow([q EXCEPT !.base = a, !.stages[s] = x])
         /\ [q EXCEPT !.base = a, !.stages[s] = x].saved = q.saved
BY DEF IsRow

LEMMA RowIsRow ==
  ASSUME NEW q \in ProjectRows
  PROVE  IsRow(q)
BY DEF ProjectRows, IsRow

LEMMA RestoreKeepsSaved ==
  ASSUME NEW q, IsRow(q)
  PROVE  RestoreLineage(q).saved = q.saved
<1>1. PICK x : RestoreLineage(q) = [q EXCEPT !.stages = x]
  BY Zenon DEF RestoreLineage
<1>2. [q EXCEPT !.stages = x].saved = q.saved
  BY SavedApart
<1> QED BY <1>1, <1>2

LEMMA ResultKeepsSaved ==
  ASSUME NEW q, IsRow(q), NEW a, NEW s
  PROVE  IsRow(WithResult(q, a, s)) /\ WithResult(q, a, s).saved = q.saved
<1>1. PICK x : WithResult(q, a, s) = [q EXCEPT !.stages[s] = x]
  BY Zenon DEF WithResult
<1>2. /\ IsRow([q EXCEPT !.stages[s] = x])
      /\ [q EXCEPT !.stages[s] = x].saved = q.saved
  BY SavedApart
<1> QED BY <1>1, <1>2

\* An intent that saves nothing leaves what was saved.
Amends(c, p) ==
  \E new : /\ Revise(c, p, new) /\ new.saved = project[p].saved
           /\ UNCHANGED library

LEMMA SourcesAmend ==
  ASSUME NEW c, NEW p, IsRow(project[p]),
         \/ \E a \in Assets : RemoveSource(c, p, a)
         \/ \E a \in Assets, role \in Roles : AssignSourceRole(c, p, a, role)
         \/ \E fresh \in Selections \cup {<<>>} : AddSources(c, p, fresh)
  PROVE  Amends(c, p)
<1>1. \E x : Revise(c, p, [project[p] EXCEPT !.sources = x])
  BY Zenon DEF RemoveSource, AssignSourceRole, AddSources
<1>2. UNCHANGED library
  BY DEF RemoveSource, AssignSourceRole, AddSources, durable
<1>3. PICK x : Revise(c, p, [project[p] EXCEPT !.sources = x])
  BY <1>1
<1>4. [project[p] EXCEPT !.sources = x].saved = project[p].saved
  BY SavedApart
<1> QED BY <1>2, <1>3, <1>4 DEF Amends

LEMMA DraftsAmend ==
  ASSUME NEW c, NEW p, IsRow(project[p]), NEW s,
         \/ \E draft, undo, redo : Redraft(c, p, s, draft, undo, redo)
         \/ s = "Develop" /\ SyncDevelopPreview(c, p)
  PROVE  Amends(c, p)
<1>1. \E x : Revise(c, p, [project[p] EXCEPT !.stages[s] = x])
  BY Zenon DEF Redraft, SyncDevelopPreview
<1>2. UNCHANGED library
  BY DEF Redraft, SyncDevelopPreview, durable
<1>3. PICK x : Revise(c, p, [project[p] EXCEPT !.stages[s] = x])
  BY <1>1
<1>4. [project[p] EXCEPT !.stages[s] = x].saved = project[p].saved
  BY SavedApart
<1> QED BY <1>2, <1>3, <1>4 DEF Amends

LEMMA AttemptsAmend ==
  ASSUME NEW c, NEW p, IsRow(project[p]),
         \E s, frozen : Enqueue(c, p, s, frozen)
  PROVE  Amends(c, p)
<1>1. \E x : Revise(c, p, [project[p] EXCEPT !.attempts = x])
  BY Zenon DEF Enqueue
<1>2. UNCHANGED library
  BY DEF Enqueue
<1>3. PICK x : Revise(c, p, [project[p] EXCEPT !.attempts = x])
  BY <1>1
<1>4. [project[p] EXCEPT !.attempts = x].saved = project[p].saved
  BY SavedApart
<1> QED BY <1>2, <1>3, <1>4 DEF Amends

LEMMA CursorsAmend ==
  ASSUME NEW c, NEW p, IsRow(project[p]), NEW s, NEW a,
         \/ OpenDevelop(c, p, a)
         \/ \E cursor : MoveCurrentResult(c, p, s, cursor)
  PROVE  Amends(c, p)
<1>1. \/ \E x : Revise(c, p, RestoreLineage([project[p] EXCEPT
                  !.base = a, !.stages["Develop"] = x]))
      \/ \E x : Revise(c, p, RestoreLineage([project[p] EXCEPT
                  !.stages[s] = x]))
  BY Zenon DEF OpenDevelop, MoveCurrentResult
<1>2. UNCHANGED library
  BY DEF OpenDevelop, MoveCurrentResult, durable
<1>3. PICK q : /\ Revise(c, p, RestoreLineage(q))
               /\ \E x : \/ q = [project[p] EXCEPT
                                   !.base = a, !.stages["Develop"] = x]
                         \/ q = [project[p] EXCEPT !.stages[s] = x]
  BY <1>1
<1>4. IsRow(q) /\ q.saved = project[p].saved
  <2>1. PICK x : \/ q = [project[p] EXCEPT
                           !.base = a, !.stages["Develop"] = x]
                 \/ q = [project[p] EXCEPT !.stages[s] = x]
    BY <1>3
  <2> DEFINE opened == [project[p] EXCEPT !.base = a, !.stages["Develop"] = x]
             moved == [project[p] EXCEPT !.stages[s] = x]
  <2>2. IsRow(opened) /\ opened.saved = project[p].saved
    <3>1. /\ IsRow([project[p] EXCEPT !.base = a, !.stages["Develop"] = x])
          /\ [project[p] EXCEPT !.base = a, !.stages["Develop"] = x].saved =
               project[p].saved
      BY DEF IsRow
    <3> QED BY <3>1
  <2>3. IsRow(moved) /\ moved.saved = project[p].saved
    BY SavedApart
  <2> QED BY <2>1, <2>2, <2>3
<1>5. RestoreLineage(q).saved = project[p].saved
  BY <1>4, RestoreKeepsSaved
<1> QED BY <1>2, <1>3, <1>5 DEF Amends

LEMMA IntentsAmend ==
  ASSUME NEW c, NEW p, IsRow(project[p]), Intent(c, p)
  PROVE  Amends(c, p) \/ \E s \in Stages : SaveCurrentResult(c, p, s)
<1>1. ASSUME \/ \E a \in Assets : RemoveSource(c, p, a)
             \/ \E a \in Assets, role \in Roles :
                  AssignSourceRole(c, p, a, role)
             \/ \E fresh \in Selections \cup {<<>>} : AddSources(c, p, fresh)
      PROVE  Amends(c, p)
  BY <1>1, SourcesAmend
<1>2. ASSUME NEW s \in Stages,
             \/ \E d \in Drafts : ReplaceDraft(c, p, s, d)
             \/ UndoDraft(c, p, s)
             \/ RedoDraft(c, p, s)
      PROVE  Amends(c, p)
  <2>1. \E draft, undo, redo : Redraft(c, p, s, draft, undo, redo)
    BY <1>2, Zenon DEF ReplaceDraft, UndoDraft, RedoDraft
  <2> QED BY <2>1, DraftsAmend
<1>3. CASE SyncDevelopPreview(c, p)
  BY <1>3, DraftsAmend
<1>4. ASSUME \/ \E s \in Stages : RunStage(c, p, s)
             \/ \E a \in 1..MaxAttempts : RetryStage(c, p, a)
      PROVE  Amends(c, p)
  <2>1. \E s, frozen : Enqueue(c, p, s, frozen)
    BY <1>4, Zenon DEF RunStage, RetryStage
  <2> QED BY <2>1, AttemptsAmend
<1>5. ASSUME NEW a \in 1..MaxAttempts, OpenDevelop(c, p, a)
      PROVE  Amends(c, p)
  BY <1>5, CursorsAmend
<1>6. ASSUME NEW s \in Stages,
             UndoCurrentResult(c, p, s) \/ RedoCurrentResult(c, p, s)
      PROVE  Amends(c, p)
  <2>1. \E cursor : MoveCurrentResult(c, p, s, cursor)
    BY <1>6, Zenon DEF UndoCurrentResult, RedoCurrentResult
  <2> QED BY <2>1, CursorsAmend
<1> QED BY <1>1, <1>2, <1>3, <1>4, <1>5, <1>6 DEF Intent

LEMMA EntriesOf ==
  ASSUME NEW S, NEW q \in Seq(S), NEW x \in S
  PROVE  Entries(Append(q, x)) = Entries(q) \cup {x}
<1> DEFINE r == Append(q, x)
           n == Len(q)
<1>1. /\ n \in Nat /\ DOMAIN q = 1..n /\ DOMAIN r = 1..(n + 1)
      /\ \A i \in 1..n : r[i] = q[i]
      /\ r[n + 1] = x
  BY AppendProperties, LenProperties
<1> HIDE DEF r, n
<1>2. \A i \in DOMAIN r : r[i] \in Entries(q) \cup {x}
  BY <1>1 DEF Entries
<1>3. \A i \in DOMAIN q : q[i] \in Entries(r)
  BY <1>1 DEF Entries
<1>4. x \in Entries(r)
  BY <1>1 DEF Entries
<1> QED BY <1>2, <1>3, <1>4 DEF Entries, r

\* A project in which nothing is new that the Library does not list.
LEMMA ListedKept ==
  ASSUME Inv, Listed, NEW p \in Projects, NEW new,
         project' = [project EXCEPT ![p] = new],
         library \subseteq library',
         \A a \in Entries(new.saved) :
           \/ project[p] # None /\ a \in Entries(project[p].saved)
           \/ <<p, a>> \in library'
  PROVE  Listed'
<1>1. project \in [Projects -> ProjectRows \cup {None}]
  BY DEF Inv, ProjectsOK
<1>2. project'[p] = new /\ \A o \in Projects \ {p} : project'[o] = project[o]
  BY <1>1
<1>3. ASSUME NEW o \in Projects, project'[o] # None,
             NEW a \in Entries(project'[o].saved)
      PROVE  <<o, a>> \in library'
  <2>1. CASE o = p
    BY <1>2, <1>3, <2>1 DEF Listed, Existing, Saved
  <2>2. CASE o # p
    BY <1>2, <1>3, <2>2 DEF Listed, Existing, Saved
  <2> QED BY <2>1, <2>2
<1> QED BY <1>3 DEF Listed, Existing, Saved

LEMMA ListedSame ==
  ASSUME Listed, project' = project, library' = library
  PROVE  Listed'
BY DEF Listed, Existing, Saved

\* A change after which the same was saved.
LEMMA ListedAmended ==
  ASSUME Inv, Listed, NEW p \in Existing, NEW new,
         project' = [project EXCEPT ![p] = new], library' = library,
         new.saved = project[p].saved
  PROVE  Listed'
<1>1. p \in Projects /\ project[p] # None
  BY DEF Existing
<1> QED BY <1>1, ListedKept

LEMMA SaveLists ==
  ASSUME Inv, Listed, NEW c \in Clients, NEW p \in Projects, NEW s \in Stages,
         SaveCurrentResult(c, p, s)
  PROVE  Listed'
<1> DEFINE q == project[p]
           a == CurrentResult(q, s)
           new == [q EXCEPT !.saved = Append(@, a)]
<1>1. /\ Changeable(c, p) /\ a # 0
      /\ \/ UNCHANGED project
         \/ project' = [project EXCEPT ![p] = new]
      /\ library' = library \cup {<<p, a>>}
  BY DEF SaveCurrentResult, MaySave, Revise, Saved
<1>2. q \in ProjectRows /\ q # None /\ Whole(q)
  BY <1>1, ChangeFacts, WholeIsRow
<1>3. a \in 1..MaxAttempts
  <2>1. a \in 0..MaxAttempts
    BY <1>2, StageOf, CurrentFacts DEF CurrentResult, Whole
  <2> HIDE DEF a
  <2> QED BY <1>1, <2>1, Bounds
<1>4. Entries(new.saved) = Entries(q.saved) \cup {a}
  <2>1. q.saved \in Seq(1..MaxAttempts)
    BY <1>2, Parts
  <2>2. new.saved = Append(q.saved, a)
    <3> HIDE DEF a
    <3> QED BY <1>2 DEF ProjectRows
  <2> HIDE DEF a, new
  <2>3. Entries(Append(q.saved, a)) = Entries(q.saved) \cup {a}
    <3> HIDE DEF q
    <3> DEFINE S == 1..MaxAttempts
    <3>1. q.saved \in Seq(S) /\ a \in S
      BY <1>3, <2>1
    <3> HIDE DEF S
    <3> QED BY <3>1, EntriesOf
  <2> QED BY <2>2, <2>3
<1> HIDE DEF a, new
<1>5. CASE UNCHANGED project
  BY <1>1, <1>5 DEF Listed, Existing, Saved
<1>6. CASE project' = [project EXCEPT ![p] = new]
  BY <1>1, <1>2, <1>4, <1>6, ListedKept
<1> QED BY <1>1, <1>5, <1>6

LEMMA IntentChanges ==
  ASSUME NEW c, NEW p, Intent(c, p)
  PROVE  Changeable(c, p)
BY DEF Intent, RemoveSource, AssignSourceRole, AddSources, ReplaceDraft,
       UndoDraft, RedoDraft, Redraft, MayRedraft, SyncDevelopPreview,
       MayPreview, RunStage, MayRun, RetryStage, OpenDevelop, MayOpen,
       UndoCurrentResult, RedoCurrentResult, MoveCurrentResult, MayMove,
       SaveCurrentResult, MaySave

\* The worker saves nothing.
LEMMA WorkerKeepsSaved ==
  ASSUME Inv, Listed,
         \/ \E i \in DOMAIN work : Claim(i)
         \/ \E outcome \in AdapterOutcomes : Settle(outcome)
  PROVE  Listed'
<1>1. ASSUME NEW i \in DOMAIN work, NEW new, IsRow(new),
             WorkerRevises(work[i].project, new), library' = library,
             new.saved = project[work[i].project].saved
      PROVE  Listed'
  <2>1. work[i].project \in Existing
    BY RowAt
  <2> QED BY <1>1, <2>1, ListedAmended DEF WorkerRevises
<1>2. \A i \in DOMAIN work : IsRow(project[work[i].project])
  <2>1. ASSUME NEW i \in DOMAIN work
        PROVE  IsRow(project[work[i].project])
    <3>1. Whole(project[work[i].project])
      BY RowAt DEF Inv, ProjectsOK
    <3> QED BY <3>1, WholeIsRow, RowIsRow
  <2> QED BY <2>1
<1>3. ASSUME NEW i \in DOMAIN work, Claim(i)
      PROVE  Listed'
  <2> DEFINE q == project[work[i].project]
             new == WithState(q, work[i].attempt, "running")
  <2>1. WorkerRevises(work[i].project, new) /\ library' = library
    BY <1>3 DEF Claim, WithState
  <2>2. IsRow(new) /\ new.saved = q.saved
    BY <1>2, SavedApart DEF WithState
  <2> HIDE DEF new
  <2> QED BY <1>1, <2>1, <2>2
<1>4. ASSUME NEW outcome \in AdapterOutcomes, Settle(outcome)
      PROVE  Listed'
  <2> DEFINE i == turn.row
             q == project[work[i].project]
             a == work[i].attempt
             s == q.attempts[a].stage
             ended == WithState(q, a, StateFor(outcome))
             kept == IF outcome = "sha256" THEN WithResult(ended, a, s)
                                           ELSE ended
             new == RestoreLineage(kept)
  <2>1. i \in DOMAIN work
    <3>1. turn.at = "claimed"
      BY <1>4 DEF Settle
    <3>2. turn # Idle
      BY <3>1 DEF Idle
    <3> QED BY <3>2 DEF Inv, TurnOK
  <2>2. WorkerRevises(work[i].project, new) /\ library' = library
    BY <1>4 DEF Settle, WithState, StateFor
  <2>3. IsRow(ended) /\ ended.saved = q.saved
    BY <1>2, <2>1, SavedApart DEF WithState
  <2> HIDE DEF ended
  <2>4. IsRow(kept) /\ kept.saved = q.saved
    BY <2>3, ResultKeepsSaved
  <2> HIDE DEF kept
  <2>5. new.saved = q.saved
    BY <2>4, RestoreKeepsSaved
  <2>6. work[i].project \in Existing
    BY <2>1, RowAt
  <2> HIDE DEF new
  <2> QED BY <2>2, <2>5, <2>6, ListedAmended DEF WorkerRevises
<1> QED BY <1>3, <1>4

LEMMA ListedStep ==
  ASSUME Inv, Listed, [Next]_vars
  PROVE  Listed'
<1>1. ASSUME NEW c \in Clients, NEW p \in Projects, Intent(c, p)
      PROVE  Listed'
  <2>1. p \in Existing /\ Whole(project[p])
    BY <1>1, IntentChanges, ChangeFacts
  <2>2. IsRow(project[p])
    BY <2>1, WholeIsRow, RowIsRow
  <2>3. CASE Amends(c, p)
    <3>1. PICK new : /\ Revise(c, p, new) /\ new.saved = project[p].saved
                     /\ UNCHANGED library
      BY <2>3 DEF Amends
    <3> QED BY <2>1, <3>1, ListedAmended DEF Revise
  <2>4. CASE \E s \in Stages : SaveCurrentResult(c, p, s)
    BY <2>4, SaveLists
  <2> QED BY <1>1, <2>2, <2>3, <2>4, IntentsAmend
<1>2. ASSUME NEW c \in Clients, NEW p \in Projects, Reload(c, p)
      PROVE  Listed'
  BY <1>2, ListedSame DEF Reload, durable
<1>3. ASSUME NEW c \in Clients, NEW p \in Projects, NEW r \in Requests,
             NEW sel \in Selections, Create(c, r, p, sel)
      PROVE  Listed'
  <2> DEFINE new == [sources |-> AssignSuggestedRoles(sel, NoTarget),
                     stages |-> [s \in Stages |-> FreshStage],
                     attempts |-> <<>>, base |-> 0, saved |-> <<>>]
  <2>1. project' = [project EXCEPT ![p] = new] /\ library' = library
    BY <1>3 DEF Create
  <2>2. new.saved = <<>>
    OBVIOUS
  <2> HIDE DEF new
  <2>3. Entries(new.saved) = {}
    BY <2>2 DEF Entries
  <2> QED BY <2>1, <2>3, ListedKept
<1>4. CASE WorkerStep \/ Crash
  <2>1. CASE \/ \E i \in DOMAIN work : Claim(i)
             \/ \E outcome \in AdapterOutcomes : Settle(outcome)
    BY <2>1, WorkerKeepsSaved
  <2>2. CASE \/ WriteTemporary \/ Rename \/ LeaveUnresolved \/ Crash
             \/ \E i \in DOMAIN work : TakeUpClaim(i)
    <3>1. project' = project /\ library' = library
      BY <2>2 DEF WriteTemporary, Rename, LeaveUnresolved, Crash, TakeUpClaim,
                  durable
    <3> QED BY <3>1, ListedSame
  <2> QED BY <1>4, <2>1, <2>2 DEF WorkerStep
<1>5. CASE UNCHANGED vars
  BY <1>5, ListedSame DEF vars
<1> QED BY <1>1, <1>2, <1>3, <1>4, <1>5 DEF Next

-----------------------------------------------------------------------------
(* What the page of a project enables the service accepts.                  *)

\* The master a page opens is a Stacking master that was saved.
LEMMA MasterFacts ==
  ASSUME NEW q, Whole(q), LatestSavedMaster(q) # 0
  PROVE  /\ LatestSavedMaster(q) \in Entries(q.saved)
         /\ q.attempts[LatestSavedMaster(q)].stage = "Stacking"
<1> DEFINE masters == {i \in DOMAIN q.saved :
                         q.attempts[q.saved[i]].stage = "Stacking"}
           last == CHOOSE i \in masters : \A j \in masters : j <= i
<1>1. masters # {} /\ LatestSavedMaster(q) = q.saved[last]
  BY DEF LatestSavedMaster
<1>2. q.saved \in Seq(1..MaxAttempts)
  BY WholeIsRow, Parts
<1>3. Len(q.saved) \in Nat /\ DOMAIN q.saved = 1..Len(q.saved)
  BY <1>2, LenProperties
<1>4. \E i \in masters : \A j \in masters : j <= i
  <2>1. masters \in SUBSET (1..Len(q.saved))
    BY <1>3
  <2> HIDE DEF masters
  <2> QED BY <1>1, <1>3, <2>1, GreatestNumber
<1>5. last \in masters
  <2> HIDE DEF masters
  <2> QED BY <1>4
<1> HIDE DEF last
<1> QED BY <1>1, <1>5 DEF Entries

LEMMA AcceptedCases ==
  ASSUME NEW c, NEW p, NEW button
  PROVE  LET s == button[2]
             stage == project[p].stages[s]
             Takes == Accepted(c, p, button)
         IN /\ button[1] = "replace" =>
                 (Takes <=> Drafts # {} /\ MayRedraft(c, p, s))
            /\ button[1] = "preview" => (Takes <=> MayPreview(c, p))
            /\ button[1] = "run" => (Takes <=> MayRun(c, p, s) /\ Room(p))
            /\ button[1] = "undoDraft" =>
                 (Takes <=> stage.undo # <<>> /\ MayRedraft(c, p, s))
            /\ button[1] = "redoDraft" =>
                 (Takes <=> stage.redo # <<>> /\ MayRedraft(c, p, s))
            /\ button[1] = "undoResult" =>
                 (Takes <=> stage.cursor > 0 /\
                              MayMove(c, p, s, stage.cursor - 1))
            /\ button[1] = "redoResult" =>
                 (Takes <=> MayMove(c, p, s, stage.cursor + 1))
            /\ button[1] = "save" => (Takes <=> MaySave(c, p, s))
            /\ button[1] = "open" =>
                 (Takes <=> MayOpen(c, p, LatestSavedMaster(project[p])))
BY DEF Accepted

\* What an undo or a redo asks for at Calibration is what it gets, and at any
\* other stage what was current is current again.
LEMMA MovedAtCalibration ==
  ASSUME NEW p \in Existing, Whole(project[p]), NEW s \in Stages,
         NEW cursor \in Nat, cursor <= Len(project[p].stages[s].history),
         cursor # project[p].stages[s].cursor
  PROVE  Restored(p, s, cursor).stages[s].cursor # project[p].stages[s].cursor
           <=> s = "Calibration"
<1> DEFINE q == project[p]
           old == q.stages[s]
           new == [old EXCEPT !.cursor = cursor]
           moved == [q EXCEPT !.stages[s] = new]
           r == Restored(p, s, cursor)
<1>1. old \in StageStates /\ StageFits(old) /\ cursor <= Len(old.history)
  BY StageOf DEF Whole, Lawful
<1>2. r = RestoreLineage(moved)
  BY DEF Restored
<1> HIDE DEF old
<1>3. /\ new \in StageStates /\ new.cursor = cursor
      /\ new.history = old.history /\ new.undo = old.undo
      /\ new.redo = old.redo /\ new.draft = old.draft
      /\ new.revision = old.revision /\ new.preview = old.preview
  BY <1>1, SetCursor
<1> HIDE DEF new
<1>4. StageFits(new)
  BY <1>1, <1>3 DEF StageFits
<1>5. Lawful(moved) /\ moved.attempts = q.attempts
  BY <1>3, <1>4, StageMoved DEF Whole, old
<1>6. q \in ProjectRows
  BY DEF Whole, Lawful, Shaped
<1>7. /\ moved.base = q.base /\ moved.stages[s] = new
      /\ \A t \in Stages \ {s} : moved.stages[t] = q.stages[t]
  BY <1>6 DEF ProjectRows
<1> HIDE DEF moved
<1>8. Whole(r) /\ SameResults(r, moved)
  BY <1>2, <1>5, RestoreFacts
<1> HIDE DEF r
<1>9. \A t \in Stages : moved.stages[t].history = q.stages[t].history
  BY <1>3, <1>7 DEF old
<1>10. CASE s = "Calibration"
  <2>1. r.stages[s].cursor = cursor
    BY <1>3, <1>7, <1>8, <1>10 DEF SameResults
  <2> QED BY <1>10, <2>1 DEF r
<1>11. CASE s # "Calibration"
  <2>1. SameResults(r, q)
    BY <1>5, <1>7, <1>8, <1>9, <1>11 DEF SameResults, Stages
  <2>2. r.stages[s].cursor = q.stages[s].cursor
    BY <1>8, <2>1, OneLineage
  <2> QED BY <1>11, <2>2 DEF r
<1> QED BY <1>10, <1>11

LEMMA ButtonMoves ==
  ASSUME Inv, NEW p \in Existing, NEW button \in Buttons(p),
         button[1] \in {"undoResult", "redoResult"}
  PROVE  MovesResult(p, button) <=> button[2] = "Calibration"
<1> DEFINE s == button[2]
           stage == project[p].stages[s]
           asked == IF button[1] = "undoResult" THEN stage.cursor - 1
                    ELSE stage.cursor + 1
<1>1. s \in Stages
  BY DEF Buttons
<1>2. Whole(project[p])
  BY DEF Inv, ProjectsOK, Existing
<1>3. /\ stage.cursor \in Nat /\ stage.cursor <= Len(stage.history)
      /\ Len(stage.history) \in Nat
  <2>1. /\ stage \in StageStates /\ stage.history \in Seq(1..MaxAttempts)
        /\ stage.cursor <= Len(stage.history)
    BY <1>1, <1>2, StageOf DEF Whole
  <2> QED BY <2>1, LenProperties DEF StageStates
<1>4. /\ button[1] = "undoResult" => stage.cursor > 0
      /\ button[1] = "redoResult" => stage.cursor < Len(stage.history)
  BY DEF Buttons, StageView
<1>5. /\ asked \in Nat /\ asked <= Len(stage.history)
      /\ asked # stage.cursor
  <2> DEFINE cursor == stage.cursor
             size == Len(stage.history)
  <2>1. cursor \in Nat /\ size \in Nat /\ cursor <= size
    BY <1>3
  <2>2. CASE button[1] = "undoResult"
    <3>1. cursor > 0 /\ asked = cursor - 1
      BY <1>4, <2>2
    <3> HIDE DEF cursor, size, asked
    <3>2. asked \in Nat /\ asked <= size /\ asked # cursor
      BY <2>1, <3>1
    <3> QED BY <3>2 DEF cursor, size
  <2>3. CASE button[1] = "redoResult"
    <3>1. cursor < size /\ asked = cursor + 1
      BY <1>4, <2>3
    <3> HIDE DEF cursor, size, asked
    <3>2. asked \in Nat /\ asked <= size /\ asked # cursor
      BY <2>1, <3>1
    <3> QED BY <3>2 DEF cursor, size
  <2> QED BY <2>2, <2>3
<1>6. MovesResult(p, button) <=>
        Restored(p, s, asked).stages[s].cursor # stage.cursor
  BY DEF MovesResult
<1> HIDE DEF asked
<1> QED BY <1>1, <1>2, <1>5, <1>6, MovedAtCalibration

LEMMA ButtonAccepted ==
  ASSUME Inv, Listed, turn = Idle, NEW c \in Clients, NEW p \in Existing,
         <<c, p>> \in current, NEW button \in Buttons(p),
         WithinBounds(p, button)
  PROVE  Accepted(c, p, button) <=> ~MasterDropped(p, button)
<1> DEFINE q == project[p]
           kind == button[1]
           s == button[2]
           stage == q.stages[s]
<1>1. /\ s \in Stages
      /\ kind \in {"replace", "preview", "run", "undoDraft", "redoDraft",
                   "undoResult", "redoResult", "save", "open"}
      /\ Active(q) = {}
  BY DEF Buttons
<1>2. Whole(q) /\ q # None
  BY DEF Inv, ProjectsOK, Existing
<1>3. Changeable(c, p)
  BY <1>1, <1>2 DEF Changeable
<1>4. /\ stage.cursor \in Nat /\ stage.cursor <= Len(stage.history)
      /\ Len(stage.history) \in Nat
  <2>1. /\ stage \in StageStates /\ stage.history \in Seq(1..MaxAttempts)
        /\ stage.cursor <= Len(stage.history)
    BY <1>1, <1>2, StageOf DEF Whole
  <2> QED BY <2>1, LenProperties DEF StageStates
<1>5. kind \notin {"preview", "open"} => ~MasterDropped(p, button)
  BY DEF MasterDropped
<1>6. CASE kind = "replace"
  <2>1. Drafts # {} /\ MayRedraft(c, p, s)
    BY <1>3, <1>6 DEF WithinBounds, MayRedraft
  <2> QED BY <1>5, <1>6, <2>1, AcceptedCases
<1>7. CASE kind = "preview"
  <2>1. q.base # 0
    BY <1>7 DEF Buttons
  <2>2. MasterDropped(p, button) <=>
          q.base \notin Entries(q.stages["Stacking"].history)
    BY <1>7 DEF MasterDropped
  <2>3. MayPreview(c, p) <=> q.base \in Entries(q.stages["Stacking"].history)
    BY <1>3, <2>1 DEF MayPreview, DevelopBase
  <2> QED BY <1>7, <2>2, <2>3, AcceptedCases
<1>8. CASE kind = "run"
  <2>1. StageView(p, s).run
    BY <1>8 DEF Buttons
  <2>2. MayRun(c, p, s) /\ Room(p)
    BY <1>3, <1>8, <2>1 DEF StageView, MayRun, WithinBounds
  <2> QED BY <1>5, <1>8, <2>2, AcceptedCases
<1>9. CASE kind \in {"undoDraft", "redoDraft"}
  <2>1. /\ kind = "undoDraft" => stage.undo # <<>>
        /\ kind = "redoDraft" => stage.redo # <<>>
    BY DEF Buttons, StageView
  <2>2. MayRedraft(c, p, s)
    BY <1>3, <1>9 DEF WithinBounds, MayRedraft
  <2> QED BY <1>5, <1>9, <2>1, <2>2, AcceptedCases
<1>10. CASE kind = "undoResult"
  <2>1. stage.cursor > 0
    BY <1>10 DEF Buttons, StageView
  <2>2. stage.cursor - 1 <= Len(stage.history)
    BY <1>4
  <2>3. MayMove(c, p, s, stage.cursor - 1)
    BY <1>3, <2>2 DEF MayMove
  <2> QED BY <1>5, <1>10, <2>1, <2>3, AcceptedCases
<1>11. CASE kind = "redoResult"
  <2>1. stage.cursor < Len(stage.history)
    BY <1>11 DEF Buttons, StageView
  <2>2. stage.cursor + 1 <= Len(stage.history)
    BY <1>4, <2>1
  <2>3. MayMove(c, p, s, stage.cursor + 1)
    BY <1>3, <2>2 DEF MayMove
  <2> QED BY <1>5, <1>11, <2>3, AcceptedCases
<1>12. CASE kind = "save"
  <2>1. s \in Savable /\ CurrentOf(stage) # 0
    BY <1>12 DEF Buttons, StageView
  <2>2. MaySave(c, p, s)
    BY <1>3, <2>1 DEF MaySave, Savable, CurrentResult
  <2> QED BY <1>5, <1>12, <2>2, AcceptedCases
<1>13. CASE kind = "open"
  <2> DEFINE a == LatestSavedMaster(q)
  <2>1. a # 0
    BY <1>13 DEF Buttons
  <2>2. a \in Entries(q.saved) /\ q.attempts[a].stage = "Stacking"
    BY <1>2, <2>1, MasterFacts
  <2>3. Saved(p, a)
    BY <2>2 DEF Listed
  <2>4. MasterDropped(p, button) <=>
          a \notin Entries(q.stages["Stacking"].history)
    BY <1>13 DEF MasterDropped
  <2> HIDE DEF a
  <2>5. MayOpen(c, p, a) <=> a \in Entries(q.stages["Stacking"].history)
    BY <1>3, <2>2, <2>3 DEF MayOpen
  <2> QED BY <1>13, <2>4, <2>5, AcceptedCases DEF a
<1> QED BY <1>1, <1>6, <1>7, <1>8, <1>9, <1>10, <1>11, <1>12, <1>13

\* Whatever was run, undone, redone, drafted, saved or lost, a button that
\* the page of the stored project enables sends an intent that the service
\* accepts, except for the preview and the opening of a master that has left
\* the history, which it always refuses, and an accepted undo or redo of a
\* result moves it at Calibration alone: at every later stage restoreLineage
\* makes the same result current again (stageView, StageControls,
\* processIntent, change, restoreLineage).
THEOREM ButtonsWork == Spec => []OfferedIsAccepted
<1>1. Init => Inv /\ Listed
  BY InvInit DEF Init, Listed, Existing
<1>2. Inv /\ Listed /\ [Next]_vars => Inv' /\ Listed'
  BY InvNext, ListedStep
<1>3. Inv /\ Listed => OfferedIsAccepted
  <2> SUFFICES ASSUME Inv, Listed, turn = Idle,
                      NEW c \in Clients, NEW p \in Existing,
                      <<c, p>> \in current, NEW button \in Buttons(p),
                      WithinBounds(p, button)
               PROVE  /\ Accepted(c, p, button) <=> ~MasterDropped(p, button)
                      /\ button[1] \in {"undoResult", "redoResult"} =>
                           (MovesResult(p, button) <=>
                              button[2] = "Calibration")
    BY DEF OfferedIsAccepted
  <2>1. Accepted(c, p, button) <=> ~MasterDropped(p, button)
    BY ButtonAccepted
  <2>2. button[1] \in {"undoResult", "redoResult"} =>
          (MovesResult(p, button) <=> button[2] = "Calibration")
    BY ButtonMoves
  <2> QED BY <2>1, <2>2
<1> QED BY <1>1, <1>2, <1>3, PTL DEF Spec
=============================================================================
