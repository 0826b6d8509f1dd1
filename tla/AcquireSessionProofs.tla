------------------------ MODULE AcquireSessionProofs ------------------------
(***************************************************************************)
(* A session completes by an image, and with one request at a time that    *)
(* image is newer than the last movement of the mount, the run captures    *)
(* nothing before it, no evidence is lost, and what is taken of the        *)
(* Observe page is what the person at it saw.  With any number of requests *)
(* the session is one its schema accepts with every answer to come, and    *)
(* what its page is offered the origin accepts; one request at a time keeps *)
(* within the budgets of its policy.                                       *)
(***************************************************************************)
EXTENDS ObservePage, TLAPS, FiniteSetTheorems

-----------------------------------------------------------------------------
(* A session is a record of these fields and its evidence is a sequence.   *)
IsSequence(q) == q \in Seq(Within(q))

Fields == {"method", "policy", "revision", "phase", "series", "evidence",
           "work", "proposal", "managed", "latest", "approved"}

Policy == PolicyOf(MaxAttempts, MaxCorrections, MaxRecoveries)

Shaped(s) ==
    /\ s = [x \in Fields |-> s[x]]
    /\ s.method = Method /\ s.policy = Policy
    /\ s.revision \in Nat
    /\ IsSequence(s.evidence)

IdFields == {"root", "path"}

Identity(id) == id = [x \in IdFields |-> id[x]] /\ IsSequence(id.path)

SolveFields == {"kind", "id", "series", "number", "purpose", "verifies"}

SolveShaped(w) ==
    /\ w = [x \in SolveFields |-> w[x]]
    /\ w.kind = "solve"
    /\ Identity(w.id)
    /\ Last(w.id.path) # "correction"

CorrectionShaped(w) ==
    /\ w.kind = "correct"
    /\ Identity(w.id)
    /\ Last(w.id.path) = "correction"

\* The phases a stored session may be in.
Phases ==
    CASE Method = "polar" -> {"polarGuidance", "completed"}
      [] Method = "lunar" ->
           {"solving", "paused", "skipped", "aborted", "completed"}
      [] OTHER ->
           {"solving", "verifying", "awaitingApproval", "paused", "skipped",
            "aborted", "completed"}

SessionFits(s) ==
    /\ Shaped(s)
    /\ ValidPhase(s)
    /\ s.phase \in Phases
    /\ s.work.kind = "solve" => SolveShaped(s.work)
    /\ s.phase = "completed" => Centered(s)

FlightFields == {"step", "base", "by", "key"}

Flight(f) == f = [x \in FlightFields |-> f[x]]

FlightFits(f) ==
    \/ f = Idle
    \/ f.step = "capture" /\ Flight(f) /\ SessionFits(f.base)
         /\ f.base.work.kind = "solve"
    \/ f.step = "correct" /\ Flight(f) /\ Shaped(f.base)
         /\ Method = "deepSky" /\ CorrectionShaped(f.base.work)
    \/ f.step = "frame" /\ Flight(f) /\ SessionFits(f.base)
         /\ f.base.phase = "completed" /\ Method # "polar"
    \/ f.step = "measure" /\ Flight(f) /\ Shaped(f.base)
         /\ Method = "polar"

\* What is stored can be stored, whoever else is at it.
Solid ==
    /\ SessionFits(session)
    /\ flight = [s \in Slots |-> flight[s]]
    /\ \A s \in Slots : FlightFits(flight[s])
    /\ \A id \in DOMAIN outcomes :
         Last(id.path) = "correction" => outcomes[id].result \in Corrections

-----------------------------------------------------------------------------
\* The evidence an attempt of this method leaves.
ImageKinds == IF Method = "lunar" THEN {"lunar"} ELSE {"solve"}
TargetKinds == {"solve", "lunar"}

Awaits(f) == f.step \in {"capture", "correct"}

\* An image that proves the target centred is newer than the last movement.
ImageStands(w, o, m) ==
    (/\ w.kind = "solve" /\ w.id \in DOMAIN o
     /\ o[w.id].result = "centered") => o[w.id].moves = m

\* A correction was approved, or follows from the image being solved.
CorrectionFits(f, s, o) ==
    \/ s.phase = "aborted"
    \/ s.phase = "awaitingApproval" /\ f.base.evidence = s.evidence
    \/ /\ s.work.kind = "solve"
       /\ s.work.id \in DOMAIN o
       /\ o[s.work.id].result = "automatic"
       /\ Ids(f.base, ImageKinds) = Ids(s, ImageKinds) \cup {s.work.id}

\* What a request read is what the session still holds.
RequestFits(f, s, o, m) ==
    /\ f.step = "capture" =>
         /\ f.base.evidence = s.evidence
         /\ s.phase = "aborted" \/ s.work = f.base.work
         /\ ImageStands(f.base.work, o, m)
    /\ f.step = "correct" =>
         /\ Extends(f.base.evidence, s.evidence)
         /\ CorrectionFits(f, s, o)
    /\ f.step = "frame" =>
         /\ s.phase = "completed"
         /\ f.base.evidence = s.evidence
    /\ f.step = "measure" => f.base.evidence = s.evidence

\* An attempt the provider answered is a correction, or recorded, or the
\* session's, or a request's, or of a session that is over.
Accounted(id, s, fl) ==
    \/ Last(id.path) = "correction"
    \/ id \in Ids(s, ImageKinds)
    \/ s.work.kind = "solve" /\ id = s.work.id
    \/ \E r \in Slots :
         /\ Awaits(fl[r])
         /\ id \in Ids(fl[r].base, ImageKinds) \cup {fl[r].base.work.id}
    \/ s.phase = "aborted" /\ \A r \in Slots : ~Awaits(fl[r])

PointingStands(s, o, m) ==
    (s.phase = "completed" /\ Method # "polar") =>
      \A e \in Newest(s, Proving(s)) : o[e.id].moves = m

RunFits(s, phase) ==
    (phase = "capture" /\ Method # "polar") => s.phase = "completed"

Orderly(s, fl, o, m, phase) ==
    /\ \A r \in Slots : RequestFits(fl[r], s, o, m)
    /\ \A id \in DOMAIN o : Accounted(id, s, fl)
    /\ ImageStands(s.work, o, m)
    /\ PointingStands(s, o, m)
    /\ RunFits(s, phase)

One == \A s, t \in Slots : s = t

Inv == Solid /\ (One => Orderly(session, flight, outcomes, moves, run))

-----------------------------------------------------------------------------
(* The operators on evidence.                                              *)

LEMMA AppendFacts ==
    ASSUME NEW q, IsSequence(q), NEW e
    PROVE  /\ IsSequence(Append(q, e))
           /\ Len(q) \in Nat /\ DOMAIN q = 1 .. Len(q)
           /\ DOMAIN Append(q, e) = 1 .. Len(q) + 1
           /\ \A i \in DOMAIN q : Append(q, e)[i] = q[i]
           /\ Append(q, e)[Len(q) + 1] = e
           /\ Extends(Append(q, e), q)
<1> DEFINE r == Append(q, e)
           S == Within(q) \cup {e}
<1>1. q \in Seq(Within(q))
  BY DEF IsSequence
<1>2. Len(q) \in Nat /\ DOMAIN q = 1 .. Len(q)
  BY <1>1
<1>3. q \in Seq(S)
  BY <1>1, <1>2 DEF Within
<1>4. /\ r \in Seq(S) /\ Len(r) = Len(q) + 1
      /\ DOMAIN r = 1 .. Len(q) + 1
      /\ \A i \in DOMAIN q : r[i] = q[i]
      /\ r[Len(q) + 1] = e
  BY <1>2, <1>3
<1>5. r \in Seq(Within(r))
  BY <1>4 DEF Within
<1> QED
  BY <1>2, <1>4, <1>5 DEF IsSequence, Extends

\* Evidence of one of the kinds is the newest of them.
LEMMA NewRecorded ==
    ASSUME NEW s, Shaped(s), NEW t, NEW e, NEW kinds,
           t.evidence = Append(s.evidence, e), e.kind \in kinds
    PROVE  /\ e \in Newest(t, kinds)
           /\ \A x \in Newest(t, kinds) : x = e
           /\ Ids(t, kinds) = Ids(s, kinds) \cup {e.id}
<1> DEFINE q == s.evidence
           r == t.evidence
           n == Len(q) + 1
<1>1. /\ Len(q) \in Nat /\ DOMAIN q = 1 .. Len(q) /\ DOMAIN r = 1 .. n
      /\ \A i \in DOMAIN q : r[i] = q[i]
      /\ r[n] = e
  BY AppendFacts DEF Shaped
<1>2. Places(t, kinds) = Places(s, kinds) \cup {n}
  BY <1>1 DEF Places
<1>3. {i \in Places(t, kinds) : \A j \in Places(t, kinds) : j <= i} = {n}
  BY <1>1, <1>2 DEF Places
<1>4. Of(t, kinds) = Of(s, kinds) \cup {e}
  BY <1>1, <1>2 DEF Of, Places
<1> QED
  BY <1>1, <1>3, <1>4 DEF Newest, Ids

LEMMA OtherRecorded ==
    ASSUME NEW s, Shaped(s), NEW t, NEW e, NEW kinds,
           t.evidence = Append(s.evidence, e), e.kind \notin kinds
    PROVE  Newest(t, kinds) = Newest(s, kinds) /\ Ids(t, kinds) = Ids(s, kinds)
<1> DEFINE q == s.evidence
           r == t.evidence
           n == Len(q) + 1
<1>1. /\ Len(q) \in Nat /\ DOMAIN q = 1 .. Len(q) /\ DOMAIN r = 1 .. n
      /\ \A i \in DOMAIN q : r[i] = q[i]
      /\ r[n] = e
  BY AppendFacts DEF Shaped
<1>2. Places(t, kinds) = Places(s, kinds)
  BY <1>1 DEF Places
<1>3. \A i \in Places(s, kinds) : r[i] = q[i]
  BY <1>1 DEF Places
<1>4. Of(t, kinds) = Of(s, kinds)
  BY <1>2, <1>3 DEF Of
<1>5. Newest(t, kinds) = Newest(s, kinds)
  BY <1>2, <1>3 DEF Newest
<1> QED
  BY <1>4, <1>5 DEF Ids

LEMMA SameEvidence ==
    ASSUME NEW s, NEW t, t.evidence = s.evidence, NEW kinds
    PROVE  Newest(t, kinds) = Newest(s, kinds) /\ Ids(t, kinds) = Ids(s, kinds)
BY DEF Newest, Ids, Of, Places

LEMMA ExtendsFacts ==
    /\ \A q : Extends(q, q)
    /\ \A q, p, o : Extends(q, p) /\ Extends(p, o) => Extends(q, o)
    /\ \A s, t, kinds : Extends(t.evidence, s.evidence) =>
         Ids(s, kinds) \subseteq Ids(t, kinds)
<1>1. \A s, t, kinds : Extends(t.evidence, s.evidence) =>
        Ids(s, kinds) \subseteq Ids(t, kinds)
  <2> SUFFICES ASSUME NEW s, NEW t, NEW kinds,
                      Extends(t.evidence, s.evidence)
               PROVE  Ids(s, kinds) \subseteq Ids(t, kinds)
    OBVIOUS
  <2>1. \A i \in Places(s, kinds) :
          i \in Places(t, kinds) /\ t.evidence[i] = s.evidence[i]
    BY DEF Places, Extends
  <2> QED
    BY <2>1 DEF Ids, Of
<1> QED
  BY <1>1 DEF Extends

\* A session is of the method and the policy of the run.
LEMMA MethodFacts ==
    /\ \A s : Shaped(s) => s.method = Method /\ s.policy = Policy
    /\ \A s : SessionFits(s) => s.method = Method /\ s.policy = Policy
    /\ Solid => session.method = Method /\ session.policy = Policy
BY DEF Shaped, SessionFits, Solid

LEMMA ProvingFacts ==
    ASSUME NEW s, s.method = Method, ValidPhase(s)
    PROVE  /\ s.series = <<>> <=> Method = "polar"
           /\ Proving(s) = IF Method = "polar" THEN {"polar"}
                                               ELSE {"solve", "lunar"}
BY DEF ValidPhase, Proving

\* An identity made of another ends in the part it was given.
LEMMA SuffixFacts ==
    ASSUME NEW id, Identity(id), NEW part
    PROVE  /\ Identity(Suffixed(id, part))
           /\ Last(Suffixed(id, part).path) = part
<1> DEFINE t == Suffixed(id, part)
           p == Append(id.path, part)
<1>1. t = [x \in IdFields |-> t[x]] /\ t.path = p
  BY DEF Identity, IdFields, Suffixed
<1>2. /\ IsSequence(p) /\ DOMAIN p = 1 .. Len(id.path) + 1
      /\ p[Len(id.path) + 1] = part /\ Len(id.path) \in Nat
  BY AppendFacts DEF Identity
<1>3. Len(p) = Len(id.path) + 1
  <2>1. id.path \in Seq(Within(id.path) \cup {part})
    <3>1. id.path \in Seq(Within(id.path))
      BY DEF Identity, IsSequence
    <3> QED
      BY <3>1
  <2> QED
    BY <2>1
<1> HIDE DEF t, p
<1> QED
  BY <1>1, <1>2, <1>3 DEF Identity, Last, t

LEMMA MintFacts ==
    ASSUME NEW s, NEW part
    PROVE  /\ Identity(Minted(s, part))
           /\ Last(Minted(s, part).path) = part
<1> DEFINE p == <<part>>
<1>1. p \in Seq({part}) /\ Len(p) = 1 /\ p[1] = part /\ DOMAIN p = {1}
  OBVIOUS
<1>2. Within(p) = {part}
  BY <1>1 DEF Within
<1>3. Minted(s, part) = [root |-> s.revision + 1, path |-> p]
  BY DEF Minted
<1> HIDE DEF p
<1> QED
  BY <1>1, <1>2, <1>3 DEF Identity, IdFields, IsSequence, Last

-----------------------------------------------------------------------------
(* The transitions of the domain, by phase, work and evidence.             *)

LEMMA AdvanceFacts ==
    ASSUME NEW s, Shaped(s), NEW phase, NEW work, NEW proposal
    PROVE  LET t == Advance(s, phase, work, proposal)
           IN /\ Shaped(t)
              /\ t.phase = phase /\ t.work = work
              /\ t.evidence = s.evidence /\ t.series = s.series
              /\ t.latest = s.latest
<1> DEFINE t == Advance(s, phase, work, proposal)
<1>1. t = [x \in Fields |-> t[x]]
  BY DEF Advance, Shaped, Fields
<1>2. /\ t.phase = phase /\ t.work = work /\ t.revision = s.revision + 1
      /\ t.evidence = s.evidence /\ t.series = s.series
      /\ t.latest = s.latest
      /\ t.method = s.method /\ t.policy = s.policy
  BY DEF Advance, Shaped, Fields
<1> HIDE DEF t
<1> QED
  BY <1>1, <1>2 DEF Shaped, t

\* A field of the series, the managed capture or the measurements changes.
LEMMA FieldFacts ==
    ASSUME NEW s, Shaped(s), NEW x,
           NEW t, t \in {[s EXCEPT !.series = x], [s EXCEPT !.latest = x],
                         [s EXCEPT !.approved = x],
                         [s EXCEPT !.revision = @ + 1], Managed(s, x)}
    PROVE  /\ Shaped(t)
           /\ t.evidence = s.evidence
           /\ t.phase = s.phase /\ t.work = s.work
<1>1. CASE t = [s EXCEPT !.series = x]
  BY <1>1 DEF Shaped, Fields
<1>2. CASE t = [s EXCEPT !.latest = x]
  BY <1>2 DEF Shaped, Fields
<1>3. CASE t = [s EXCEPT !.approved = x]
  BY <1>3 DEF Shaped, Fields
<1>4. CASE t = [s EXCEPT !.revision = @ + 1]
  BY <1>4 DEF Shaped, Fields
<1>5. CASE t = Managed(s, x)
  <2> DEFINE u == Managed(s, x)
  <2>1. u = [y \in Fields |-> u[y]]
    BY DEF Shaped, Fields, Managed
  <2>2. /\ u.revision = s.revision + 1 /\ u.evidence = s.evidence
        /\ u.phase = s.phase /\ u.work = s.work
        /\ u.method = s.method /\ u.policy = s.policy
    BY DEF Shaped, Fields, Managed
  <2> HIDE DEF u
  <2> QED
    BY <1>5, <2>1, <2>2 DEF Shaped, u
<1> QED
  BY <1>1, <1>2, <1>3, <1>4, <1>5

LEMMA RecordFacts ==
    ASSUME NEW s, Shaped(s), NEW e
    PROVE  LET t == Recorded(s, e)
           IN /\ Shaped(t)
              /\ t.evidence = Append(s.evidence, e)
              /\ t.phase = s.phase /\ t.work = s.work /\ t.series = s.series
              /\ t.revision = s.revision
<1> DEFINE t == Recorded(s, e)
<1>1. /\ t = [x \in Fields |-> t[x]]
      /\ t.evidence = Append(s.evidence, e) /\ t.revision = s.revision
      /\ t.phase = s.phase /\ t.work = s.work /\ t.series = s.series
      /\ t.method = s.method /\ t.policy = s.policy
  BY DEF Recorded, Shaped, Fields
<1>2. IsSequence(Append(s.evidence, e)) /\ s.revision \in Nat
  BY AppendFacts DEF Shaped
<1> HIDE DEF t
<1> QED
  BY <1>1, <1>2 DEF Shaped, t

LEMMA CompleteFacts ==
    ASSUME NEW s, Shaped(s), NEW e
    PROVE  LET t == Completes(s, e)
           IN /\ Shaped(t)
              /\ t.evidence = Append(s.evidence, e)
              /\ t.phase = s.phase /\ t.work = s.work
<1> DEFINE r == Recorded(s, e)
           x == [i \in DOMAIN s.series |->
                   IF s.series[i].id = s.work.series
                   THEN [s.series[i] EXCEPT !.done = Append(@, s.work.id)]
                   ELSE s.series[i]]
           t == [r EXCEPT !.series = x]
<1>1. /\ Shaped(r) /\ r.evidence = Append(s.evidence, e)
      /\ r.phase = s.phase /\ r.work = s.work
  BY RecordFacts
<1>2. Completes(s, e) = t
  BY DEF Completes
<1> HIDE DEF r, x
<1>3. /\ Shaped(t) /\ t.evidence = r.evidence
      /\ t.phase = r.phase /\ t.work = r.work
  BY <1>1, FieldFacts
<1> QED
  BY <1>1, <1>2, <1>3

LEMMA SlewFacts ==
    ASSUME NEW s, Shaped(s)
    PROVE  LET t == SlewAcknowledged(s)
           IN /\ Shaped(t)
              /\ t.phase = s.phase /\ t.work = s.work
              /\ Extends(t.evidence, s.evidence)
              /\ Ids(t, ImageKinds) = Ids(s, ImageKinds)
<1> DEFINE e == [kind |-> "slew", id |-> s.work.id]
           r == Recorded(s, e)
           t == [r EXCEPT !.revision = @ + 1]
<1>1. CASE s.work.purpose = "initial"
  <2>1. /\ Shaped(r) /\ r.evidence = Append(s.evidence, e)
        /\ r.phase = s.phase /\ r.work = s.work /\ r.series = s.series
    BY RecordFacts
  <2> HIDE DEF r, e
  <2>2. /\ Shaped(t) /\ t.evidence = r.evidence /\ t.phase = r.phase
        /\ t.work = r.work
    BY <2>1, FieldFacts
  <2> HIDE DEF t
  <2>0. t.evidence = Append(s.evidence, e)
    BY <2>1, <2>2
  <2>3. Extends(t.evidence, s.evidence)
    <3>1. IsSequence(s.evidence)
      BY DEF Shaped
    <3>2. Extends(Append(s.evidence, e), s.evidence)
      BY <3>1, AppendFacts
    <3> QED
      BY <2>0, <3>2
  <2>4. e.kind \notin ImageKinds
    BY DEF ImageKinds, e
  <2>5. Ids(t, ImageKinds) = Ids(s, ImageKinds)
    BY <2>0, <2>4, OtherRecorded
  <2>6. SlewAcknowledged(s) = t
    BY <1>1 DEF SlewAcknowledged, r, e, t
  <2> QED
    BY <2>1, <2>2, <2>3, <2>5, <2>6
<1>2. CASE s.work.purpose # "initial"
  BY <1>2, ExtendsFacts DEF SlewAcknowledged
<1> QED
  BY <1>1, <1>2

\* What an image of the session's work leads to.
Imaged(s, t, result) ==
    /\ Shaped(t)
    /\ Extends(t.evidence, s.evidence)
    /\ Ids(t, ImageKinds) = Ids(s, ImageKinds) \cup {s.work.id}
    /\ \E e \in Newest(t, TargetKinds) : TRUE
    /\ \A e \in Newest(t, TargetKinds) :
         e.id = s.work.id /\ e.result = result
    /\ t.phase = "completed" => result = "centered"
    /\ t.phase \in {"completed", "paused"} \/
         /\ Method # "lunar"
         /\ t.phase \in {s.phase, "awaitingApproval", "correcting"}
    /\ t.work.kind = "solve" => SolveShaped(t.work)
    /\ t.work.kind = "correct" =>
         /\ Method # "lunar" /\ result = "automatic"
         /\ CorrectionShaped(t.work)

LEMMA SolveFacts ==
    ASSUME NEW s, Shaped(s), SolveShaped(s.work),
           s.phase \in {"solving", "verifying"}, Method # "lunar",
           NEW result, NEW at
    PROVE  Imaged(s, AfterSolve(s, result, at), result)
<1> DEFINE e == [kind |-> "solve", id |-> s.work.id,
                 series |-> s.work.series, verifies |-> s.work.verifies,
                 result |-> result]
           c == Completes(s, e)
           again == [s.work EXCEPT !.id = Suffixed(@, "retry"),
                                   !.number = @ + 1, !.purpose = "retry"]
           correction == [kind |-> "correct",
                          id |-> Suffixed(s.work.id, "correction"),
                          basedOn |-> s.work.id, basis |-> "measuredInverse",
                          vector |-> result]
           proposal == [revision |-> s.revision + 1,
                        id |-> Suffixed(s.work.id, "proposal"),
                        basedOn |-> s.work.id, basis |-> "measuredInverse",
                        vector |-> result, expires |-> at + 1]
<1>1. Shaped(c) /\ c.evidence = Append(s.evidence, e)
  BY CompleteFacts
<1>2. /\ e.kind = "solve" /\ e.id = s.work.id /\ e.result = result
      /\ e.kind \in ImageKinds /\ e.kind \in TargetKinds
  BY DEF ImageKinds, TargetKinds
<1>3. again.kind = "solve" /\ SolveShaped(again)
  <2>1. again = [x \in SolveFields |-> again[x]] /\ again.kind = "solve"
        /\ again.id = Suffixed(s.work.id, "retry")
    BY DEF SolveShaped, SolveFields
  <2> HIDE DEF again
  <2>2. Identity(s.work.id)
    BY DEF SolveShaped
  <2>3. Identity(again.id) /\ Last(again.id.path) = "retry"
    BY <2>1, <2>2, SuffixFacts
  <2> QED
    BY <2>1, <2>3 DEF SolveShaped
<1>4. correction.kind = "correct" /\ CorrectionShaped(correction)
  <2>1. correction.kind = "correct"
        /\ correction.id = Suffixed(s.work.id, "correction")
    OBVIOUS
  <2> HIDE DEF correction
  <2>2. Identity(s.work.id)
    BY DEF SolveShaped
  <2>3. Identity(correction.id)
        /\ Last(correction.id.path) = "correction"
    BY <2>1, <2>2, SuffixFacts
  <2> QED
    BY <2>1, <2>3 DEF CorrectionShaped
<1> DEFINE t == AfterSolve(s, result, at)
<1>5. \/ result = "centered"
           /\ t = Advance(c, "completed", NoWork, NoProposal)
      \/ t = Advance(c, s.phase, again, NoProposal)
      \/ result = "automatic"
           /\ t = Advance(c, "correcting", correction, NoProposal)
      \/ t = Advance(c, "awaitingApproval", NoWork, proposal)
      \/ t = Advance(c, "paused", NoWork, NoProposal)
  BY DEF AfterSolve
<1> HIDE DEF e, c, again, correction, proposal, t
<1>6. /\ Shaped(t) /\ t.evidence = c.evidence
      /\ \/ result = "centered" /\ t.phase = "completed" /\ t.work = NoWork
         \/ t.phase = s.phase /\ t.work = again
         \/ /\ result = "automatic" /\ t.phase = "correcting"
            /\ t.work = correction
         \/ t.phase \in {"awaitingApproval", "paused"} /\ t.work = NoWork
  BY <1>1, <1>5, AdvanceFacts
<1>7. t.evidence = Append(s.evidence, e)
  BY <1>1, <1>6
<1>8. /\ e \in Newest(t, TargetKinds)
      /\ \A x \in Newest(t, TargetKinds) : x = e
  <2>1. e.kind \in TargetKinds
    BY <1>2
  <2> QED
    BY <1>7, <2>1, NewRecorded
<1>9. Ids(t, ImageKinds) = Ids(s, ImageKinds) \cup {s.work.id}
  <2>1. e.kind \in ImageKinds /\ e.id = s.work.id
    BY <1>2
  <2> QED
    BY <1>7, <2>1, NewRecorded
<1>10. Extends(t.evidence, s.evidence)
  <2>1. Extends(Append(s.evidence, e), s.evidence)
    BY AppendFacts DEF Shaped
  <2> QED
    BY <1>7, <2>1
<1>11. NoWork.kind = "none"
  BY DEF NoWork
<1>12. /\ t.phase = "completed" => result = "centered"
       /\ t.phase \in {"completed", "paused"} \/
            t.phase \in {s.phase, "awaitingApproval", "correcting"}
       /\ t.work.kind = "solve" => SolveShaped(t.work)
       /\ t.work.kind = "correct" =>
            result = "automatic" /\ CorrectionShaped(t.work)
  BY <1>3, <1>4, <1>6, <1>11
<1> QED
  BY <1>2, <1>6, <1>8, <1>9, <1>10, <1>12 DEF Imaged, t

LEMMA LimbFacts ==
    ASSUME NEW s, Shaped(s), Method = "lunar", NEW result
    PROVE  Imaged(s, AfterLimb(s, result), result)
<1> DEFINE e == [kind |-> "lunar", id |-> s.work.id, result |-> result]
           c == Completes(s, e)
           phase == IF result = "centered" THEN "completed" ELSE "paused"
           t == Advance(c, phase, NoWork, NoProposal)
<1>1. Shaped(c) /\ c.evidence = Append(s.evidence, e)
  BY CompleteFacts
<1>2. /\ e.kind = "lunar" /\ e.id = s.work.id /\ e.result = result
      /\ e.kind \in ImageKinds /\ e.kind \in TargetKinds
  BY DEF ImageKinds, TargetKinds
<1>3. /\ phase \in {"completed", "paused"}
      /\ phase = "completed" => result = "centered"
  OBVIOUS
<1>4. AfterLimb(s, result) = t
  BY DEF AfterLimb
<1> HIDE DEF e, c, phase
<1>5. /\ Shaped(t) /\ t.evidence = Append(s.evidence, e)
      /\ t.phase = phase /\ t.work = NoWork
  BY <1>1, AdvanceFacts
<1> HIDE DEF t
<1>6. /\ e \in Newest(t, TargetKinds)
      /\ \A x \in Newest(t, TargetKinds) : x = e
  BY <1>2, <1>5, NewRecorded
<1>7. Ids(t, ImageKinds) = Ids(s, ImageKinds) \cup {s.work.id}
  BY <1>2, <1>5, NewRecorded
<1>8. Extends(t.evidence, s.evidence)
  <2>1. Extends(Append(s.evidence, e), s.evidence)
    BY AppendFacts DEF Shaped
  <2> QED
    BY <1>5, <2>1
<1>9. NoWork.kind = "none"
  BY DEF NoWork
<1> QED
  BY <1>2, <1>3, <1>4, <1>5, <1>6, <1>7, <1>8, <1>9 DEF Imaged

LEMMA CaptureFacts ==
    ASSUME NEW s, Shaped(s), SolveShaped(s.work),
           s.phase \in {"solving", "verifying"}, NEW result, NEW at
    PROVE  Imaged(s, AfterCapture(s, result, at), result)
<1> DEFINE r == SlewAcknowledged(s)
           t == AfterCapture(s, result, at)
<1>1. /\ Shaped(r) /\ r.phase = s.phase /\ r.work = s.work
      /\ Extends(r.evidence, s.evidence)
      /\ Ids(r, ImageKinds) = Ids(s, ImageKinds)
  BY SlewFacts
<1>2. t = IF Method = "lunar" THEN AfterLimb(r, result)
                             ELSE AfterSolve(r, result, at)
  BY MethodFacts DEF AfterCapture
<1> HIDE DEF r, t
<1>3. Imaged(r, t, result)
  BY <1>1, <1>2, SolveFacts, LimbFacts
<1>4. Extends(t.evidence, s.evidence)
  BY <1>1, <1>3, ExtendsFacts DEF Imaged
<1> QED
  BY <1>1, <1>3, <1>4 DEF Imaged, t

\* A step to another phase that leaves the evidence alone.
Moved(s, t, phase) ==
    Shaped(t) /\ t.evidence = s.evidence /\ t.phase = phase

LEMMA RecoveryFacts ==
    ASSUME NEW s, Shaped(s), NEW parameters
    PROVE  LET t == Recovering(s, parameters)
           IN /\ Moved(s, t, "solving")
              /\ t.work.kind = "solve" /\ SolveShaped(t.work)
<1> DEFINE id == Minted(s, "recovery")
           x == Append(s.series, Series(id, "operatorRecovery", parameters,
                                        NoAttempt))
           r == [s EXCEPT !.series = x]
           w == SolveWork(Minted(s, "recovery-solve"), id, "initial",
                          NoAttempt)
           t == Advance(r, "solving", w, NoProposal)
<1>1. Recovering(s, parameters) = t
  BY DEF Recovering
<1>2. /\ w = [y \in SolveFields |-> w[y]] /\ w.kind = "solve"
      /\ w.id = Minted(s, "recovery-solve")
  BY DEF SolveWork, SolveFields
<1> HIDE DEF w, x
<1>3. SolveShaped(w)
  BY <1>2, MintFacts DEF SolveShaped
<1>4. Shaped(r) /\ r.evidence = s.evidence
  BY FieldFacts
<1> HIDE DEF r
<1>5. Shaped(t) /\ t.evidence = r.evidence /\ t.phase = "solving"
      /\ t.work = w
  BY <1>4, AdvanceFacts
<1> QED
  BY <1>1, <1>2, <1>3, <1>4, <1>5 DEF Moved

LEMMA ApprovalFacts ==
    ASSUME NEW s, Shaped(s)
    PROVE  LET t == Approved(s)
           IN Moved(s, t, "correcting") /\ CorrectionShaped(t.work)
<1> DEFINE w == [kind |-> "correct", id |-> Minted(s, "correction"),
                 basedOn |-> s.proposal.basedOn, basis |-> s.proposal.basis,
                 vector |-> s.proposal.vector]
           t == Advance(s, "correcting", w, NoProposal)
<1>1. Approved(s) = t
  BY DEF Approved
<1>2. w.kind = "correct" /\ w.id = Minted(s, "correction")
  OBVIOUS
<1> HIDE DEF w
<1>3. CorrectionShaped(w)
  BY <1>2, MintFacts DEF CorrectionShaped
<1>4. Shaped(t) /\ t.evidence = s.evidence /\ t.phase = "correcting"
      /\ t.work = w
  BY AdvanceFacts
<1> QED
  BY <1>1, <1>3, <1>4 DEF Moved

LEMMA RevisionFacts ==
    ASSUME NEW s, Shaped(s), NEW vector
    PROVE  LET t == Revised(s, vector)
           IN Moved(s, t, "awaitingApproval") /\ t.work = NoWork
BY AdvanceFacts DEF Revised, Moved

LEMMA ScheduleFacts ==
    ASSUME NEW s, Shaped(s)
    PROVE  Moved(s, Scheduled(s), "polarMeasuring")
BY AdvanceFacts DEF Scheduled, Moved

LEMMA AcceptanceFacts ==
    ASSUME NEW s, Shaped(s)
    PROVE  LET t == PolarAccepted(s)
           IN Moved(s, t, "completed") /\ t.work = NoWork
<1> DEFINE r == Advance(s, "completed", NoWork, NoProposal)
           t == [r EXCEPT !.approved = s.latest]
<1>1. PolarAccepted(s) = t
  BY DEF PolarAccepted
<1>2. Shaped(r) /\ r.evidence = s.evidence /\ r.phase = "completed"
      /\ r.work = NoWork
  BY AdvanceFacts
<1> HIDE DEF r
<1>3. Shaped(t) /\ t.evidence = r.evidence /\ t.phase = r.phase
      /\ t.work = r.work
  BY <1>2, FieldFacts
<1> QED
  BY <1>1, <1>2, <1>3 DEF Moved

LEMMA MeasureFacts ==
    ASSUME NEW s, Shaped(s), NEW result
    PROVE  LET t == AfterMeasure(s, result)
           IN /\ Shaped(t) /\ Extends(t.evidence, s.evidence)
              /\ t.phase = "polarGuidance" /\ t.work = NoWork
<1> DEFINE e == [kind |-> "polar", id |-> s.work.id, result |-> result]
           q == Recorded(s, e)
           r == Advance(q, "polarGuidance", NoWork, NoProposal)
           t == [r EXCEPT !.latest = s.work.id]
<1>1. AfterMeasure(s, result) = t
  BY DEF AfterMeasure
<1> HIDE DEF e
<1>2. Shaped(q) /\ q.evidence = Append(s.evidence, e)
  BY RecordFacts
<1> HIDE DEF q
<1>3. Shaped(r) /\ r.evidence = q.evidence /\ r.phase = "polarGuidance"
      /\ r.work = NoWork
  BY <1>2, AdvanceFacts
<1> HIDE DEF r
<1>4. Shaped(t) /\ t.evidence = r.evidence /\ t.phase = r.phase
      /\ t.work = r.work
  BY <1>3, FieldFacts
<1> HIDE DEF t
<1>5. Extends(Append(s.evidence, e), s.evidence)
  BY AppendFacts DEF Shaped
<1>6. Extends(t.evidence, s.evidence)
  BY <1>2, <1>3, <1>4, <1>5
<1> QED
  BY <1>1, <1>3, <1>4, <1>6

LEMMA FrameFacts ==
    ASSUME NEW s, Shaped(s), NEW frame, NEW quality
    PROVE  LET t == AfterFrame(s, frame, quality)
           IN /\ Shaped(t) /\ Extends(t.evidence, s.evidence)
              /\ t.phase = s.phase /\ t.work = s.work
              /\ Newest(t, TargetKinds) = Newest(s, TargetKinds)
              /\ Ids(t, ImageKinds) = Ids(s, ImageKinds)
<1> DEFINE e == [kind |-> "frame", id |-> frame, quality |-> quality]
           r == Recorded(s, e)
           t == [r EXCEPT !.revision = @ + 1]
<1>1. AfterFrame(s, frame, quality) = t
  BY DEF AfterFrame
<1>2. e.kind \notin TargetKinds /\ e.kind \notin ImageKinds
  BY DEF TargetKinds, ImageKinds
<1> HIDE DEF e
<1>3. Shaped(r) /\ r.evidence = Append(s.evidence, e)
      /\ r.phase = s.phase /\ r.work = s.work
  BY RecordFacts
<1> HIDE DEF r
<1>4. Shaped(t) /\ t.evidence = r.evidence /\ t.phase = r.phase
      /\ t.work = r.work
  BY <1>3, FieldFacts
<1> HIDE DEF t
<1>5. t.evidence = Append(s.evidence, e)
  BY <1>3, <1>4
<1>6. Extends(Append(s.evidence, e), s.evidence)
  BY AppendFacts DEF Shaped
<1>7. Extends(t.evidence, s.evidence)
  BY <1>5, <1>6
<1>8. Newest(t, TargetKinds) = Newest(s, TargetKinds)
  BY <1>2, <1>5, OtherRecorded
<1>9. Ids(t, ImageKinds) = Ids(s, ImageKinds)
  BY <1>2, <1>5, OtherRecorded
<1> QED
  BY <1>1, <1>3, <1>4, <1>7, <1>8, <1>9

LEMMA CorrectionFacts ==
    ASSUME NEW s, Shaped(s), CorrectionShaped(s.work),
           NEW answer \in Corrections
    PROVE  LET t == AfterCorrection(s, answer)
           IN /\ Shaped(t) /\ Extends(t.evidence, s.evidence)
              /\ Ids(t, ImageKinds) = Ids(s, ImageKinds)
              /\ \/ t.phase = "paused" /\ t.work = NoWork
                 \/ /\ t.phase = "verifying" /\ t.work.kind = "solve"
                    /\ SolveShaped(t.work)
<1> DEFINE e == [kind |-> answer, id |-> s.work.id,
                 basedOn |-> s.work.basedOn]
           r == Recorded(s, e)
           i == Suffixed(s.work.id, "verification")
           x == Append(r.series, Series(i, "correctionVerification",
                                        Last(s.series).parameters,
                                        s.work.id))
           v == [r EXCEPT !.series = x]
           w == SolveWork(Suffixed(s.work.id, "verification-1"), i,
                          "verification", s.work.id)
           t == AfterCorrection(s, answer)
<1>1. \/ t = Advance(r, "paused", NoWork, NoProposal)
      \/ t = Advance(v, "verifying", w, NoProposal)
  BY DEF AfterCorrection
<1>2. /\ w = [y \in SolveFields |-> w[y]] /\ w.kind = "solve"
      /\ w.id = Suffixed(s.work.id, "verification-1")
  BY DEF SolveWork, SolveFields
<1>3. e.kind \notin ImageKinds
  BY DEF ImageKinds, Corrections
<1> HIDE DEF e, x, w
<1>4. SolveShaped(w)
  BY <1>2, SuffixFacts DEF SolveShaped, CorrectionShaped
<1>5. Shaped(r) /\ r.evidence = Append(s.evidence, e)
  BY RecordFacts
<1> HIDE DEF r
<1>6. Shaped(v) /\ v.evidence = r.evidence
  BY <1>5, FieldFacts
<1> HIDE DEF v, t
<1>7. /\ Shaped(t) /\ t.evidence = r.evidence
      /\ \/ t.phase = "paused" /\ t.work = NoWork
         \/ t.phase = "verifying" /\ t.work = w
  BY <1>1, <1>5, <1>6, AdvanceFacts
<1>8. t.evidence = Append(s.evidence, e)
  BY <1>5, <1>7
<1>9. Extends(Append(s.evidence, e), s.evidence)
  BY AppendFacts DEF Shaped
<1>10. Extends(t.evidence, s.evidence)
  BY <1>8, <1>9
<1>11. Ids(t, ImageKinds) = Ids(s, ImageKinds)
  BY <1>3, <1>8, OtherRecorded
<1> QED
  BY <1>2, <1>4, <1>7, <1>10, <1>11 DEF t

-----------------------------------------------------------------------------
(* What is stored fits, whoever else is at it.                             *)

LEMMA FreshWork ==
    ASSUME NEW t, Shaped(t), Valid(t), t.work.kind = "solve"
    PROVE  t.work.id \notin Ids(t, ImageKinds)
<1>1. ValidWork(t)
  BY DEF Valid
<1> QED
  BY <1>1, MethodFacts DEF ValidWork, ImageKinds

LEMMA UnchangedFits ==
    ASSUME NEW s, SessionFits(s), NEW t, Shaped(t), Valid(t),
           t.evidence = s.evidence, t.phase = s.phase, t.work = s.work
    PROVE  SessionFits(t)
<1>1. ValidPhase(s) /\ ValidPhase(t)
  BY DEF SessionFits, Valid
<1>2. Proving(t) = Proving(s)
  BY <1>1, ProvingFacts, MethodFacts
<1>3. Newest(t, Proving(t)) = Newest(s, Proving(s))
  BY <1>2, SameEvidence
<1>4. Centered(s) => Centered(t)
  BY <1>3 DEF Centered
<1> QED
  BY <1>1, <1>4 DEF SessionFits

\* A session that is not complete fits by its phase and its work.
LEMMA OpenFits ==
    ASSUME NEW t, Shaped(t), Valid(t), t.phase \in Phases,
           t.phase # "completed",
           t.work.kind = "solve" => SolveShaped(t.work)
    PROVE  SessionFits(t)
BY DEF SessionFits, Valid

LEMMA PhaseFacts ==
    /\ \A s : SessionFits(s) =>
         /\ s.work.kind = "solve" => s.phase \in {"solving", "verifying"}
         /\ s.phase \in {"solving", "verifying"} => s.work.kind = "solve"
         /\ s.work.kind # "correct"
         /\ Approvable(s) => s.phase = "awaitingApproval"
         /\ s.phase \in {"solving", "verifying"} => Method # "polar"
         /\ s.phase = "awaitingApproval" => Method \notin {"polar", "lunar"}
         /\ s.phase = "polarGuidance" => Method = "polar"
         /\ s.phase = "paused" => Method # "polar"
    /\ NoWork.kind = "none"
<1>1. ASSUME NEW s, SessionFits(s)
      PROVE  /\ s.work.kind = "solve" => s.phase \in {"solving", "verifying"}
             /\ s.phase \in {"solving", "verifying"} => s.work.kind = "solve"
             /\ s.work.kind # "correct"
             /\ Approvable(s) => s.phase = "awaitingApproval"
             /\ s.phase \in {"solving", "verifying"} => Method # "polar"
             /\ s.phase = "awaitingApproval" =>
                  Method \notin {"polar", "lunar"}
             /\ s.phase = "polarGuidance" => Method = "polar"
             /\ s.phase = "paused" => Method # "polar"
  <2>1. s.phase \in Phases /\ ValidPhase(s)
    BY <1>1 DEF SessionFits
  <2>2. s.phase \notin {"correcting", "polarMeasuring"}
    BY <2>1 DEF Phases
  <2>3. /\ s.work.kind = "solve" <=> s.phase \in {"solving", "verifying"}
        /\ s.work.kind # "correct"
    BY <2>1, <2>2 DEF ValidPhase
  <2>4. Approvable(s) => s.phase = "awaitingApproval"
    BY <2>1 DEF ValidPhase, Approvable
  <2>5. /\ s.phase \in {"solving", "verifying"} => Method # "polar"
        /\ s.phase = "awaitingApproval" => Method \notin {"polar", "lunar"}
        /\ s.phase = "polarGuidance" => Method = "polar"
        /\ s.phase = "paused" => Method # "polar"
    BY <2>1 DEF Phases
  <2> QED
    BY <2>3, <2>4, <2>5
<1> QED
  BY <1>1 DEF NoWork

\* What a command does to the session.
CommandStep(s, t) ==
    /\ t.evidence = s.evidence
    /\ \/ /\ s.phase = "paused" /\ t.phase = "solving"
          /\ t.work.id \notin Ids(t, ImageKinds)
       \/ s.phase = "paused" /\ t.phase = "skipped"
       \/ /\ t.phase = "aborted" /\ Method # "polar"
          /\ s.phase \notin {"completed", "skipped"}
       \/ s.phase = "awaitingApproval" /\ t.phase = "awaitingApproval"
       \/ Method = "polar" /\ t.phase = "completed"
       \/ t.phase = s.phase /\ t.work = s.work

LEMMA ManagedCommands ==
    ASSUME \/ StartManagedCapture \/ PauseManagedCapture
           \/ StopManagedCapture \/ RecenterManagedCapture
    PROVE  \E x : Commit(Managed(session, x))
BY DEF StartManagedCapture, PauseManagedCapture, StopManagedCapture,
       RecenterManagedCapture, Started, Turned, Recentered

SessionCommands ==
    \/ RetryPlateSolveWithParameters \/ SkipAcquireTarget \/ AbortAcquire
    \/ RevisePointingCorrection \/ AcceptPolarAlignmentEvidence
    \/ StartManagedCapture \/ PauseManagedCapture \/ StopManagedCapture
    \/ RecenterManagedCapture

LEMMA ManagedFits ==
    ASSUME SessionFits(session), NEW x, Commit(Managed(session, x))
    PROVE  SessionFits(session') /\ CommandStep(session, session')
<1> DEFINE t == Managed(session, x)
<1>1. Valid(t) /\ session' = t
  BY DEF Commit
<1>2. /\ Shaped(t) /\ t.evidence = session.evidence
      /\ t.phase = session.phase /\ t.work = session.work
  BY FieldFacts DEF SessionFits
<1> HIDE DEF t
<1> QED
  BY <1>1, <1>2, UnchangedFits DEF CommandStep

LEMMA EndedFits ==
    ASSUME SessionFits(session), NEW phase \in {"skipped", "aborted"},
           Method # "polar", Commit(Ended(phase))
    PROVE  /\ SessionFits(session') /\ session'.phase = phase
           /\ session'.evidence = session.evidence
<1> DEFINE t == Ended(phase)
<1>1. Valid(t) /\ session' = t
  BY DEF Commit
<1>2. /\ Shaped(t) /\ t.evidence = session.evidence
      /\ t.phase = phase /\ t.work = NoWork
  BY AdvanceFacts DEF SessionFits, Ended
<1>3. t.phase \in Phases
  BY <1>2 DEF Phases
<1> HIDE DEF t
<1> QED
  BY <1>1, <1>2, <1>3, OpenFits, PhaseFacts

LEMMA CommandFits ==
    ASSUME SessionFits(session), SessionCommands
    PROVE  SessionFits(session') /\ CommandStep(session, session')
<1>1. CASE RetryPlateSolveWithParameters
  <2>1. PICK p : /\ Method # "polar" /\ session.phase = "paused"
                 /\ Commit(Recovering(session, p))
    BY <1>1, MethodFacts DEF RetryPlateSolveWithParameters, OpensRecovery
  <2> DEFINE t == Recovering(session, p)
  <2>2. Valid(t) /\ session' = t
    BY <2>1 DEF Commit
  <2>3. /\ Moved(session, t, "solving")
        /\ t.work.kind = "solve" /\ SolveShaped(t.work)
    BY RecoveryFacts DEF SessionFits
  <2> HIDE DEF t
  <2>4. t.phase \in Phases
    BY <2>1, <2>3 DEF Moved, Phases
  <2>5. SessionFits(t)
    BY <2>2, <2>3, <2>4, OpenFits DEF Moved
  <2>6. t.work.id \notin Ids(t, ImageKinds)
    BY <2>2, <2>3, FreshWork DEF Moved
  <2> QED
    BY <2>1, <2>2, <2>3, <2>5, <2>6 DEF Moved, CommandStep
<1>2. CASE SkipAcquireTarget
  <2>1. session.phase = "paused" /\ Commit(Ended("skipped"))
    BY <1>2 DEF SkipAcquireTarget, MaySkip
  <2> QED
    BY <2>1, PhaseFacts, EndedFits DEF CommandStep
<1>3. CASE AbortAcquire
  <2>1. /\ Method # "polar" /\ session.phase \notin {"completed", "skipped"}
        /\ Commit(Ended("aborted"))
    BY <1>3, MethodFacts DEF AbortAcquire, MayAbort
  <2> QED
    BY <2>1, EndedFits DEF CommandStep
<1>4. CASE RevisePointingCorrection
  <2>1. PICK v : Approvable(session) /\ Commit(Revised(session, v))
    BY <1>4 DEF RevisePointingCorrection
  <2> DEFINE t == Revised(session, v)
  <2>2. Valid(t) /\ session' = t
    BY <2>1 DEF Commit
  <2>3. Moved(session, t, "awaitingApproval") /\ t.work = NoWork
    BY RevisionFacts DEF SessionFits
  <2>4. session.phase = "awaitingApproval" /\ session.phase \in Phases
    BY <2>1, PhaseFacts DEF SessionFits
  <2> HIDE DEF t
  <2>5. SessionFits(t)
    BY <2>2, <2>3, <2>4, OpenFits, PhaseFacts DEF Moved
  <2> QED
    BY <2>2, <2>3, <2>4, <2>5 DEF Moved, CommandStep
<1>5. CASE AcceptPolarAlignmentEvidence
  <2>1. /\ Method = "polar" /\ Commit(PolarAccepted(session))
        /\ \E e \in Newest(session, {"polar"}) : e.result = "centered"
    BY <1>5, MethodFacts DEF AcceptPolarAlignmentEvidence, MayAcceptPolar
  <2> DEFINE t == PolarAccepted(session)
  <2>2. Valid(t) /\ session' = t
    BY <2>1 DEF Commit
  <2>3. Moved(session, t, "completed") /\ t.work = NoWork
    BY AcceptanceFacts DEF SessionFits
  <2> HIDE DEF t
  <2>4. ValidPhase(t)
    BY <2>2 DEF Valid
  <2>5. Proving(t) = {"polar"}
    BY <2>1, <2>3, <2>4, ProvingFacts, MethodFacts DEF Moved
  <2>6. Newest(t, {"polar"}) = Newest(session, {"polar"})
    BY <2>3, SameEvidence DEF Moved
  <2>7. Centered(t)
    BY <2>1, <2>5, <2>6 DEF Centered
  <2>8. t.phase \in Phases
    BY <2>1, <2>3 DEF Moved, Phases
  <2> QED
    BY <2>1, <2>2, <2>3, <2>4, <2>7, <2>8, PhaseFacts
    DEF SessionFits, Moved, CommandStep
<1>6. CASE \/ StartManagedCapture \/ PauseManagedCapture
           \/ StopManagedCapture \/ RecenterManagedCapture
  <2>1. PICK x : Commit(Managed(session, x))
    BY <1>6, ManagedCommands
  <2> QED
    BY <2>1, ManagedFits
<1> QED
  BY <1>1, <1>2, <1>3, <1>4, <1>5, <1>6 DEF SessionCommands

-----------------------------------------------------------------------------
(* The requests in flight fit.                                             *)

\* The slot of one request changes.
Put(s, x) ==
    /\ flight' = [r \in Slots |-> flight'[r]]
    /\ flight'[s] = x
    /\ \A r \in Slots \ {s} : flight'[r] = flight[r]

LEMMA PutFacts ==
    ASSUME NEW s \in Slots, flight = [r \in Slots |-> flight[r]], NEW x,
           flight' = [flight EXCEPT ![s] = x]
    PROVE  Put(s, x)
BY DEF Put

LEMMA PutSolid ==
    ASSUME Solid, NEW s \in Slots, NEW x, FlightFits(x), Put(s, x),
           SessionFits(session'), UNCHANGED outcomes
    PROVE  Solid'
BY DEF Solid, Put

LEMMA CommandKeeps ==
    ASSUME SessionCommands
    PROVE  UNCHANGED <<flight, outcomes, moves, run>>
BY DEF SessionCommands, Commit, RetryPlateSolveWithParameters,
       SkipAcquireTarget, AbortAcquire, RevisePointingCorrection,
       AcceptPolarAlignmentEvidence, StartManagedCapture,
       PauseManagedCapture, StopManagedCapture, RecenterManagedCapture

\* A request leaves with what it read, or computed from it.
Requests(s, x) ==
    /\ Put(s, x) /\ flight[s] = Idle
    /\ Flight(x)
    /\ \/ /\ x.step = "capture" /\ x.base = session
          /\ session.work.kind = "solve"
       \/ /\ x.step = "correct" /\ x.base = Approved(session)
          /\ session.phase = "awaitingApproval"
       \/ /\ x.step = "frame" /\ x.base = session
          /\ session.phase = "completed" /\ Method # "polar"
       \/ /\ x.step = "measure" /\ x.base = Scheduled(session)
          /\ session.phase = "polarGuidance"

RequestCommands(s, c) ==
    \/ CaptureTargetAcquisitionEvidence(s, c)
    \/ ApprovePointingCorrection(s, c)
    \/ RecordLiveFrameEvidence(s, c)
    \/ CapturePolarAlignmentMeasurement(s, c)

LEMMA LeaveFacts ==
    ASSUME Solid, NEW s \in Slots, NEW c, RequestCommands(s, c)
    PROVE  /\ \E x : Requests(s, x)
           /\ UNCHANGED <<session, outcomes, moves, run>>
<1>1. ASSUME NEW step, NEW base, Leave(s, c, step, base)
      PROVE  /\ \E x : /\ Put(s, x) /\ Flight(x)
                      /\ x.step = step /\ x.base = base
             /\ flight[s] = Idle
             /\ UNCHANGED <<session, outcomes, moves, run>>
  <2> DEFINE x == [step |-> step, base |-> base, by |-> c,
                   key |-> Len(receipts) + 1]
  <2>1. Put(s, x)
    BY <1>1, PutFacts DEF Leave, Solid
  <2>2. Flight(x) /\ x.step = step /\ x.base = base
    BY DEF Flight, FlightFields
  <2> QED
    BY <1>1, <2>1, <2>2 DEF Leave
<1>2. CASE CaptureTargetAcquisitionEvidence(s, c)
  <2>1. Leave(s, c, "capture", session) /\ session.work.kind = "solve"
    BY <1>2 DEF CaptureTargetAcquisitionEvidence
  <2> QED
    BY <1>1, <2>1 DEF Requests
<1>3. CASE ApprovePointingCorrection(s, c)
  <2>1. Leave(s, c, "correct", Approved(session)) /\ Approvable(session)
    BY <1>3 DEF ApprovePointingCorrection
  <2>2. session.phase = "awaitingApproval"
    BY <2>1, PhaseFacts DEF Solid
  <2> QED
    BY <1>1, <2>1, <2>2 DEF Requests
<1>4. CASE RecordLiveFrameEvidence(s, c)
  <2>1. /\ Leave(s, c, "frame", session)
        /\ session.phase = "completed" /\ Method # "polar"
    BY <1>4, MethodFacts DEF RecordLiveFrameEvidence, MayRecord
  <2> QED
    BY <1>1, <2>1 DEF Requests
<1>5. CASE CapturePolarAlignmentMeasurement(s, c)
  <2>1. /\ Leave(s, c, "measure", Scheduled(session))
        /\ session.phase = "polarGuidance"
    BY <1>5 DEF CapturePolarAlignmentMeasurement, MayMeasure
  <2> QED
    BY <1>1, <2>1 DEF Requests
<1> QED
  BY <1>2, <1>3, <1>4, <1>5 DEF RequestCommands

LEMMA LeaveSolid ==
    ASSUME Solid, NEW s \in Slots, NEW x, Requests(s, x),
           UNCHANGED <<session, outcomes>>
    PROVE  Solid'
<1>1. SessionFits(session) /\ Shaped(session)
  BY DEF Solid, SessionFits
<1>2. FlightFits(x)
  <2>1. CASE x.step = "capture"
    BY <2>1, <1>1 DEF Requests, FlightFits
  <2>2. CASE x.step = "correct"
    <3>1. x.base = Approved(session) /\ session.phase = "awaitingApproval"
      BY <2>2 DEF Requests
    <3>2. Method = "deepSky"
      BY <1>1, <3>1, PhaseFacts, ConstantsAssumption
    <3>3. Shaped(x.base) /\ CorrectionShaped(x.base.work)
      BY <1>1, <3>1, ApprovalFacts DEF Moved
    <3> QED
      BY <2>2, <3>2, <3>3 DEF Requests, FlightFits
  <2>3. CASE x.step = "frame"
    BY <2>3, <1>1 DEF Requests, FlightFits
  <2>4. CASE x.step = "measure"
    <3>1. x.base = Scheduled(session) /\ session.phase = "polarGuidance"
      BY <2>4 DEF Requests
    <3>2. Shaped(x.base)
      BY <1>1, <3>1, ScheduleFacts DEF Moved
    <3> QED
      BY <1>1, <2>4, <3>1, <3>2, PhaseFacts DEF Requests, FlightFits
  <2> QED
    BY <2>1, <2>2, <2>3, <2>4 DEF Requests
<1> QED
  BY <1>1, <1>2, PutSolid DEF Requests

\* A request stores its session, or dies of it.
LEMMA StoreSolid ==
    ASSUME Solid, NEW s \in Slots, NEW next, Store(s, next),
           Valid(next) => SessionFits(next)
    PROVE  /\ Solid'
           /\ Put(s, Idle)
           /\ UNCHANGED <<outcomes, moves, run>>
           /\ \/ session' = next /\ Valid(next)
              \/ session' = session
<1>1. Put(s, Idle)
  BY PutFacts DEF Store, Solid
<1>2. \/ session' = next /\ Valid(next)
      \/ session' = session
  BY DEF Store
<1>3. SessionFits(session')
  BY <1>2 DEF Solid
<1>4. UNCHANGED <<outcomes, moves, run>>
  BY DEF Store
<1> QED
  BY <1>1, <1>2, <1>3, <1>4, PutSolid DEF FlightFits

LEMMA CaptureStored ==
    ASSUME Solid, NEW s \in Slots, flight[s].step = "capture"
    PROVE  LET f == flight[s]
               o == outcomes[f.base.work.id]
           IN /\ SessionFits(f.base) /\ f.base.work.kind = "solve"
              /\ f.base.phase \in {"solving", "verifying"}
              /\ SolveShaped(f.base.work)
              /\ Flight(f) /\ Method # "polar"
              /\ Imaged(f.base, Solved(s), o.result)
              /\ Solved(s).work.kind # "correct" =>
                   (Valid(Solved(s)) => SessionFits(Solved(s)))
<1> DEFINE f == flight[s]
           o == outcomes[f.base.work.id]
           t == Solved(s)
<1>1. FlightFits(f)
  BY DEF Solid
<1>2. SessionFits(f.base) /\ f.base.work.kind = "solve" /\ Flight(f)
  BY <1>1 DEF FlightFits, Idle
<1>3. /\ f.base.phase \in {"solving", "verifying"} /\ Method # "polar"
      /\ f.base.phase \in Phases /\ Shaped(f.base)
      /\ SolveShaped(f.base.work)
  BY <1>2, PhaseFacts DEF SessionFits
<1>4. t = AfterCapture(f.base, o.result, o.at)
  BY DEF Solved
<1> HIDE DEF t, o
<1>5. Imaged(f.base, t, o.result)
  BY <1>3, <1>4, CaptureFacts
<1>6. ASSUME t.work.kind # "correct", Valid(t)
      PROVE  SessionFits(t)
  <2>1. ValidPhase(t)
    BY <1>6 DEF Valid
  <2>2. t.phase # "correcting"
    BY <1>6, <2>1 DEF ValidPhase
  <2>3. t.phase \in Phases
    BY <1>3, <1>5, <2>2 DEF Imaged, Phases
  <2>4. t.phase = "completed" => Centered(t)
    <3>1. Proving(t) = TargetKinds
      BY <1>3, <1>5, <2>1, ProvingFacts, MethodFacts
      DEF Imaged, TargetKinds
    <3>2. t.phase = "completed" =>
            \E e \in Newest(t, TargetKinds) : e.result = "centered"
      BY <1>5 DEF Imaged
    <3> QED
      BY <3>1, <3>2 DEF Centered
  <2> QED
    BY <1>5, <2>1, <2>3, <2>4 DEF Imaged, SessionFits
<1> QED
  BY <1>2, <1>3, <1>5, <1>6 DEF t, o

LEMMA CorrectionStored ==
    ASSUME Solid, NEW s \in Slots, flight[s].step = "correct",
           flight[s].base.work.id \in DOMAIN outcomes
    PROVE  LET f == flight[s]
               t == AfterCorrection(f.base, outcomes[f.base.work.id].result)
           IN /\ Shaped(f.base) /\ Method = "deepSky"
              /\ CorrectionShaped(f.base.work)
              /\ Extends(t.evidence, f.base.evidence)
              /\ Ids(t, ImageKinds) = Ids(f.base, ImageKinds)
              /\ t.phase \in {"paused", "verifying"}
              /\ t.work = NoWork \/ t.work.kind = "solve"
              /\ Valid(t) => SessionFits(t)
<1> DEFINE f == flight[s]
           t == AfterCorrection(f.base, outcomes[f.base.work.id].result)
<1>1. FlightFits(f)
  BY DEF Solid
<1>2. Shaped(f.base) /\ Method = "deepSky" /\ CorrectionShaped(f.base.work)
  BY <1>1 DEF FlightFits, Idle
<1>3. outcomes[f.base.work.id].result \in Corrections
  BY <1>2 DEF Solid, CorrectionShaped
<1>4. /\ Shaped(t) /\ Extends(t.evidence, f.base.evidence)
      /\ Ids(t, ImageKinds) = Ids(f.base, ImageKinds)
      /\ \/ t.phase = "paused" /\ t.work = NoWork
         \/ /\ t.phase = "verifying" /\ t.work.kind = "solve"
            /\ SolveShaped(t.work)
  BY <1>2, <1>3, CorrectionFacts
<1> HIDE DEF t
<1>5. t.phase \in Phases
  BY <1>2, <1>4 DEF Phases
<1>6. Valid(t) => SessionFits(t)
  BY <1>4, <1>5, OpenFits, PhaseFacts
<1> QED
  BY <1>2, <1>4, <1>6 DEF t

LEMMA FrameStored ==
    ASSUME Solid, NEW s \in Slots, flight[s].step = "frame",
           NEW frame, NEW quality
    PROVE  LET f == flight[s]
               t == AfterFrame(f.base, frame, quality)
           IN /\ SessionFits(f.base) /\ Method # "polar"
              /\ t.phase = "completed"
              /\ Extends(t.evidence, f.base.evidence)
              /\ Ids(t, ImageKinds) = Ids(f.base, ImageKinds)
              /\ Newest(t, TargetKinds) = Newest(f.base, TargetKinds)
              /\ Valid(t) => SessionFits(t)
<1> DEFINE f == flight[s]
           t == AfterFrame(f.base, frame, quality)
<1>1. FlightFits(f)
  BY DEF Solid
<1>2. /\ SessionFits(f.base) /\ f.base.phase = "completed"
      /\ Method # "polar"
  BY <1>1 DEF FlightFits, Idle
<1>3. /\ Shaped(t) /\ Extends(t.evidence, f.base.evidence)
      /\ t.phase = f.base.phase /\ t.work = f.base.work
      /\ Newest(t, TargetKinds) = Newest(f.base, TargetKinds)
      /\ Ids(t, ImageKinds) = Ids(f.base, ImageKinds)
  BY <1>2, FrameFacts DEF SessionFits
<1> HIDE DEF t
<1>4. ASSUME Valid(t)
      PROVE  SessionFits(t)
  <2>1. ValidPhase(t) /\ ValidPhase(f.base)
    BY <1>2, <1>4 DEF Valid, SessionFits
  <2>2. Proving(t) = TargetKinds /\ Proving(f.base) = TargetKinds
    BY <1>2, <1>3, <2>1, ProvingFacts, MethodFacts DEF TargetKinds
  <2>3. Centered(f.base)
    BY <1>2 DEF SessionFits
  <2>4. Centered(t)
    BY <1>3, <2>2, <2>3 DEF Centered
  <2> QED
    BY <1>2, <1>3, <2>1, <2>4 DEF SessionFits
<1> QED
  BY <1>2, <1>3, <1>4 DEF t

LEMMA MeasureStored ==
    ASSUME Solid, NEW s \in Slots, flight[s].step = "measure", NEW result
    PROVE  LET f == flight[s]
               t == AfterMeasure(f.base, result)
           IN /\ Method = "polar"
              /\ t.phase = "polarGuidance"
              /\ Extends(t.evidence, f.base.evidence)
              /\ Valid(t) => SessionFits(t)
<1> DEFINE f == flight[s]
           t == AfterMeasure(f.base, result)
<1>1. FlightFits(f)
  BY DEF Solid
<1>2. Shaped(f.base) /\ Method = "polar"
  BY <1>1 DEF FlightFits, Idle
<1>3. /\ Shaped(t) /\ Extends(t.evidence, f.base.evidence)
      /\ t.phase = "polarGuidance" /\ t.work = NoWork
  BY <1>2, MeasureFacts
<1> HIDE DEF t
<1>4. t.phase \in Phases
  BY <1>2, <1>3 DEF Phases
<1>5. Valid(t) => SessionFits(t)
  BY <1>3, <1>4, OpenFits, PhaseFacts
<1> QED
  BY <1>2, <1>3, <1>5 DEF t

\* A solve inside the automatic bound goes on to the correction.
Corrects(s, x) ==
    /\ Put(s, x) /\ Flight(x)
    /\ flight[s].step = "capture" /\ x.step = "correct"
    /\ flight[s].base.work.id \in DOMAIN outcomes
    /\ x.base = Solved(s) /\ x.base.work.kind = "correct"

LEMMA CorrectsSolid ==
    ASSUME Solid, NEW s \in Slots, NEW x, Corrects(s, x),
           UNCHANGED <<session, outcomes>>
    PROVE  Solid'
<1> DEFINE result == outcomes[flight[s].base.work.id].result
<1>1. /\ Imaged(flight[s].base, x.base, result) /\ Method # "polar"
  BY CaptureStored DEF Corrects
<1>2. /\ Shaped(x.base) /\ CorrectionShaped(x.base.work)
      /\ Method # "lunar"
  BY <1>1 DEF Imaged, Corrects
<1>3. FlightFits(x)
  BY <1>1, <1>2, ConstantsAssumption DEF FlightFits, Corrects
<1>4. SessionFits(session')
  BY DEF Solid
<1> QED
  BY <1>3, <1>4, PutSolid DEF Corrects

\* The provider answers an attempt for the first time.
Answers(id, m) ==
    /\ id \notin DOMAIN outcomes
    /\ DOMAIN outcomes' = DOMAIN outcomes \cup {id}
    /\ \A a \in DOMAIN outcomes : outcomes'[a] = outcomes[a]
    /\ outcomes'[id].moves = moves' /\ moves' = m
    /\ UNCHANGED <<session, flight, run>>

LEMMA WorksFacts ==
    ASSUME NEW id, id \notin DOMAIN outcomes, NEW result, NEW moved,
           Works(id, result, moved)
    PROVE  Answers(id, moves + moved) /\ outcomes'[id].result = result
BY DEF Works, Answers

LEMMA AnswersSolid ==
    ASSUME Solid, NEW id, NEW m, Answers(id, m),
           Last(id.path) = "correction" =>
             outcomes'[id].result \in Corrections
    PROVE  Solid'
<1>1. \A a \in DOMAIN outcomes' : Last(a.path) = "correction" =>
        outcomes'[a].result \in Corrections
  BY DEF Solid, Answers
<1> QED
  BY <1>1 DEF Solid, Answers

-----------------------------------------------------------------------------
(* One request at a time.                                                  *)

Ordered == Orderly(session, flight, outcomes, moves, run)

LEMMA AwaitsFacts ==
    ASSUME Solid, Ordered, NEW r \in Slots, Awaits(flight[r])
    PROVE  /\ Method # "polar"
           /\ session.phase \in {"solving", "verifying", "awaitingApproval",
                                 "aborted"}
           /\ flight[r].step = "capture" => session.phase # "awaitingApproval"
           /\ session.work.kind = "solve" =>
                session.work.id \in Ids(flight[r].base, ImageKinds)
                                      \cup {flight[r].base.work.id}
<1>1. SessionFits(session) /\ RequestFits(flight[r], session, outcomes, moves)
  BY DEF Solid, Ordered, Orderly
<1>2. CASE flight[r].step = "capture"
  <2>1. flight[r].base.work.kind = "solve" /\ Method # "polar"
    BY <1>2, CaptureStored
  <2>2. session.phase = "aborted" \/ session.work = flight[r].base.work
    BY <1>1, <1>2 DEF RequestFits
  <2> QED
    BY <1>1, <2>1, <2>2, PhaseFacts
<1>3. CASE flight[r].step = "correct"
  <2>1. Method = "deepSky"
    <3>1. FlightFits(flight[r])
      BY DEF Solid
    <3> QED
      BY <1>3, <3>1 DEF FlightFits, Idle
  <2>2. CorrectionFits(flight[r], session, outcomes)
    BY <1>1, <1>3 DEF RequestFits
  <2>3. \/ session.phase \in {"aborted", "awaitingApproval"}
        \/ /\ session.work.kind = "solve"
           /\ session.work.id \in Ids(flight[r].base, ImageKinds)
    BY <2>2 DEF CorrectionFits
  <2> QED
    BY <1>1, <1>3, <2>1, <2>3, PhaseFacts
<1> QED
  BY <1>2, <1>3 DEF Awaits

\* Work that is made of a session that nobody works on is new to the rig.
LEMMA FreshToRig ==
    ASSUME Solid, Ordered, session.phase = "paused",
           NEW w, SolveShaped(w), w.id \notin Ids(session, ImageKinds)
    PROVE  w.id \notin DOMAIN outcomes
<1> SUFFICES ASSUME w.id \in DOMAIN outcomes
             PROVE  FALSE
  OBVIOUS
<1>1. Accounted(w.id, session, flight) /\ SessionFits(session)
  BY DEF Ordered, Orderly, Solid
<1>2. Last(w.id.path) # "correction"
  BY DEF SolveShaped
<1>3. session.work.kind # "solve"
  BY <1>1, PhaseFacts
<1>4. \A r \in Slots : ~Awaits(flight[r])
  BY AwaitsFacts
<1> QED
  BY <1>1, <1>2, <1>3, <1>4 DEF Accounted

LEMMA CommandRequests ==
    ASSUME Solid, Ordered, SessionFits(session'),
           CommandStep(session, session'), NEW r \in Slots
    PROVE  RequestFits(flight[r], session', outcomes, moves)
<1> DEFINE f == flight[r]
<1>1. /\ SessionFits(session) /\ FlightFits(f)
      /\ RequestFits(f, session, outcomes, moves)
  BY DEF Solid, Ordered, Orderly
<1>2. session'.evidence = session.evidence
  BY DEF CommandStep
<1>3. CASE f.step = "capture"
  <2>1. /\ session.phase \in {"solving", "verifying", "aborted"}
        /\ Method # "polar"
    BY <1>3, AwaitsFacts DEF Awaits
  <2>2. session'.phase = "aborted" \/ session'.work = f.base.work
    <3>1. \/ session'.phase = "aborted"
          \/ session'.phase = session.phase /\ session'.work = session.work
      BY <2>1 DEF CommandStep
    <3> QED
      BY <1>1, <1>3, <3>1 DEF RequestFits
  <2> QED
    BY <1>1, <1>2, <1>3, <2>2 DEF RequestFits
<1>4. CASE f.step = "correct"
  <2>1. /\ session.phase \in {"solving", "verifying", "awaitingApproval",
                               "aborted"}
        /\ Method # "polar"
    BY <1>4, AwaitsFacts DEF Awaits
  <2>2. \/ session'.phase = "aborted"
        \/ /\ session'.phase = "awaitingApproval"
           /\ session.phase = "awaitingApproval"
        \/ session'.phase = session.phase /\ session'.work = session.work
    BY <2>1 DEF CommandStep
  <2>3. Ids(session', ImageKinds) = Ids(session, ImageKinds)
    BY <1>2, SameEvidence
  <2>4. session.phase = "awaitingApproval" => session.work.kind # "solve"
    BY <1>1, PhaseFacts
  <2>5. CorrectionFits(f, session, outcomes)
    BY <1>1, <1>4 DEF RequestFits
  <2>6. CorrectionFits(f, session', outcomes)
    BY <1>2, <2>2, <2>3, <2>4, <2>5 DEF CorrectionFits
  <2> QED
    BY <1>1, <1>2, <1>4, <2>6 DEF RequestFits
<1>5. CASE f.step = "frame"
  <2>1. session.phase = "completed" /\ f.base.evidence = session.evidence
    BY <1>1, <1>5 DEF RequestFits
  <2>2. Method # "polar"
    BY <1>1, <1>5 DEF FlightFits, Idle
  <2>3. session'.phase = "completed"
    BY <2>1, <2>2 DEF CommandStep
  <2> QED
    BY <1>2, <1>5, <2>1, <2>3 DEF RequestFits
<1>6. CASE f.step = "measure"
  BY <1>1, <1>2, <1>6 DEF RequestFits
<1>7. CASE f = Idle
  BY <1>7 DEF RequestFits, Idle
<1> QED
  BY <1>1, <1>3, <1>4, <1>5, <1>6, <1>7 DEF FlightFits

LEMMA CommandAccounts ==
    ASSUME Solid, Ordered, SessionFits(session'),
           CommandStep(session, session'), NEW id \in DOMAIN outcomes
    PROVE  Accounted(id, session', flight)
<1>1. Accounted(id, session, flight) /\ SessionFits(session)
  BY DEF Ordered, Orderly, Solid
<1>2. Ids(session', ImageKinds) = Ids(session, ImageKinds)
  BY SameEvidence DEF CommandStep
<1>3. CASE \/ Last(id.path) = "correction" \/ id \in Ids(session, ImageKinds)
           \/ \E r \in Slots :
                /\ Awaits(flight[r])
                /\ id \in Ids(flight[r].base, ImageKinds)
                            \cup {flight[r].base.work.id}
  BY <1>2, <1>3 DEF Accounted
<1>4. CASE session.work.kind = "solve" /\ id = session.work.id
  <2>1. session.phase \in {"solving", "verifying"} /\ Method # "polar"
    BY <1>1, <1>4, PhaseFacts
  <2>2. session'.phase = "aborted" \/ session'.work = session.work
    BY <2>1 DEF CommandStep
  <2>3. CASE \A r \in Slots : ~Awaits(flight[r])
    BY <1>4, <2>2, <2>3 DEF Accounted
  <2>4. CASE \E r \in Slots : Awaits(flight[r])
    BY <1>4, <2>4, AwaitsFacts DEF Accounted
  <2> QED
    BY <2>3, <2>4
<1>5. CASE session.phase = "aborted" /\ \A r \in Slots : ~Awaits(flight[r])
  <2>1. Method # "polar"
    BY <1>1, <1>5 DEF SessionFits, Phases
  <2>2. session'.phase = "aborted"
    BY <1>5, <2>1 DEF CommandStep
  <2> QED
    BY <1>5, <2>2 DEF Accounted
<1> QED
  BY <1>1, <1>3, <1>4, <1>5 DEF Accounted

LEMMA CommandOrders ==
    ASSUME Solid, Ordered, SessionCommands
    PROVE  Solid' /\ Ordered'
<1>1. SessionFits(session') /\ CommandStep(session, session')
  BY CommandFits DEF Solid
<1>2. UNCHANGED <<flight, outcomes, moves, run>>
  BY CommandKeeps
<1>3. Solid'
  BY <1>1, <1>2 DEF Solid
<1>4. SessionFits(session) /\ session'.evidence = session.evidence
  BY <1>1 DEF Solid, CommandStep
<1>5. ImageStands(session'.work, outcomes, moves)
  <2>1. CASE session'.work.kind # "solve"
    BY <2>1 DEF ImageStands
  <2>2. CASE session'.work = session.work
    BY <2>2 DEF Ordered, Orderly
  <2>3. CASE session'.work.kind = "solve" /\ session'.work # session.work
    <3>1. session'.phase \in {"solving", "verifying"} /\ Method # "polar"
      BY <1>1, <2>3, PhaseFacts
    <3>2. /\ session.phase = "paused"
          /\ session'.work.id \notin Ids(session', ImageKinds)
      BY <1>1, <2>3, <3>1 DEF CommandStep
    <3>3. session'.work.id \notin Ids(session, ImageKinds)
      BY <1>4, <3>2, SameEvidence
    <3>4. SolveShaped(session'.work)
      BY <1>1, <2>3 DEF SessionFits
    <3>5. session'.work.id \notin DOMAIN outcomes
      BY <3>2, <3>3, <3>4, FreshToRig
    <3> QED
      BY <3>5 DEF ImageStands
  <2> QED
    BY <2>1, <2>2, <2>3
<1>6. PointingStands(session', outcomes, moves)
  <2> SUFFICES ASSUME session'.phase = "completed", Method # "polar"
               PROVE  \A e \in Newest(session', Proving(session')) :
                        outcomes[e.id].moves = moves
    BY DEF PointingStands
  <2>1. session.phase = "completed"
    BY <1>1 DEF CommandStep
  <2>2. Proving(session') = Proving(session)
    BY <1>1, <1>4, ProvingFacts, MethodFacts DEF SessionFits
  <2>3. Newest(session', Proving(session'))
          = Newest(session, Proving(session))
    BY <1>4, <2>2, SameEvidence
  <2> QED
    BY <2>1, <2>3 DEF Ordered, Orderly, PointingStands
<1>7. RunFits(session', run)
  BY <1>1 DEF Ordered, Orderly, RunFits, CommandStep
<1>8. Orderly(session', flight, outcomes, moves, run)
  BY <1>1, <1>5, <1>6, <1>7, CommandRequests, CommandAccounts DEF Orderly
<1> QED
  BY <1>2, <1>3, <1>8 DEF Ordered

LEMMA LeaveOrders ==
    ASSUME One, Solid, Ordered, NEW s \in Slots, NEW x, Requests(s, x),
           UNCHANGED <<session, outcomes, moves, run>>
    PROVE  Solid' /\ Ordered'
<1>1. Solid' /\ SessionFits(session) /\ Shaped(session)
  BY LeaveSolid DEF Solid, SessionFits
<1>2. flight'[s] = x /\ \A r \in Slots : r = s
  BY DEF Requests, Put, One
<1>3. RequestFits(x, session, outcomes, moves)
  <2>1. CASE x.step = "capture"
    BY <2>1 DEF Requests, RequestFits, Ordered, Orderly
  <2>2. CASE x.step = "correct"
    <3>1. x.base = Approved(session) /\ session.phase = "awaitingApproval"
      BY <2>2 DEF Requests
    <3>2. x.base.evidence = session.evidence
      BY <1>1, <3>1, ApprovalFacts DEF Moved
    <3>3. Extends(x.base.evidence, session.evidence)
      BY <3>2, ExtendsFacts
    <3> QED
      BY <2>2, <3>1, <3>2, <3>3 DEF RequestFits, CorrectionFits
  <2>3. CASE x.step = "frame"
    BY <2>3 DEF Requests, RequestFits
  <2>4. CASE x.step = "measure"
    <3>1. x.base.evidence = session.evidence
      BY <1>1, <2>4, ScheduleFacts DEF Requests, Moved
    <3> QED
      BY <2>4, <3>1 DEF RequestFits
  <2> QED
    BY <2>1, <2>2, <2>3, <2>4 DEF Requests
<1>4. ASSUME NEW id \in DOMAIN outcomes
      PROVE  Accounted(id, session, flight')
  <2>1. Accounted(id, session, flight)
    BY DEF Ordered, Orderly
  <2>2. ~Awaits(flight[s])
    BY DEF Requests, Awaits, Idle
  <2>3. session.phase = "aborted" => ~Awaits(x)
    BY <1>1, PhaseFacts DEF Requests, Awaits
  <2> QED
    BY <1>2, <2>1, <2>2, <2>3 DEF Accounted
<1>5. Orderly(session, flight', outcomes, moves, run)
  BY <1>2, <1>3, <1>4 DEF Ordered, Orderly
<1> QED
  BY <1>1, <1>5 DEF Ordered

\* What a request had of the rig is in what it stores.
LEMMA AllAccounted ==
    ASSUME One, Solid, Ordered, NEW s \in Slots, Awaits(flight[s]),
           NEW t, Extends(t.evidence, session.evidence),
           Ids(flight[s].base, ImageKinds) \subseteq Ids(t, ImageKinds),
           \/ flight[s].base.work.id \in Ids(t, ImageKinds)
           \/ Last(flight[s].base.work.id.path) = "correction",
           NEW id \in DOMAIN outcomes
    PROVE  Last(id.path) = "correction" \/ id \in Ids(t, ImageKinds)
<1>1. Accounted(id, session, flight) /\ \A r \in Slots : r = s
  BY DEF Ordered, Orderly, One
<1>2. Ids(session, ImageKinds) \subseteq Ids(t, ImageKinds)
  BY ExtendsFacts
<1>3. session.work.kind = "solve" =>
        session.work.id \in Ids(flight[s].base, ImageKinds)
                              \cup {flight[s].base.work.id}
  BY AwaitsFacts
<1> QED
  BY <1>1, <1>2, <1>3 DEF Accounted

LEMMA CaptureOrders ==
    ASSUME One, Solid, Ordered, NEW s \in Slots,
           flight[s].step = "capture",
           flight[s].base.work.id \in DOMAIN outcomes,
           Solved(s).work.kind # "correct",
           Put(s, Idle), UNCHANGED <<outcomes, moves, run>>,
           session' = Solved(s), Valid(Solved(s))
    PROVE  Ordered'
<1> DEFINE f == flight[s]
           t == session'
           o == outcomes[f.base.work.id]
<1>1. /\ Imaged(f.base, t, o.result) /\ SessionFits(t)
      /\ f.base.work.kind = "solve" /\ Method # "polar"
  BY CaptureStored
<1>2. /\ flight'[s] = Idle /\ \A r \in Slots : r = s
      /\ Awaits(f)
  BY DEF Put, One, Awaits
<1>3. /\ f.base.evidence = session.evidence
      /\ ImageStands(f.base.work, outcomes, moves)
  BY DEF Ordered, Orderly, RequestFits
<1>4. /\ Extends(t.evidence, session.evidence)
      /\ Ids(t, ImageKinds) = Ids(f.base, ImageKinds) \cup {f.base.work.id}
  BY <1>1, <1>3 DEF Imaged
<1>5. \A id \in DOMAIN outcomes :
        Last(id.path) = "correction" \/ id \in Ids(t, ImageKinds)
  BY <1>2, <1>4, AllAccounted
<1>6. ImageStands(t.work, outcomes, moves)
  <2> SUFFICES ASSUME t.work.kind = "solve", t.work.id \in DOMAIN outcomes
               PROVE  FALSE
    BY DEF ImageStands
  <2>1. t.work.id \notin Ids(t, ImageKinds)
    BY <1>1, FreshWork DEF SessionFits
  <2>2. Last(t.work.id.path) # "correction"
    BY <1>1 DEF SessionFits, SolveShaped
  <2> QED
    BY <1>5, <2>1, <2>2
<1>7. PointingStands(t, outcomes, moves)
  <2> SUFFICES ASSUME t.phase = "completed",
                      NEW e \in Newest(t, Proving(t))
               PROVE  outcomes[e.id].moves = moves
    BY DEF PointingStands
  <2>1. Proving(t) = TargetKinds
    BY <1>1, ProvingFacts, MethodFacts DEF SessionFits, TargetKinds
  <2>2. e.id = f.base.work.id /\ o.result = "centered"
    BY <1>1, <2>1 DEF Imaged
  <2> QED
    BY <1>1, <1>3, <2>2 DEF ImageStands
<1>8. RunFits(t, run)
  BY <1>2, AwaitsFacts DEF Ordered, Orderly, RunFits
<1>9. \A id \in DOMAIN outcomes : Accounted(id, t, flight')
  BY <1>5 DEF Accounted
<1>10. RequestFits(Idle, t, outcomes, moves)
  BY DEF RequestFits, Idle
<1>11. Orderly(t, flight', outcomes, moves, run)
  BY <1>2, <1>6, <1>7, <1>8, <1>9, <1>10 DEF Orderly
<1> QED
  BY <1>11 DEF Ordered

LEMMA CorrectionOrders ==
    ASSUME One, Solid, Ordered, NEW s \in Slots,
           flight[s].step = "correct",
           flight[s].base.work.id \in DOMAIN outcomes,
           Put(s, Idle), UNCHANGED <<outcomes, moves, run>>,
           session' = AfterCorrection(flight[s].base,
                                outcomes[flight[s].base.work.id].result),
           Valid(session')
    PROVE  Ordered'
<1> DEFINE f == flight[s]
           t == session'
<1>1. /\ CorrectionShaped(f.base.work) /\ SessionFits(t)
      /\ Extends(t.evidence, f.base.evidence)
      /\ Ids(t, ImageKinds) = Ids(f.base, ImageKinds)
      /\ t.phase \in {"paused", "verifying"}
  BY CorrectionStored
<1>2. /\ flight'[s] = Idle /\ \A r \in Slots : r = s
      /\ Awaits(f)
  BY DEF Put, One, Awaits
<1>3. Extends(f.base.evidence, session.evidence)
  BY DEF Ordered, Orderly, RequestFits
<1>4. Extends(t.evidence, session.evidence)
  BY <1>1, <1>3, ExtendsFacts
<1>5. \A id \in DOMAIN outcomes :
        Last(id.path) = "correction" \/ id \in Ids(t, ImageKinds)
  BY <1>1, <1>2, <1>4, AllAccounted DEF CorrectionShaped
<1>6. ImageStands(t.work, outcomes, moves)
  <2> SUFFICES ASSUME t.work.kind = "solve", t.work.id \in DOMAIN outcomes
               PROVE  FALSE
    BY DEF ImageStands
  <2>1. t.work.id \notin Ids(t, ImageKinds)
    BY <1>1, FreshWork DEF SessionFits
  <2>2. Last(t.work.id.path) # "correction"
    BY <1>1 DEF SessionFits, SolveShaped
  <2> QED
    BY <1>5, <2>1, <2>2
<1>7. PointingStands(t, outcomes, moves)
  BY <1>1 DEF PointingStands
<1>8. RunFits(t, run)
  BY <1>2, AwaitsFacts DEF Ordered, Orderly, RunFits
<1>9. \A id \in DOMAIN outcomes : Accounted(id, t, flight')
  BY <1>5 DEF Accounted
<1>10. RequestFits(Idle, t, outcomes, moves)
  BY DEF RequestFits, Idle
<1>11. Orderly(t, flight', outcomes, moves, run)
  BY <1>2, <1>6, <1>7, <1>8, <1>9, <1>10 DEF Orderly
<1> QED
  BY <1>11 DEF Ordered

LEMMA FrameOrders ==
    ASSUME One, Solid, Ordered, NEW s \in Slots, flight[s].step = "frame",
           NEW frame, NEW quality,
           Put(s, Idle), UNCHANGED <<outcomes, moves, run>>,
           session' = AfterFrame(flight[s].base, frame, quality),
           Valid(session')
    PROVE  Ordered'
<1> DEFINE f == flight[s]
           t == session'
<1>1. /\ SessionFits(f.base) /\ SessionFits(t) /\ Method # "polar"
      /\ t.phase = "completed"
      /\ Ids(t, ImageKinds) = Ids(f.base, ImageKinds)
      /\ Newest(t, TargetKinds) = Newest(f.base, TargetKinds)
  BY FrameStored
<1>2. flight'[s] = Idle /\ \A r \in Slots : r = s
  BY DEF Put, One
<1>3. /\ f.base.evidence = session.evidence
      /\ session.phase = "completed" /\ SessionFits(session)
  BY DEF Ordered, Orderly, RequestFits, Solid
<1>4. /\ Ids(t, ImageKinds) = Ids(session, ImageKinds)
      /\ Newest(t, TargetKinds) = Newest(session, TargetKinds)
  BY <1>1, <1>3, SameEvidence
<1>5. session.work.kind # "solve" /\ t.work.kind # "solve"
  BY <1>1, <1>3, PhaseFacts
<1>6. ASSUME NEW id \in DOMAIN outcomes
      PROVE  Accounted(id, t, flight')
  <2>1. Accounted(id, session, flight)
    BY DEF Ordered, Orderly
  <2>2. \A r \in Slots : ~Awaits(flight[r])
    BY <1>2 DEF Awaits
  <2> QED
    BY <1>3, <1>4, <1>5, <2>1, <2>2 DEF Accounted
<1>7. PointingStands(t, outcomes, moves)
  <2>1. Proving(t) = TargetKinds /\ Proving(session) = TargetKinds
    BY <1>1, <1>3, ProvingFacts, MethodFacts DEF SessionFits, TargetKinds
  <2>2. \A e \in Newest(session, TargetKinds) : outcomes[e.id].moves = moves
    BY <1>1, <1>3, <2>1 DEF Ordered, Orderly, PointingStands
  <2> QED
    BY <1>4, <2>1, <2>2 DEF PointingStands
<1>8. RunFits(t, run) /\ ImageStands(t.work, outcomes, moves)
  BY <1>1, <1>5 DEF RunFits, ImageStands
<1>9. RequestFits(Idle, t, outcomes, moves)
  BY DEF RequestFits, Idle
<1>10. Orderly(t, flight', outcomes, moves, run)
  BY <1>2, <1>6, <1>7, <1>8, <1>9 DEF Orderly
<1> QED
  BY <1>10 DEF Ordered

LEMMA MeasureOrders ==
    ASSUME One, Solid, Ordered, NEW s \in Slots, flight[s].step = "measure",
           NEW result,
           Put(s, Idle), UNCHANGED <<outcomes, moves, run>>,
           session' = AfterMeasure(flight[s].base, result),
           Valid(session')
    PROVE  Ordered'
<1> DEFINE f == flight[s]
           t == session'
<1>1. /\ SessionFits(t) /\ Method = "polar" /\ t.phase = "polarGuidance"
      /\ Extends(t.evidence, f.base.evidence)
  BY MeasureStored
<1>2. flight'[s] = Idle /\ \A r \in Slots : r = s
  BY DEF Put, One
<1>3. f.base.evidence = session.evidence /\ SessionFits(session)
  BY DEF Ordered, Orderly, RequestFits, Solid
<1>4. Ids(session, ImageKinds) \subseteq Ids(t, ImageKinds)
  BY <1>1, <1>3, ExtendsFacts
<1>5. session.work.kind # "solve" /\ t.work.kind # "solve"
  BY <1>1, <1>3, PhaseFacts
<1>6. ASSUME NEW id \in DOMAIN outcomes
      PROVE  Accounted(id, t, flight')
  <2>1. Accounted(id, session, flight)
    BY DEF Ordered, Orderly
  <2>2. \A r \in Slots : ~Awaits(flight[r])
    BY <1>2 DEF Awaits
  <2>3. session.phase # "aborted"
    BY <1>1, <1>3 DEF SessionFits, Phases
  <2> QED
    BY <1>4, <1>5, <2>1, <2>2, <2>3 DEF Accounted
<1>7. PointingStands(t, outcomes, moves) /\ RunFits(t, run)
      /\ ImageStands(t.work, outcomes, moves)
  BY <1>1, <1>5 DEF PointingStands, RunFits, ImageStands
<1>8. RequestFits(Idle, t, outcomes, moves)
  BY DEF RequestFits, Idle
<1>9. Orderly(t, flight', outcomes, moves, run)
  BY <1>2, <1>6, <1>7, <1>8 DEF Orderly
<1> QED
  BY <1>9 DEF Ordered

LEMMA EndOrders ==
    ASSUME One, Solid, Ordered, NEW s \in Slots,
           Put(s, Idle), UNCHANGED <<session, outcomes, moves, run>>
    PROVE  Solid' /\ Ordered'
<1> DEFINE f == flight[s]
<1>1. Solid'
  BY PutSolid DEF FlightFits, Solid
<1>2. flight'[s] = Idle /\ \A r \in Slots : r = s
  BY DEF Put, One
<1>3. RequestFits(f, session, outcomes, moves) /\ FlightFits(f)
  BY DEF Ordered, Orderly, Solid
<1>4. ASSUME NEW id \in DOMAIN outcomes
      PROVE  Accounted(id, session, flight')
  <2>1. Accounted(id, session, flight) /\ ~Awaits(Idle)
    BY DEF Ordered, Orderly, Awaits, Idle
  <2>2. CASE ~Awaits(f)
    BY <1>2, <2>1, <2>2 DEF Accounted
  <2>3. CASE session.phase = "aborted"
    BY <1>2, <2>1, <2>3 DEF Accounted
  <2>4. CASE f.step = "capture" /\ session.phase # "aborted"
    <3>1. f.base.evidence = session.evidence /\ session.work = f.base.work
      BY <1>3, <2>4 DEF RequestFits
    <3>2. Ids(f.base, ImageKinds) = Ids(session, ImageKinds)
      BY <3>1, SameEvidence
    <3>3. session.work.kind = "solve"
      BY <2>4, <3>1, CaptureStored
    <3> QED
      BY <1>2, <2>1, <2>4, <3>1, <3>2, <3>3 DEF Accounted
  <2>5. CASE f.step = "correct" /\ session.phase # "aborted"
    <3>1. Last(f.base.work.id.path) = "correction"
      BY <1>3, <2>5 DEF FlightFits, Idle, CorrectionShaped
    <3>2. CorrectionFits(f, session, outcomes)
      BY <1>3, <2>5 DEF RequestFits
    <3>3. f.base.evidence = session.evidence =>
            Ids(f.base, ImageKinds) = Ids(session, ImageKinds)
      BY SameEvidence
    <3>4. \A a \in Ids(f.base, ImageKinds) :
            \/ a \in Ids(session, ImageKinds)
            \/ session.work.kind = "solve" /\ a = session.work.id
      BY <2>5, <3>2, <3>3 DEF CorrectionFits
    <3> QED
      BY <1>2, <2>1, <2>5, <3>1, <3>4 DEF Accounted
  <2> QED
    BY <2>2, <2>3, <2>4, <2>5 DEF Awaits
<1>5. RequestFits(Idle, session, outcomes, moves)
  BY DEF RequestFits, Idle
<1>6. Orderly(session, flight', outcomes, moves, run)
  BY <1>2, <1>4, <1>5 DEF Ordered, Orderly
<1> QED
  BY <1>1, <1>6 DEF Ordered

LEMMA CorrectsOrders ==
    ASSUME One, Solid, Ordered, NEW s \in Slots, NEW x, Corrects(s, x),
           UNCHANGED <<session, outcomes, moves, run>>
    PROVE  Solid' /\ Ordered'
<1> DEFINE f == flight[s]
           result == outcomes[f.base.work.id].result
<1>1. Solid'
  BY CorrectsSolid
<1>2. /\ flight'[s] = x /\ \A r \in Slots : r = s
      /\ f.step = "capture" /\ x.step = "correct"
      /\ Awaits(f) /\ Awaits(x)
  BY DEF Corrects, Put, One, Awaits
<1>3. Imaged(f.base, x.base, result) /\ f.base.work.kind = "solve"
  BY <1>2, CaptureStored DEF Corrects
<1>4. /\ f.base.evidence = session.evidence
      /\ session.phase = "aborted" \/ session.work = f.base.work
  BY <1>2 DEF Ordered, Orderly, RequestFits
<1>5. /\ Extends(x.base.evidence, session.evidence)
      /\ Ids(x.base, ImageKinds)
           = Ids(f.base, ImageKinds) \cup {f.base.work.id}
      /\ result = "automatic"
  BY <1>3, <1>4 DEF Imaged, Corrects
<1>6. Ids(f.base, ImageKinds) = Ids(session, ImageKinds)
  BY <1>4, SameEvidence
<1>7. CorrectionFits(x, session, outcomes)
  BY <1>3, <1>4, <1>5, <1>6 DEF CorrectionFits, Corrects
<1>8. RequestFits(x, session, outcomes, moves)
  BY <1>2, <1>5, <1>7 DEF RequestFits
<1>9. \A id \in DOMAIN outcomes :
        Last(id.path) = "correction" \/ id \in Ids(x.base, ImageKinds)
  BY <1>2, <1>5, AllAccounted
<1>10. \A id \in DOMAIN outcomes : Accounted(id, session, flight')
  BY <1>2, <1>9 DEF Accounted
<1>11. Orderly(session, flight', outcomes, moves, run)
  BY <1>2, <1>8, <1>10 DEF Ordered, Orderly
<1> QED
  BY <1>1, <1>11 DEF Ordered

LEMMA CapturesOrders ==
    ASSUME One, Solid, Ordered, NEW s \in Slots, ProviderCaptures(s)
    PROVE  Solid' /\ Ordered'
<1> DEFINE f == flight[s]
           id == f.base.work.id
<1>1. /\ f.step = "capture" /\ session.work = f.base.work
      /\ id \notin DOMAIN outcomes
      /\ \E m : Answers(id, m)
  <2>1. PICK result : Works(id, result,
                            IF f.base.work.purpose = "initial" THEN 1 ELSE 0)
    BY DEF ProviderCaptures
  <2>2. id \notin DOMAIN outcomes
    BY DEF ProviderCaptures
  <2>3. \E m : Answers(id, m)
    BY <2>1, <2>2, WorksFacts
  <2> QED
    BY <2>2, <2>3 DEF ProviderCaptures
<1>2. PICK m : Answers(id, m)
  BY <1>1
<1>3. f.base.work.kind = "solve" /\ SolveShaped(f.base.work)
  BY <1>1, CaptureStored
<1>4. Solid'
  BY <1>2, <1>3, AnswersSolid DEF SolveShaped
<1>5. Awaits(f) /\ \A r \in Slots : r = s
  BY <1>1 DEF Awaits, One
<1>6. session.phase # "completed"
  BY <1>5, AwaitsFacts
<1>7. ImageStands(session.work, outcomes', moves')
  BY <1>1, <1>2 DEF ImageStands, Answers
<1>8. RequestFits(f, session, outcomes', moves')
  BY <1>1, <1>7 DEF RequestFits, Ordered, Orderly
<1>9. \A a \in DOMAIN outcomes' : Accounted(a, session, flight)
  BY <1>1, <1>2, <1>3 DEF Ordered, Orderly, Accounted, Answers
<1>10. PointingStands(session, outcomes', moves')
  BY <1>6 DEF PointingStands
<1>11. Orderly(session, flight, outcomes', moves', run)
  BY <1>5, <1>7, <1>8, <1>9, <1>10 DEF Ordered, Orderly
<1> QED
  BY <1>2, <1>4, <1>11 DEF Ordered, Answers

LEMMA CorrectingOrders ==
    ASSUME One, Solid, Ordered, NEW s \in Slots, ProviderCorrects(s)
    PROVE  Solid' /\ Ordered'
<1> DEFINE f == flight[s]
           id == f.base.work.id
<1>1. /\ f.step = "correct" /\ id \notin DOMAIN outcomes
      /\ outcomes'[id].result \in Corrections
      /\ \E m : Answers(id, m)
  <2>1. f.step = "correct" /\ id \notin DOMAIN outcomes
    BY DEF ProviderCorrects
  <2>2. Works(id, "accepted", 1) \/ Works(id, "rejected", 0)
    BY DEF ProviderCorrects
  <2>3. \/ Answers(id, moves + 1) /\ outcomes'[id].result = "accepted"
        \/ Answers(id, moves + 0) /\ outcomes'[id].result = "rejected"
    BY <2>1, <2>2, WorksFacts
  <2> QED
    BY <2>1, <2>3 DEF Corrections
<1>2. PICK m : Answers(id, m)
  BY <1>1
<1>3. Last(id.path) = "correction"
  BY <1>1 DEF Solid, FlightFits, Idle, CorrectionShaped
<1>4. Solid'
  BY <1>1, <1>2, AnswersSolid
<1>5. Awaits(f) /\ \A r \in Slots : r = s
  BY <1>1 DEF Awaits, One
<1>6. session.phase # "completed" /\ SessionFits(session)
  BY <1>5, AwaitsFacts DEF Solid
<1>7. CorrectionFits(f, session, outcomes)
  BY <1>1 DEF Ordered, Orderly, RequestFits
<1>8. CorrectionFits(f, session, outcomes')
  BY <1>2, <1>7 DEF CorrectionFits, Answers
<1>9. ImageStands(session.work, outcomes', moves')
  <2>1. session.work.kind = "solve" =>
          outcomes'[session.work.id].result = "automatic"
    BY <1>6, <1>8, PhaseFacts DEF CorrectionFits
  <2> QED
    BY <2>1 DEF ImageStands
<1>10. RequestFits(f, session, outcomes', moves')
  BY <1>1, <1>8 DEF RequestFits, Ordered, Orderly
<1>11. \A a \in DOMAIN outcomes' : Accounted(a, session, flight)
  BY <1>2, <1>3 DEF Ordered, Orderly, Accounted, Answers
<1>12. PointingStands(session, outcomes', moves')
  BY <1>6 DEF PointingStands
<1>13. Orderly(session, flight, outcomes', moves', run)
  BY <1>5, <1>9, <1>10, <1>11, <1>12 DEF Ordered, Orderly
<1> QED
  BY <1>2, <1>4, <1>13 DEF Ordered, Answers

-----------------------------------------------------------------------------
(* The steps.                                                              *)

\* What a request stores when its provider answered.
Stored(s, t) ==
    \/ /\ flight[s].step = "capture"
       /\ flight[s].base.work.id \in DOMAIN outcomes
       /\ Solved(s).work.kind # "correct"
       /\ t = Solved(s)
    \/ /\ flight[s].step = "correct"
       /\ flight[s].base.work.id \in DOMAIN outcomes
       /\ t = AfterCorrection(flight[s].base,
                              outcomes[flight[s].base.work.id].result)
    \/ /\ flight[s].step = "frame"
       /\ \E frame, quality : t = AfterFrame(flight[s].base, frame, quality)
    \/ /\ flight[s].step = "measure"
       /\ \E result : t = AfterMeasure(flight[s].base, result)

Lands(s) ==
    \/ CaptureReturns(s) \/ CorrectionReturns(s)
    \/ FrameReturns(s) \/ MeasureReturns(s)

LEMMA ReturnsFacts ==
    ASSUME Solid, NEW s \in Slots, Lands(s)
    PROVE  \/ \E t : Stored(s, t) /\ Store(s, t)
           \/ /\ \E x : Corrects(s, x)
              /\ UNCHANGED <<session, outcomes, moves, run>>
<1>1. CASE CaptureReturns(s)
  <2>1. /\ flight[s].step = "capture"
        /\ flight[s].base.work.id \in DOMAIN outcomes
    BY <1>1 DEF CaptureReturns
  <2>2. CASE Solved(s).work.kind # "correct"
    BY <1>1, <2>1, <2>2 DEF CaptureReturns, Stored
  <2>3. CASE Solved(s).work.kind = "correct"
    <3> DEFINE x == [flight[s] EXCEPT !.step = "correct", !.base = Solved(s)]
    <3>1. /\ flight' = [flight EXCEPT ![s] = x]
          /\ UNCHANGED <<session, outcomes, moves, run>>
      BY <1>1, <2>3 DEF CaptureReturns, Solid
    <3>2. Flight(flight[s])
      BY <2>1, CaptureStored
    <3>3. Flight(x) /\ x.step = "correct" /\ x.base = Solved(s)
      BY <3>2 DEF Flight, FlightFields
    <3> HIDE DEF x
    <3>4. Put(s, x)
      BY <3>1, PutFacts DEF Solid
    <3>5. Corrects(s, x)
      BY <2>1, <2>3, <3>3, <3>4 DEF Corrects
    <3> QED
      BY <3>1, <3>5
  <2> QED
    BY <2>2, <2>3
<1>2. CASE CorrectionReturns(s)
  BY <1>2 DEF CorrectionReturns, Stored
<1>3. CASE FrameReturns(s)
  <2>1. PICK frame, quality :
          /\ flight[s].step = "frame"
          /\ Store(s, AfterFrame(flight[s].base, frame, quality))
    BY <1>3 DEF FrameReturns
  <2> QED
    BY <2>1 DEF Stored
<1>4. CASE MeasureReturns(s)
  <2>1. PICK result : /\ flight[s].step = "measure"
                      /\ Store(s, AfterMeasure(flight[s].base, result))
    BY <1>4 DEF MeasureReturns
  <2> QED
    BY <2>1 DEF Stored
<1> QED
  BY <1>1, <1>2, <1>3, <1>4 DEF Lands

LEMMA StoredFits ==
    ASSUME Solid, NEW s \in Slots, NEW t, Stored(s, t), Valid(t)
    PROVE  SessionFits(t)
BY CaptureStored, CorrectionStored, FrameStored, MeasureStored DEF Stored

LEMMA StoredOrders ==
    ASSUME One, Solid, Ordered, NEW s \in Slots,
           Stored(s, session'), Valid(session'), Put(s, Idle),
           UNCHANGED <<outcomes, moves, run>>
    PROVE  Ordered'
BY CaptureOrders, CorrectionOrders, FrameOrders, MeasureOrders DEF Stored

LEMMA WorksSolid ==
    ASSUME Solid, NEW s \in Slots, ProviderCaptures(s) \/ ProviderCorrects(s)
    PROVE  Solid' /\ UNCHANGED session
<1> DEFINE id == flight[s].base.work.id
<1>1. CASE ProviderCaptures(s)
  <2>1. flight[s].step = "capture" /\ id \notin DOMAIN outcomes
    BY <1>1 DEF ProviderCaptures
  <2>2. PICK result, moved : Works(id, result, moved)
    BY <1>1 DEF ProviderCaptures
  <2>3. Answers(id, moves + moved)
    BY <2>1, <2>2, WorksFacts
  <2>4. Last(id.path) # "correction"
    BY <2>1, CaptureStored DEF SolveShaped
  <2> QED
    BY <2>3, <2>4, AnswersSolid DEF Answers
<1>2. CASE ProviderCorrects(s)
  <2>1. id \notin DOMAIN outcomes
    BY <1>2 DEF ProviderCorrects
  <2>2. Works(id, "accepted", 1) \/ Works(id, "rejected", 0)
    BY <1>2 DEF ProviderCorrects
  <2>3. PICK m : Answers(id, m) /\ outcomes'[id].result \in Corrections
    <3>1. \/ Answers(id, moves + 1) /\ outcomes'[id].result = "accepted"
          \/ Answers(id, moves + 0) /\ outcomes'[id].result = "rejected"
      BY <2>1, <2>2, WorksFacts
    <3> QED
      BY <3>1 DEF Corrections
  <2> QED
    BY <2>3, AnswersSolid DEF Answers
<1> QED
  BY <1>1, <1>2

\* The session, the requests and the rig rest.
Around ==
    /\ UNCHANGED <<session, flight, outcomes, moves>>
    /\ \/ run' = run \/ run' = "stopped"
       \/ run' = "capture" /\ session.phase = "completed"

LEMMA StepCases ==
    ASSUME Solid, Next
    PROVE  \/ SessionCommands
           \/ Around
           \/ \E s \in Slots :
                \/ \E c \in Clients : RequestCommands(s, c)
                \/ ProviderCaptures(s) \/ ProviderCorrects(s)
                \/ Lands(s)
                \/ Put(s, Idle) /\ UNCHANGED <<session, outcomes, moves, run>>
<1>1. CASE Commands
  <2>1. CASE DenyOuterTransition
    BY <2>1 DEF DenyOuterTransition, Around
  <2> QED
    BY <1>1, <2>1 DEF Commands, SessionCommands, RequestCommands
<1>2. ASSUME NEW s \in Slots, RequestEnds(s)
      PROVE  Put(s, Idle) /\ UNCHANGED <<session, outcomes, moves, run>>
  BY <1>2, PutFacts DEF RequestEnds, Solid
<1>3. ASSUME NEW s \in Slots, Progress(s)
      PROVE  ProviderCaptures(s) \/ ProviderCorrects(s) \/ Lands(s)
  BY <1>3 DEF Progress, Lands
<1>4. CASE ContinueCompletedAcquire \/ StopRun \/ TakeControl \/ Tick
  BY <1>4 DEF ContinueCompletedAcquire, StopRun, TakeControl, Tick, Around
<1> QED
  BY <1>1, <1>2, <1>3, <1>4 DEF Next

LEMMA SolidInit ==
    ASSUME Init
    PROVE  Solid
<1>1. Identity(Initial) /\ Last(Initial.path) # "correction"
  <2> DEFINE p == <<"initial-1">>
  <2>1. p \in Seq({"initial-1"}) /\ Len(p) = 1 /\ p[1] = "initial-1"
        /\ DOMAIN p = {1}
    OBVIOUS
  <2>2. Within(p) = {"initial-1"}
    BY <2>1 DEF Within
  <2>3. Initial = [root |-> 0, path |-> p]
    BY DEF Initial
  <2> HIDE DEF p
  <2> QED
    BY <2>1, <2>2, <2>3 DEF Identity, IdFields, IsSequence, Last
<1>2. IsSequence(<<>>)
  BY DEF IsSequence, Within
<1>3. CASE Method = "polar"
  <2>1. session = PolarSession(Policy)
    BY <1>3 DEF Init, Policy
  <2>2. /\ session = [x \in Fields |-> session[x]]
        /\ session.revision = 0 /\ session.evidence = <<>>
        /\ session.phase = "polarGuidance" /\ session.work = NoWork
        /\ session.series = <<>> /\ session.proposal = NoProposal
        /\ session.method = Method /\ session.policy = Policy
    BY <1>3, <2>1 DEF PolarSession, Fields
  <2>3. ValidPhase(session) /\ session.phase \in Phases
    BY <1>3, <2>2 DEF ValidPhase, Phases, NoWork
  <2>4. SessionFits(session)
    BY <1>2, <2>2, <2>3 DEF SessionFits, Shaped, NoWork
  <2> QED
    BY <2>4 DEF Init, Solid, FlightFits
<1>4. CASE Method # "polar"
  <2> DEFINE q == <<Series(Initial, "initial", "asPlanned", NoAttempt)>>
             w == SolveWork(Initial, Initial, "initial", NoAttempt)
  <2>1. q # <<>>
    OBVIOUS
  <2>2. /\ w = [x \in SolveFields |-> w[x]] /\ w.kind = "solve"
        /\ w.id = Initial
    BY DEF SolveWork, SolveFields
  <2>3. session = [PolarSession(Policy) EXCEPT
                     !.method = Method, !.phase = "solving", !.series = q,
                     !.work = w]
    BY <1>4 DEF Init, TargetAcquisitionSession, Policy
  <2> HIDE DEF q, w
  <2>4. /\ session = [x \in Fields |-> session[x]]
        /\ session.revision = 0 /\ session.evidence = <<>>
        /\ session.phase = "solving" /\ session.series = q
        /\ session.work = w /\ session.proposal = NoProposal
        /\ session.method = Method /\ session.policy = Policy
    BY <2>3 DEF PolarSession, Fields
  <2>5. Shaped(session)
    BY <1>2, <2>4 DEF Shaped
  <2>6. ValidPhase(session) /\ session.phase \in Phases
    BY <1>4, <2>1, <2>2, <2>4 DEF ValidPhase, Phases
  <2>7. SolveShaped(w)
    BY <1>1, <2>2 DEF SolveShaped
  <2>8. SessionFits(session)
    BY <2>4, <2>5, <2>6, <2>7 DEF SessionFits
  <2> QED
    BY <2>8 DEF Init, Solid, FlightFits
<1> QED
  BY <1>3, <1>4

LEMMA SolidStep ==
    ASSUME Solid, [Next]_vars
    PROVE  Solid'
<1>1. CASE SessionCommands
  BY <1>1, CommandFits, CommandKeeps DEF Solid
<1>2. CASE Around \/ UNCHANGED vars
  BY <1>2 DEF Solid, Around, vars
<1>3. ASSUME NEW s \in Slots, NEW c, RequestCommands(s, c)
      PROVE  Solid'
  BY <1>3, LeaveFacts, LeaveSolid
<1>4. ASSUME NEW s \in Slots, ProviderCaptures(s) \/ ProviderCorrects(s)
      PROVE  Solid'
  BY <1>4, WorksSolid
<1>5. ASSUME NEW s \in Slots, Lands(s)
      PROVE  Solid'
  <2>1. CASE \E t : Stored(s, t) /\ Store(s, t)
    BY <2>1, StoredFits, StoreSolid
  <2>2. CASE /\ \E x : Corrects(s, x)
             /\ UNCHANGED <<session, outcomes, moves, run>>
    BY <2>2, CorrectsSolid
  <2> QED
    BY <1>5, <2>1, <2>2, ReturnsFacts
<1>6. ASSUME NEW s \in Slots, Put(s, Idle), UNCHANGED <<session, outcomes>>
      PROVE  Solid'
  BY <1>6, PutSolid DEF FlightFits, Solid
<1> QED
  BY <1>1, <1>2, <1>3, <1>4, <1>5, <1>6, StepCases

LEMMA OrderStep ==
    ASSUME One, Solid, Ordered, [Next]_vars
    PROVE  Ordered'
<1>1. CASE SessionCommands
  BY <1>1, CommandOrders
<1>2. CASE Around
  <2>1. RunFits(session, run')
    BY <1>2 DEF Around, RunFits, Ordered, Orderly
  <2> QED
    BY <1>2, <2>1 DEF Around, Ordered, Orderly
<1>3. CASE UNCHANGED vars
  BY <1>3 DEF vars, Ordered
<1>4. ASSUME NEW s \in Slots, NEW c, RequestCommands(s, c)
      PROVE  Ordered'
  BY <1>4, LeaveFacts, LeaveOrders
<1>5. ASSUME NEW s \in Slots, ProviderCaptures(s) \/ ProviderCorrects(s)
      PROVE  Ordered'
  BY <1>5, CapturesOrders, CorrectingOrders
<1>6. ASSUME NEW s \in Slots, Lands(s)
      PROVE  Ordered'
  <2>1. CASE \E t : Stored(s, t) /\ Store(s, t)
    <3>1. PICK t : Stored(s, t) /\ Store(s, t)
      BY <2>1
    <3>2. /\ Put(s, Idle)
          /\ UNCHANGED <<outcomes, moves, run>>
          /\ \/ session' = t /\ Valid(t)
             \/ session' = session
      BY <3>1, StoredFits, StoreSolid
    <3> QED
      BY <3>1, <3>2, StoredOrders, EndOrders
  <2>2. CASE /\ \E x : Corrects(s, x)
             /\ UNCHANGED <<session, outcomes, moves, run>>
    BY <2>2, CorrectsOrders
  <2> QED
    BY <1>6, <2>1, <2>2, ReturnsFacts
<1>7. ASSUME NEW s \in Slots, Put(s, Idle),
             UNCHANGED <<session, outcomes, moves, run>>
      PROVE  Ordered'
  BY <1>7, EndOrders
<1> QED
  BY <1>1, <1>2, <1>3, <1>4, <1>5, <1>6, <1>7, StepCases

LEMMA OrderInit ==
    ASSUME Init
    PROVE  Ordered
<1>1. /\ DOMAIN outcomes = {} /\ run = "acquire"
      /\ \A r \in Slots : flight[r] = Idle
  BY DEF Init
<1>2. session.phase # "completed"
  BY DEF Init, PolarSession, TargetAcquisitionSession
<1>3. \A r \in Slots : RequestFits(flight[r], session, outcomes, moves)
  BY <1>1 DEF RequestFits, Idle
<1>4. ImageStands(session.work, outcomes, moves)
  BY <1>1 DEF ImageStands
<1>5. PointingStands(session, outcomes, moves) /\ RunFits(session, run)
  BY <1>1, <1>2 DEF PointingStands, RunFits
<1> QED
  BY <1>1, <1>3, <1>4, <1>5 DEF Ordered, Orderly

-----------------------------------------------------------------------------
(* What the session promises.                                              *)

LEMMA InvInductive ==
    /\ Init => Inv
    /\ Inv /\ [Next]_vars => Inv'
<1>1. Init => Inv
  BY SolidInit, OrderInit DEF Inv, Ordered
<1>2. ASSUME Inv, [Next]_vars
      PROVE  Inv'
  <2>1. Solid'
    BY <1>2, SolidStep DEF Inv
  <2>2. One => Ordered'
    BY <1>2, OrderStep DEF Inv, Ordered
  <2> QED
    BY <2>1, <2>2 DEF Inv, Ordered, One
<1> QED
  BY <1>1, <1>2

LEMMA Invariance == Spec => []Inv
BY InvInductive, PTL DEF Spec

LEMMA AloneIsOne ==
    ASSUME Solid
    PROVE  Alone <=> One
BY DEF Solid, Alone, One

LEMMA InvCenters ==
    ASSUME Inv
    PROVE  CenteredByImage
<1>1. SessionFits(session) /\ ValidPhase(session)
  BY DEF Inv, Solid, SessionFits
<1>2. CompletedByImage
  BY <1>1 DEF CompletedByImage, SessionFits
<1>3. ASSUME Alone
      PROVE  PointingIsVerified /\ CapturesCentered
  <2>1. PointingStands(session, outcomes, moves) /\ RunFits(session, run)
    BY <1>3, AloneIsOne DEF Inv, Orderly
  <2> QED
    BY <1>1, <2>1, ProvingFacts, MethodFacts
    DEF PointingIsVerified, CapturesCentered, PointingStands, RunFits
<1> QED
  BY <1>2, <1>3 DEF CenteredByImage

(* Whatever the images prove, however often an attempt is retried,         *)
(* corrected or recovered, and with any number of requests in flight, a    *)
(* session is completed only by an image that proves the target centred    *)
(* (applySolveTerminalEvidence, applyLunarLimbTerminalEvidence) or by the  *)
(* latest polar measurement (AcceptPolarAlignmentEvidence).  When the      *)
(* origin serves one request at a time that image is newer than the last   *)
(* movement of the mount, and the run captures nothing before it.          *)
THEOREM SessionsAreCentered == Spec => []CenteredByImage
BY Invariance, InvCenters, PTL

-----------------------------------------------------------------------------
(* Evidence.                                                               *)

LEMMA StoredKeeps ==
    ASSUME One, Solid, Ordered, NEW s \in Slots, NEW t, Stored(s, t)
    PROVE  Extends(t.evidence, session.evidence)
<1> DEFINE f == flight[s]
<1>1. RequestFits(f, session, outcomes, moves)
  BY DEF Ordered, Orderly
<1>2. CASE f.step = "capture"
  <2>1. t = Solved(s)
    BY <1>2 DEF Stored
  <2>2. Extends(t.evidence, f.base.evidence)
    BY <1>2, <2>1, CaptureStored DEF Imaged
  <2> QED
    BY <1>1, <1>2, <2>2 DEF RequestFits
<1>3. CASE f.step = "correct"
  <2>1. t = AfterCorrection(f.base, outcomes[f.base.work.id].result)
        /\ f.base.work.id \in DOMAIN outcomes
    BY <1>3 DEF Stored
  <2>2. Extends(t.evidence, f.base.evidence)
    BY <1>3, <2>1, CorrectionStored
  <2>3. Extends(f.base.evidence, session.evidence)
    BY <1>1, <1>3 DEF RequestFits
  <2> QED
    BY <2>2, <2>3, ExtendsFacts
<1>4. CASE f.step = "frame"
  <2>1. PICK frame, quality : t = AfterFrame(f.base, frame, quality)
    BY <1>4 DEF Stored
  <2>2. Extends(t.evidence, f.base.evidence)
    BY <1>4, <2>1, FrameStored
  <2> QED
    BY <1>1, <1>4, <2>2 DEF RequestFits
<1>5. CASE f.step = "measure"
  <2>1. PICK result : t = AfterMeasure(f.base, result)
    BY <1>5 DEF Stored
  <2>2. Extends(t.evidence, f.base.evidence)
    BY <1>5, <2>1, MeasureStored
  <2> QED
    BY <1>1, <1>5, <2>2 DEF RequestFits
<1> QED
  BY <1>2, <1>3, <1>4, <1>5 DEF Stored

LEMMA EvidenceStep ==
    ASSUME One, Solid, Ordered, [Next]_vars
    PROVE  KeepsEvidence
<1>1. session' = session => KeepsEvidence
  BY ExtendsFacts DEF KeepsEvidence
<1>2. CASE SessionCommands
  BY <1>2, CommandFits, ExtendsFacts DEF Solid, CommandStep, KeepsEvidence
<1>3. CASE Around \/ UNCHANGED vars
  BY <1>1, <1>3 DEF Around, vars
<1>4. ASSUME NEW s \in Slots, NEW c, RequestCommands(s, c)
      PROVE  session' = session
  BY <1>4, LeaveFacts
<1>5. ASSUME NEW s \in Slots, ProviderCaptures(s) \/ ProviderCorrects(s)
      PROVE  session' = session
  BY <1>5, WorksSolid
<1>6. ASSUME NEW s \in Slots, Lands(s)
      PROVE  KeepsEvidence
  <2>1. CASE \E t : Stored(s, t) /\ Store(s, t)
    <3>1. PICK t : Stored(s, t) /\ Store(s, t)
      BY <2>1
    <3>2. session' = t \/ session' = session
      BY <3>1 DEF Store
    <3> QED
      BY <1>1, <3>1, <3>2, StoredKeeps DEF KeepsEvidence
  <2> QED
    BY <1>1, <1>6, <2>1, ReturnsFacts
<1> QED
  BY <1>1, <1>2, <1>3, <1>4, <1>5, <1>6, StepCases

(* When the origin serves one request of a session at a time, what a       *)
(* session once recorded it still holds, in the same place, after every    *)
(* retry, correction, recovery, frame and measurement (recordEvidence in   *)
(* acquire-domain.ts, putSession): nothing computed from an older session  *)
(* replaces a newer one.                                                   *)
THEOREM EvidenceStaysKept == Spec => EvidenceIsKept
<1>1. Inv /\ [Next]_vars => [Alone => KeepsEvidence]_vars
  BY EvidenceStep, AloneIsOne DEF Inv, Ordered
<1> QED
  BY <1>1, Invariance, PTL DEF Spec, EvidenceIsKept

-----------------------------------------------------------------------------
(* Revisions and proposals.                                                *)

LEMMA AdvanceRest ==
    ASSUME NEW s, Shaped(s), NEW phase, NEW work, NEW proposal
    PROVE  LET t == Advance(s, phase, work, proposal)
           IN /\ t.revision = s.revision + 1 /\ t.proposal = proposal
              /\ t.managed = s.managed
BY DEF Advance, Shaped, Fields

\* What an edit that is no transition of its own leaves alone.
Same(s, t) ==
    /\ t.revision = s.revision /\ t.proposal = s.proposal
    /\ t.managed = s.managed

LEMMA EditRest ==
    ASSUME NEW s, Shaped(s), NEW x, NEW e
    PROVE  /\ Same(s, [s EXCEPT !.series = x])
           /\ Same(s, [s EXCEPT !.latest = x])
           /\ Same(s, [s EXCEPT !.approved = x])
           /\ Same(s, Recorded(s, e))
           /\ Same(s, Completes(s, e))
<1>1. Shaped(Recorded(s, e))
  BY RecordFacts
<1>2. ASSUME NEW r, Shaped(r), NEW y
      PROVE  /\ Same(r, [r EXCEPT !.series = y])
             /\ Same(r, [r EXCEPT !.latest = y])
             /\ Same(r, [r EXCEPT !.approved = y])
  BY <1>2 DEF Same, Shaped, Fields
<1>3. Same(s, Recorded(s, e))
  BY DEF Same, Shaped, Fields, Recorded
<1>4. Same(s, Completes(s, e))
  <2> DEFINE r == Recorded(s, e)
             y == [i \in DOMAIN s.series |->
                     IF s.series[i].id = s.work.series
                     THEN [s.series[i] EXCEPT !.done = Append(@, s.work.id)]
                     ELSE s.series[i]]
  <2>1. Completes(s, e) = [r EXCEPT !.series = y]
    BY DEF Completes
  <2> HIDE DEF r, y
  <2>2. Same(r, [r EXCEPT !.series = y])
    BY <1>1, <1>2 DEF r
  <2>3. Same(s, r)
    BY <1>3 DEF r
  <2> QED
    BY <2>1, <2>2, <2>3 DEF Same
<1> QED
  BY <1>2, <1>3, <1>4

LEMMA SlewRest ==
    ASSUME NEW s, Shaped(s)
    PROVE  LET t == SlewAcknowledged(s)
           IN /\ t.revision >= s.revision
              /\ t.proposal = s.proposal /\ t.managed = s.managed
<1> DEFINE e == [kind |-> "slew", id |-> s.work.id]
           r == Recorded(s, e)
           t == [r EXCEPT !.revision = @ + 1]
<1>1. Same(s, r) /\ Shaped(r)
  BY EditRest, RecordFacts
<1> HIDE DEF r, e
<1>2. /\ t.revision = r.revision + 1 /\ t.proposal = r.proposal
      /\ t.managed = r.managed
  BY <1>1 DEF Shaped, Fields
<1> HIDE DEF t
<1>3. SlewAcknowledged(s) = IF s.work.purpose = "initial" THEN t ELSE s
  BY DEF SlewAcknowledged, t, r, e
<1> QED
  BY <1>1, <1>2, <1>3 DEF Same, Shaped

ProposalFields ==
    {"revision", "id", "basedOn", "basis", "vector", "expires"}

Formed(p) == p = [x \in ProposalFields |-> p[x]]

\* A proposal that follows from an image names the image.
Opened(p, id) ==
    Formed(p) /\ p.basedOn = id /\ p.id = Suffixed(id, "proposal")

LEMMA SolveRest ==
    ASSUME NEW s, Shaped(s), NEW result, NEW at
    PROVE  LET t == AfterSolve(s, result, at)
           IN /\ t.revision = s.revision + 1 /\ t.managed = s.managed
              /\ t.proposal # NoProposal => Opened(t.proposal, s.work.id)
<1> DEFINE e == [kind |-> "solve", id |-> s.work.id,
                 series |-> s.work.series, verifies |-> s.work.verifies,
                 result |-> result]
           c == Completes(s, e)
           t == AfterSolve(s, result, at)
           proposal == [revision |-> s.revision + 1,
                        id |-> Suffixed(s.work.id, "proposal"),
                        basedOn |-> s.work.id, basis |-> "measuredInverse",
                        vector |-> result, expires |-> at + 1]
<1>1. Shaped(c) /\ Same(s, c)
  BY CompleteFacts, EditRest
<1>2. \/ \E phase, work : t = Advance(c, phase, work, NoProposal)
      \/ \E phase, work : t = Advance(c, phase, work, proposal)
  BY DEF AfterSolve
<1>3. Opened(proposal, s.work.id)
  BY DEF Opened, Formed, ProposalFields
<1> HIDE DEF e, c, t, proposal
<1>4. /\ t.revision = c.revision + 1 /\ t.managed = c.managed
      /\ t.proposal \in {NoProposal, proposal}
  BY <1>1, <1>2, AdvanceRest
<1> QED
  BY <1>1, <1>3, <1>4 DEF Same, t

LEMMA LimbRest ==
    ASSUME NEW s, Shaped(s), NEW result
    PROVE  LET t == AfterLimb(s, result)
           IN /\ t.revision = s.revision + 1 /\ t.managed = s.managed
              /\ t.proposal = NoProposal
<1> DEFINE c == Completes(s, [kind |-> "lunar", id |-> s.work.id,
                              result |-> result])
<1>1. Shaped(c) /\ Same(s, c)
  BY CompleteFacts, EditRest
<1>2. AfterLimb(s, result) =
        Advance(c, IF result = "centered" THEN "completed" ELSE "paused",
                NoWork, NoProposal)
  BY DEF AfterLimb
<1> HIDE DEF c
<1> QED
  BY <1>1, <1>2, AdvanceRest DEF Same

LEMMA CaptureRest ==
    ASSUME NEW s, Shaped(s), NEW result, NEW at
    PROVE  LET t == AfterCapture(s, result, at)
           IN /\ t.revision > s.revision /\ t.managed = s.managed
              /\ t.proposal # NoProposal => Opened(t.proposal, s.work.id)
<1> DEFINE u == SlewAcknowledged(s)
<1>1. Shaped(u) /\ u.work = s.work
  BY SlewFacts
<1>2. u.revision >= s.revision /\ u.managed = s.managed
  BY SlewRest
<1>3. AfterCapture(s, result, at) \in
        {AfterLimb(u, result), AfterSolve(u, result, at)}
  BY DEF AfterCapture
<1>4. s.revision \in Nat /\ u.revision \in Nat
  BY <1>1 DEF Shaped
<1> HIDE DEF u
<1>5. CASE AfterCapture(s, result, at) = AfterLimb(u, result)
  BY <1>1, <1>2, <1>4, <1>5, LimbRest
<1>6. CASE AfterCapture(s, result, at) = AfterSolve(u, result, at)
  BY <1>1, <1>2, <1>4, <1>6, SolveRest
<1> QED
  BY <1>3, <1>5, <1>6

\* The other transitions count one revision.
Counts(s, t) == t.revision = s.revision + 1 /\ t.managed = s.managed

LEMMA OtherRest ==
    ASSUME NEW s, Shaped(s)
    PROVE  /\ Counts(s, Approved(s)) /\ Counts(s, Scheduled(s))
           /\ \A answer : Counts(s, AfterCorrection(s, answer))
           /\ \A frame, quality : Counts(s, AfterFrame(s, frame, quality))
           /\ \A result : Counts(s, AfterMeasure(s, result))
           /\ \A parameters : Counts(s, Recovering(s, parameters))
                /\ \A vector : Counts(s, Revised(s, vector))
           /\ Counts(s, PolarAccepted(s))
<1>1. ASSUME NEW u, Shaped(u), NEW phase, NEW work, NEW proposal
      PROVE  Counts(u, Advance(u, phase, work, proposal))
  BY <1>1, AdvanceRest DEF Counts
<1>2. /\ Counts(s, Approved(s)) /\ Counts(s, Scheduled(s))
      /\ \A vector : Counts(s, Revised(s, vector))
  <2>1. Counts(s, Approved(s))
    BY <1>1 DEF Approved
  <2>2. Counts(s, Scheduled(s))
    BY <1>1 DEF Scheduled
  <2>3. \A vector : Counts(s, Revised(s, vector))
    BY <1>1 DEF Revised
  <2> QED
    BY <2>1, <2>2, <2>3
<1>3. ASSUME NEW answer
      PROVE  Counts(s, AfterCorrection(s, answer))
  <2> DEFINE r == Recorded(s, [kind |-> answer, id |-> s.work.id,
                               basedOn |-> s.work.basedOn])
             q == Append(r.series,
                         Series(Suffixed(s.work.id, "verification"),
                                "correctionVerification",
                                Last(s.series).parameters, s.work.id))
             v == [r EXCEPT !.series = q]
             t == AfterCorrection(s, answer)
  <2>1. Shaped(r) /\ Same(s, r)
    BY RecordFacts, EditRest
  <2>2. \/ \E phase, work : t = Advance(r, phase, work, NoProposal)
        \/ \E phase, work : t = Advance(v, phase, work, NoProposal)
    BY DEF AfterCorrection
  <2> HIDE DEF r, t, q
  <2>3. Shaped(v) /\ Same(r, v)
    BY <2>1, FieldFacts, EditRest
  <2> HIDE DEF v
  <2> QED
    BY <1>1, <2>1, <2>2, <2>3 DEF Counts, Same, t
<1>4. ASSUME NEW frame, NEW quality
      PROVE  Counts(s, AfterFrame(s, frame, quality))
  <2> DEFINE r == Recorded(s, [kind |-> "frame", id |-> frame,
                               quality |-> quality])
  <2>1. Shaped(r) /\ Same(s, r)
    BY RecordFacts, EditRest
  <2>2. AfterFrame(s, frame, quality) = [r EXCEPT !.revision = @ + 1]
    BY DEF AfterFrame
  <2> HIDE DEF r
  <2> QED
    BY <2>1, <2>2 DEF Counts, Same, Shaped, Fields
<1>5. ASSUME NEW result
      PROVE  Counts(s, AfterMeasure(s, result))
  <2> DEFINE r == Recorded(s, [kind |-> "polar", id |-> s.work.id,
                               result |-> result])
             a == Advance(r, "polarGuidance", NoWork, NoProposal)
  <2>1. Shaped(r) /\ Same(s, r)
    BY RecordFacts, EditRest
  <2>2. AfterMeasure(s, result) = [a EXCEPT !.latest = s.work.id]
    BY DEF AfterMeasure
  <2> HIDE DEF r
  <2>3. Shaped(a) /\ Counts(r, a)
    BY <1>1, <2>1, AdvanceFacts
  <2> HIDE DEF a
  <2>4. Same(a, [a EXCEPT !.latest = s.work.id])
    BY <2>3, EditRest
  <2> QED
    BY <2>1, <2>2, <2>3, <2>4 DEF Counts, Same
<1>6. ASSUME NEW parameters
      PROVE  Counts(s, Recovering(s, parameters))
  <2> DEFINE q == Append(s.series,
                         Series(Minted(s, "recovery"), "operatorRecovery",
                                parameters, NoAttempt))
             v == [s EXCEPT !.series = q]
  <2>1. \E work : Recovering(s, parameters) =
                    Advance(v, "solving", work, NoProposal)
    BY DEF Recovering
  <2> HIDE DEF q
  <2>2. Shaped(v) /\ Same(s, v)
    BY FieldFacts, EditRest
  <2> HIDE DEF v
  <2> QED
    BY <1>1, <2>1, <2>2 DEF Counts, Same
<1>7. Counts(s, PolarAccepted(s))
  <2> DEFINE a == Advance(s, "completed", NoWork, NoProposal)
  <2>1. PolarAccepted(s) = [a EXCEPT !.approved = s.latest]
    BY DEF PolarAccepted
  <2>2. Shaped(a) /\ Counts(s, a)
    BY <1>1, AdvanceFacts
  <2> HIDE DEF a
  <2>3. Same(a, [a EXCEPT !.approved = s.latest])
    BY <2>2, EditRest
  <2> QED
    BY <2>1, <2>2, <2>3 DEF Counts, Same
<1> QED
  BY <1>2, <1>3, <1>4, <1>5, <1>6, <1>7

-----------------------------------------------------------------------------
(* The name of a proposal tells the image it is based on, and how often it *)
(* was revised.                                                            *)
Named(p) ==
    LET n == Len(p.basedOn.path) + 1
        path == p.id.path
    IN /\ Formed(p) /\ Identity(p.basedOn) /\ Identity(p.id)
       /\ p.id.root = p.basedOn.root
       /\ n \in DOMAIN path /\ path[n] = "proposal"
       /\ \A i \in DOMAIN path :
            /\ i < n => path[i] = p.basedOn.path[i]
            /\ i > n => path[i] = "revision"

LEMMA PathFacts ==
    ASSUME NEW id, Identity(id), NEW part
    PROVE  LET q == id.path
               r == Suffixed(id, part).path
           IN /\ Len(q) \in Nat /\ DOMAIN q = 1 .. Len(q)
              /\ Len(r) = Len(q) + 1 /\ DOMAIN r = 1 .. Len(q) + 1
              /\ \A i \in DOMAIN q : r[i] = q[i]
              /\ r[Len(q) + 1] = part
              /\ Suffixed(id, part).root = id.root
              /\ Identity(Suffixed(id, part))
<1> DEFINE q == id.path
           r == Append(q, part)
<1>1. Suffixed(id, part).path = r /\ Suffixed(id, part).root = id.root
  BY DEF Identity, IdFields, Suffixed
<1>2. /\ IsSequence(r) /\ Len(q) \in Nat /\ DOMAIN q = 1 .. Len(q)
      /\ DOMAIN r = 1 .. Len(q) + 1
      /\ \A i \in DOMAIN q : r[i] = q[i]
      /\ r[Len(q) + 1] = part
  BY AppendFacts DEF Identity
<1>3. r \in Seq(Within(r))
  BY <1>2 DEF IsSequence
<1>4. Len(r) = Len(q) + 1
  BY <1>2, <1>3
<1> HIDE DEF r
<1> QED
  BY <1>1, <1>2, <1>4, SuffixFacts

LEMMA OpenedNamed ==
    ASSUME NEW p, NEW id, Identity(id), Opened(p, id)
    PROVE  Named(p)
BY PathFacts DEF Opened, Named

\* One revision of a proposal.
Replaces(q, p) ==
    Formed(q) /\ q.basedOn = p.basedOn /\ q.id = Suffixed(p.id, "revision")

LEMMA RevisedNamed ==
    ASSUME NEW p, NEW q, Named(p), Replaces(q, p)
    PROVE  /\ Named(q)
           /\ Len(p.id.path) \in Nat /\ Len(q.id.path) = Len(p.id.path) + 1
<1>1. Identity(p.id)
  BY DEF Named
<1> DEFINE r == p.id.path
           t == q.id.path
           n == Len(p.basedOn.path) + 1
<1>2. /\ Len(r) \in Nat /\ DOMAIN r = 1 .. Len(r)
      /\ Len(t) = Len(r) + 1 /\ DOMAIN t = 1 .. Len(r) + 1
      /\ \A i \in DOMAIN r : t[i] = r[i]
      /\ t[Len(r) + 1] = "revision"
      /\ q.id.root = p.id.root /\ Identity(q.id)
  BY <1>1, PathFacts DEF Replaces
<1>3. /\ Identity(p.basedOn) /\ q.basedOn = p.basedOn
      /\ p.id.root = p.basedOn.root
      /\ n \in DOMAIN r /\ r[n] = "proposal"
      /\ \A i \in DOMAIN r : /\ i < n => r[i] = p.basedOn.path[i]
                             /\ i > n => r[i] = "revision"
  BY DEF Named, Replaces
<1> HIDE DEF t, r, n
<1>4. n \in DOMAIN t /\ t[n] = "proposal"
  BY <1>2, <1>3
<1>5. \A i \in DOMAIN t : /\ i < n => t[i] = p.basedOn.path[i]
                          /\ i > n => t[i] = "revision"
  BY <1>2, <1>3
<1>6. /\ Formed(q) /\ Identity(q.id) /\ Identity(q.basedOn)
      /\ q.id.root = q.basedOn.root
  BY <1>2, <1>3 DEF Replaces
<1>7. n = Len(q.basedOn.path) + 1
  BY <1>3 DEF n
<1>8. Named(q)
  BY <1>3, <1>4, <1>5, <1>6, <1>7 DEF Named, t
<1> QED
  BY <1>2, <1>8 DEF t, r

\* Two names of different images differ.
LEMMA NamesDiffer ==
    ASSUME NEW p, NEW q, Named(p), Named(q), p.id = q.id
    PROVE  p.basedOn = q.basedOn /\ Len(p.id.path) \in Nat
<1> DEFINE r == p.id.path
           n == Len(p.basedOn.path) + 1
           m == Len(q.basedOn.path) + 1
<1>1. \A id : Identity(id) =>
        Len(id.path) \in Nat /\ DOMAIN id.path = 1 .. Len(id.path)
  BY PathFacts
<1>2. /\ n \in DOMAIN r /\ r[n] = "proposal"
      /\ m \in DOMAIN r /\ r[m] = "proposal"
      /\ \A i \in DOMAIN r : i > n => r[i] = "revision"
      /\ \A i \in DOMAIN r : i > m => r[i] = "revision"
  BY DEF Named
<1>3. /\ Identity(p.basedOn) /\ Identity(q.basedOn) /\ Identity(p.id)
      /\ p.basedOn.root = q.basedOn.root
  BY DEF Named
<1>4. n \in Nat /\ m \in Nat
  BY <1>1, <1>3
<1>5. n = m
  <2>1. "proposal" # "revision"
    OBVIOUS
  <2> QED
    BY <1>2, <1>4, <2>1
<1>6. \A i \in DOMAIN r :
        i < n => r[i] = p.basedOn.path[i] /\ r[i] = q.basedOn.path[i]
  BY <1>5 DEF Named
<1>7. /\ DOMAIN p.basedOn.path = 1 .. n - 1
      /\ DOMAIN q.basedOn.path = 1 .. n - 1
      /\ DOMAIN r = 1 .. Len(r) /\ Len(r) \in Nat
  BY <1>1, <1>3, <1>5
<1>8. \A i \in 1 .. n - 1 : p.basedOn.path[i] = q.basedOn.path[i]
  BY <1>2, <1>4, <1>6, <1>7
<1>9. p.basedOn.path = q.basedOn.path
  <2>1. /\ p.basedOn.path \in Seq(Within(p.basedOn.path))
        /\ q.basedOn.path \in Seq(Within(q.basedOn.path))
    BY <1>3 DEF Identity, IsSequence
  <2> QED
    BY <1>7, <1>8, <2>1
<1> QED
  BY <1>3, <1>7, <1>9 DEF Identity, IdFields

LEMMA ManagedRest ==
    ASSUME NEW s, Shaped(s), NEW x
    PROVE  LET t == Managed(s, x)
           IN t.revision = s.revision + 1 /\ t.proposal = s.proposal
BY DEF Managed, Shaped, Fields

\* What a command does to the revision, the proposal and what is managed.
CommandMoves(s, t) ==
    /\ t.revision = s.revision + 1
    /\ t.proposal # NoProposal =>
         \/ t.proposal = s.proposal
         \/ s.proposal # NoProposal /\ Replaces(t.proposal, s.proposal)
    /\ (s.managed = NoCapture /\ s.phase # "completed") =>
         /\ t.managed = NoCapture
         /\ s.phase \in {"solving", "verifying"} => t.phase = "aborted"

LEMMA CommandRest ==
    ASSUME SessionFits(session), SessionCommands,
           session.proposal # NoProposal => Formed(session.proposal)
    PROVE  CommandMoves(session, session')
<1>1. Shaped(session) /\ ValidPhase(session)
  BY DEF SessionFits
<1>2. ASSUME NEW t, Commit(t), Counts(session, t), t.proposal = NoProposal,
             \/ session.phase \notin {"solving", "verifying"}
             \/ t.phase = "aborted"
      PROVE  CommandMoves(session, session')
  BY <1>2 DEF Commit, Counts, CommandMoves
<1>3. CASE RetryPlateSolveWithParameters
  <2>1. PICK x : session.phase = "paused" /\ Commit(Recovering(session, x))
    BY <1>3 DEF RetryPlateSolveWithParameters, OpensRecovery
  <2> DEFINE v == [session EXCEPT !.series = Append(@,
                     Series(Minted(session, "recovery"), "operatorRecovery",
                            x, NoAttempt))]
             t == Recovering(session, x)
  <2>2. \E work : t = Advance(v, "solving", work, NoProposal)
    BY DEF Recovering
  <2>3. Shaped(v)
    BY <1>1, FieldFacts
  <2> HIDE DEF v
  <2>4. t.proposal = NoProposal
    BY <2>2, <2>3, AdvanceRest
  <2>5. Counts(session, t)
    BY <1>1, OtherRest
  <2> HIDE DEF t
  <2> QED
    BY <1>2, <2>1, <2>4, <2>5 DEF t
<1>4. CASE SkipAcquireTarget \/ AbortAcquire
  <2>1. PICK phase : /\ Commit(Ended(phase))
                     /\ \/ session.phase \notin {"solving", "verifying"}
                        \/ phase = "aborted"
    BY <1>4 DEF SkipAcquireTarget, AbortAcquire, MaySkip
  <2> DEFINE t == Ended(phase)
  <2>2. /\ Counts(session, t) /\ t.proposal = NoProposal
        /\ t.phase = phase
    BY <1>1, AdvanceRest, AdvanceFacts DEF Ended, Counts
  <2> HIDE DEF t
  <2> QED
    BY <1>2, <2>1, <2>2 DEF t
<1>5. CASE RevisePointingCorrection
  <2>1. PICK x : Approvable(session) /\ Commit(Revised(session, x))
    BY <1>5 DEF RevisePointingCorrection
  <2> DEFINE p == [session.proposal EXCEPT
                     !.revision = session.revision + 1,
                     !.id = Suffixed(@, "revision"),
                     !.basis = "operatorRevision",
                     !.vector = x,
                     !.expires = NowEpochMs + 1]
             t == Revised(session, x)
  <2>2. t.proposal = p /\ Counts(session, t)
    <3>1. t = Advance(session, "awaitingApproval", NoWork, p)
      BY DEF Revised
    <3> HIDE DEF p
    <3> QED
      BY <1>1, <3>1, AdvanceRest DEF Counts
  <2>3. session' = t
    BY <2>1 DEF Commit
  <2>4. session.phase = "awaitingApproval"
    BY <2>1, PhaseFacts
  <2>5. session.proposal # NoProposal /\ Formed(session.proposal)
    BY <2>1 DEF Approvable
  <2>6. Replaces(p, session.proposal)
    BY <2>5 DEF Replaces, Formed, ProposalFields
  <2> HIDE DEF t, p
  <2> QED
    BY <2>2, <2>3, <2>4, <2>5, <2>6 DEF CommandMoves, Counts
<1>6. CASE AcceptPolarAlignmentEvidence
  <2>1. Method = "polar" /\ Commit(PolarAccepted(session))
    BY <1>6, MethodFacts DEF AcceptPolarAlignmentEvidence, MayAcceptPolar
  <2> DEFINE a == Advance(session, "completed", NoWork, NoProposal)
             t == PolarAccepted(session)
  <2>2. t = [a EXCEPT !.approved = session.latest]
    BY DEF PolarAccepted
  <2>3. Shaped(a) /\ a.proposal = NoProposal
    BY <1>1, AdvanceFacts, AdvanceRest
  <2> HIDE DEF a
  <2>4. t.proposal = NoProposal
    BY <2>2, <2>3, EditRest DEF Same
  <2>5. Counts(session, t)
    BY <1>1, OtherRest
  <2> HIDE DEF t
  <2> QED
    BY <1>2, <2>1, <2>4, <2>5, PhaseFacts DEF t
<1>7. CASE \/ StartManagedCapture \/ PauseManagedCapture
           \/ StopManagedCapture \/ RecenterManagedCapture
  <2>1. PICK x : Commit(Managed(session, x))
    BY <1>7, ManagedCommands
  <2>2. ~(session.managed = NoCapture /\ session.phase # "completed")
    BY <1>7 DEF StartManagedCapture, PauseManagedCapture,
                StopManagedCapture, RecenterManagedCapture,
                MayStart, MayPause, MayStop, MayRecenter, NoCapture
  <2>3. session' = Managed(session, x)
    BY <2>1 DEF Commit
  <2> QED
    BY <1>1, <2>2, <2>3, ManagedRest DEF CommandMoves
<1> QED
  BY <1>3, <1>4, <1>5, <1>6, <1>7 DEF SessionCommands

-----------------------------------------------------------------------------
(* What a page was shown stays behind the session.                         *)

\* The phases whose buttons name no more than the revision.
Dated == {"solving", "verifying", "paused"}

\* The proposal of a session is named by an image it holds.
Proposed(s) ==
    s.proposal # NoProposal =>
      Named(s.proposal) /\ s.proposal.basedOn \in Ids(s, {"solve"})

\* What a request would store is newer than what the session still shows.
Timely(s, fl) ==
    \A r \in Slots : (fl[r] # Idle /\ s.phase \in Dated) =>
                       s.revision <= fl[r].base.revision

\* Nothing is captured of a target that is being acquired.
Unmanned(s, fl) ==
    Method # "polar" =>
      /\ s.managed = NoCapture \/ s.phase = "completed"
      /\ \A r \in Slots : Awaits(fl[r]) => fl[r].base.managed = NoCapture

Settled(s, fl) == Proposed(s) /\ Timely(s, fl) /\ Unmanned(s, fl)

\* A revision of a proposal takes its place and never gives it back.
Superseded(p, q) ==
    (q # NoProposal /\ q.basedOn = p.basedOn) =>
      p = q \/ Len(p.id.path) < Len(q.id.path)

\* The session and its requests, as a page may have seen them before.
Past(v, s, fl) ==
    /\ v.phase \in Dated =>
         /\ v.revision <= s.revision
         /\ v.revision = s.revision => v.phase = s.phase
         /\ \A r \in Slots : fl[r] # Idle =>
                                v.revision <= fl[r].base.revision
    /\ v.proposal # NoProposal =>
         /\ v.proposal.basedOn \in Ids(s, {"solve"})
         /\ Superseded(v.proposal, s.proposal)

\* What a page holds names what it shows.
Worded(v) ==
    v.revision \in Nat /\ (v.proposal # NoProposal => Named(v.proposal))

LEMMA FlightRevision ==
    ASSUME Solid, NEW r \in Slots, flight[r] # Idle
    PROVE  Shaped(flight[r].base) /\ flight[r].base.revision \in Nat
BY DEF Solid, FlightFits, SessionFits, Shaped

\* A newer session, whose proposal is no other, or is of a new image.
LEMMA PastNewer ==
    ASSUME NEW v, Worded(v), NEW s, NEW fl, Past(v, s, fl),
           NEW t, NEW tl, t.revision \in Nat,
           v.phase \in Dated => v.revision < t.revision,
           v.phase \in Dated =>
             \A r \in Slots : tl[r] # Idle => v.revision <= tl[r].base.revision,
           Ids(s, {"solve"}) \subseteq Ids(t, {"solve"}),
           t.proposal # NoProposal =>
             \/ t.proposal = s.proposal
             \/ t.proposal.basedOn \notin Ids(s, {"solve"})
             \/ /\ s.proposal # NoProposal /\ Named(s.proposal)
                /\ Replaces(t.proposal, s.proposal)
    PROVE  Past(v, t, tl)
<1>1. v.phase \in Dated =>
        /\ v.revision <= t.revision
        /\ v.revision = t.revision => v.phase = t.phase
        /\ \A r \in Slots : tl[r] # Idle => v.revision <= tl[r].base.revision
  BY DEF Worded
<1>2. ASSUME v.proposal # NoProposal
      PROVE  v.proposal.basedOn \in Ids(t, {"solve"})
  BY <1>2 DEF Past
<1>3. ASSUME v.proposal # NoProposal
      PROVE  Superseded(v.proposal, t.proposal)
  <2>1. /\ v.proposal.basedOn \in Ids(s, {"solve"})
        /\ Superseded(v.proposal, s.proposal) /\ Named(v.proposal)
    BY <1>3 DEF Past, Worded
  <2>2. CASE t.proposal = NoProposal \/ t.proposal = s.proposal
    BY <2>1, <2>2 DEF Superseded
  <2>3. CASE t.proposal.basedOn \notin Ids(s, {"solve"})
    BY <2>1, <2>3 DEF Superseded
  <2>4. CASE /\ s.proposal # NoProposal /\ Named(s.proposal)
             /\ Replaces(t.proposal, s.proposal)
    <3>1. /\ Len(s.proposal.id.path) \in Nat
          /\ Len(t.proposal.id.path) = Len(s.proposal.id.path) + 1
      BY <2>4, RevisedNamed
    <3>2. t.proposal.basedOn = s.proposal.basedOn
      BY <2>4 DEF Replaces
    <3>3. Len(v.proposal.id.path) \in Nat
      BY <2>1, PathFacts DEF Named
    <3> QED
      BY <2>1, <2>4, <3>1, <3>2, <3>3 DEF Superseded
  <2> QED
    BY <2>2, <2>3, <2>4
<1> QED
  BY <1>1, <1>2, <1>3 DEF Past

\* A command of the session, whatever is in flight.
LEMMA CommandSettles ==
    ASSUME Solid, Ordered, Settled(session, flight), SessionCommands
    PROVE  /\ Settled(session', flight')
           /\ \A v : (Worded(v) /\ Past(v, session, flight)) =>
                       Past(v, session', flight')
<1>1. /\ SessionFits(session) /\ SessionFits(session')
      /\ CommandStep(session, session') /\ flight' = flight
  BY CommandFits, CommandKeeps DEF Solid
<1>2. session.proposal # NoProposal =>
        /\ Named(session.proposal)
        /\ session.proposal.basedOn \in Ids(session, {"solve"})
  BY DEF Settled, Proposed
<1>3. CommandMoves(session, session')
  BY <1>1, <1>2, CommandRest DEF Named
<1>4. Ids(session', {"solve"}) = Ids(session, {"solve"})
  BY <1>1, SameEvidence DEF CommandStep
<1>5. Proposed(session')
  <2>1. CASE session'.proposal = NoProposal
    BY <2>1 DEF Proposed
  <2>2. CASE session'.proposal = session.proposal
    BY <1>2, <1>4, <2>2 DEF Proposed
  <2>3. CASE /\ session.proposal # NoProposal
             /\ Replaces(session'.proposal, session.proposal)
    BY <1>2, <1>4, <2>3, RevisedNamed DEF Proposed, Replaces
  <2> QED
    BY <1>3, <2>1, <2>2, <2>3 DEF CommandMoves
<1>6. Unmanned(session', flight)
  <2> SUFFICES ASSUME Method # "polar"
               PROVE  \/ session'.managed = NoCapture
                      \/ session'.phase = "completed"
    BY DEF Settled, Unmanned
  <2>1. session.phase = "completed" => session'.phase = "completed"
    BY <1>1 DEF CommandStep
  <2> QED
    BY <1>3, <2>1 DEF CommandMoves, Settled, Unmanned
<1>7. ASSUME NEW r \in Slots, flight[r] # Idle
      PROVE  session'.phase \notin Dated
  <2>1. CASE Awaits(flight[r])
    <3>1. /\ Method # "polar"
          /\ session.phase \in {"solving", "verifying", "awaitingApproval",
                                "aborted"}
      BY <2>1, AwaitsFacts
    <3>2. session.managed = NoCapture
      BY <3>1 DEF Settled, Unmanned
    <3>3. session.phase \in {"solving", "verifying"} =>
            session'.phase = "aborted"
      BY <1>3, <3>1, <3>2 DEF CommandMoves
    <3>4. session.phase \in {"awaitingApproval", "aborted"} =>
            session'.phase \in {"awaitingApproval", "aborted"}
      BY <1>1, <3>1 DEF CommandStep
    <3> QED
      BY <3>1, <3>3, <3>4 DEF Dated
  <2>2. CASE flight[r].step = "frame"
    <3>1. session.phase = "completed"
      BY <2>2 DEF Ordered, Orderly, RequestFits
    <3>2. Method # "polar"
      BY <1>7, <2>2 DEF Solid, FlightFits
    <3> QED
      BY <1>1, <3>1, <3>2 DEF CommandStep, Dated
  <2>3. CASE flight[r].step = "measure"
    <3>1. Method = "polar"
      BY <1>7, <2>3 DEF Solid, FlightFits
    <3> QED
      BY <1>1, <3>1 DEF SessionFits, Phases, Dated
  <2> QED
    BY <1>7, <2>1, <2>2, <2>3 DEF Solid, FlightFits, Awaits
<1>8. Settled(session', flight')
  BY <1>1, <1>5, <1>6, <1>7 DEF Settled, Timely
<1>9. ASSUME NEW v, Worded(v), Past(v, session, flight)
      PROVE  Past(v, session', flight')
  <2>1. /\ session.revision \in Nat /\ session'.revision \in Nat
        /\ session'.revision = session.revision + 1
    BY <1>1, <1>3 DEF SessionFits, Shaped, CommandMoves
  <2>2. v.phase \in Dated =>
          /\ v.revision < session'.revision
          /\ \A r \in Slots : flight'[r] # Idle =>
                                 v.revision <= flight'[r].base.revision
    BY <1>1, <1>9, <2>1 DEF Past, Worded
  <2> QED
    BY <1>2, <1>3, <1>4, <1>9, <2>1, <2>2, PastNewer DEF CommandMoves
<1> QED
  BY <1>8, <1>9

\* What was seen of the session was seen of it after a step.
Follows ==
    /\ Settled(session', flight')
    /\ \A v : (Worded(v) /\ Past(v, session, flight)) =>
                Past(v, session', flight')

\* A slot changes and the session does not.
LEMMA SlotSettles ==
    ASSUME Solid, Settled(session, flight), NEW s \in Slots, NEW x,
           Put(s, x), UNCHANGED session,
           x # Idle =>
             /\ x.base.revision \in Nat
             /\ \/ session.revision <= x.base.revision
                \/ /\ flight[s] # Idle
                   /\ flight[s].base.revision <= x.base.revision,
           (Method # "polar" /\ Awaits(x)) => x.base.managed = NoCapture
    PROVE  Follows
<1>1. session.revision \in Nat
  BY DEF Solid, SessionFits, Shaped
<1>2. \A r \in Slots : flight[r] # Idle => flight[r].base.revision \in Nat
  BY FlightRevision
<1>3. \A r \in Slots : flight'[r] = IF r = s THEN x ELSE flight[r]
  BY DEF Put
<1>4. Timely(session, flight')
  BY <1>1, <1>2, <1>3 DEF Timely, Settled
<1>5. Unmanned(session, flight')
  BY <1>3 DEF Unmanned, Settled
<1>6. ASSUME NEW v, Worded(v), Past(v, session, flight)
      PROVE  Past(v, session, flight')
  <2>1. ASSUME v.phase \in Dated, NEW r \in Slots, flight'[r] # Idle
        PROVE  v.revision <= flight'[r].base.revision
    BY <1>1, <1>2, <1>3, <1>6, <2>1 DEF Past, Worded
  <2> QED
    BY <1>6, <2>1 DEF Past
<1> QED
  BY <1>4, <1>5, <1>6 DEF Settled, Follows

LEMMA LeaveSettles ==
    ASSUME Solid, Settled(session, flight), NEW s \in Slots, NEW x,
           Requests(s, x), UNCHANGED session
    PROVE  Follows
<1>1. SessionFits(session) /\ Shaped(session) /\ session.revision \in Nat
  BY DEF Solid, SessionFits, Shaped
<1>2. Put(s, x) /\ Flight(x)
  BY DEF Requests
<1>3. /\ x.base.revision \in Nat /\ session.revision <= x.base.revision
      /\ x.base.managed = session.managed
  <2>1. Counts(session, Approved(session))
        /\ Counts(session, Scheduled(session))
    BY <1>1, OtherRest
  <2> QED
    BY <1>1, <2>1 DEF Requests, Counts
<1>4. (Method # "polar" /\ Awaits(x)) => session.managed = NoCapture
  <2>1. Awaits(x) => session.phase # "completed"
    BY <1>1, PhaseFacts DEF Awaits, Requests
  <2> QED
    BY <2>1 DEF Settled, Unmanned
<1> QED
  BY <1>2, <1>3, <1>4, SlotSettles

LEMMA CorrectsSettles ==
    ASSUME Solid, Settled(session, flight), NEW s \in Slots, NEW x,
           Corrects(s, x), UNCHANGED session
    PROVE  Follows
<1> DEFINE b == flight[s].base
<1>1. Put(s, x) /\ flight[s].step = "capture" /\ x.base = Solved(s)
  BY DEF Corrects
<1>2. flight[s] # Idle /\ Awaits(flight[s])
  BY <1>1 DEF Idle, Awaits
<1>3. Shaped(b) /\ b.revision \in Nat
  BY <1>2, FlightRevision
<1>4. Shaped(Solved(s))
  BY <1>1, CaptureStored DEF Imaged
<1>5. /\ Solved(s).revision > b.revision /\ Solved(s).managed = b.managed
  BY <1>3, CaptureRest DEF Solved
<1>6. Solved(s).revision \in Nat
  BY <1>4 DEF Shaped
<1>7. (Method # "polar" /\ Awaits(x)) => x.base.managed = NoCapture
  BY <1>1, <1>2, <1>5 DEF Settled, Unmanned
<1>8. b.revision <= Solved(s).revision
  BY <1>3, <1>5, <1>6
<1> QED
  BY <1>1, <1>2, <1>6, <1>7, <1>8, SlotSettles

LEMMA EndSettles ==
    ASSUME Solid, Settled(session, flight), NEW s \in Slots,
           Put(s, Idle), UNCHANGED session
    PROVE  Follows
BY SlotSettles DEF Idle, Awaits

\* The schema lets no image of the same attempt be recorded twice.
LEMMA SolveIsNew ==
    ASSUME NEW s, Shaped(s), Method # "lunar", NEW result, NEW at,
           ValidIdentities(AfterCapture(s, result, at))
    PROVE  s.work.id \notin Ids(s, {"solve"})
<1> DEFINE u == SlewAcknowledged(s)
           e == [kind |-> "solve", id |-> u.work.id,
                 series |-> u.work.series, verifies |-> u.work.verifies,
                 result |-> result]
           c == Completes(u, e)
           t == AfterSolve(u, result, at)
           n == Len(u.evidence) + 1
<1>1. /\ Shaped(u) /\ u.work = s.work
      /\ Extends(u.evidence, s.evidence)
  BY SlewFacts
<1>2. AfterCapture(s, result, at) = t
  BY <1>1, MethodFacts DEF AfterCapture
<1>3. Shaped(c) /\ c.evidence = Append(u.evidence, e)
  BY <1>1, CompleteFacts
<1>4. \E phase, work, proposal : t = Advance(c, phase, work, proposal)
  BY DEF AfterSolve
<1>5. e.kind = "solve" /\ e.id = s.work.id
  BY <1>1
<1> HIDE DEF u, e, c, t
<1>6. t.evidence = Append(u.evidence, e)
  BY <1>3, <1>4, AdvanceFacts
<1>7. /\ n \in DOMAIN t.evidence /\ t.evidence[n] = e
      /\ DOMAIN u.evidence = 1 .. n - 1 /\ n \in Nat
      /\ DOMAIN t.evidence = 1 .. n
      /\ \A i \in DOMAIN u.evidence : t.evidence[i] = u.evidence[i]
  BY <1>1, <1>6, AppendFacts DEF Shaped
<1> HIDE DEF n
<1>8. ASSUME NEW i \in DOMAIN s.evidence, s.evidence[i].kind = "solve",
             s.evidence[i].id = s.work.id
      PROVE  FALSE
  <2>1. i \in DOMAIN u.evidence /\ u.evidence[i] = s.evidence[i]
    BY <1>1 DEF Extends
  <2>2. i \in DOMAIN t.evidence /\ i # n /\ t.evidence[i] = s.evidence[i]
    BY <1>7, <2>1
  <2> QED
    BY <1>2, <1>5, <1>7, <1>8, <2>2 DEF ValidIdentities
<1> QED
  BY <1>8 DEF Ids, Of, Places

\* What a request stores is newer than what it read.
LEMMA StoredRest ==
    ASSUME Solid, NEW s \in Slots, NEW t, Stored(s, t), Valid(t)
    PROVE  LET b == flight[s].base
           IN /\ flight[s] # Idle /\ SessionFits(t)
              /\ t.revision > b.revision
              /\ t.managed = b.managed
              /\ t.proposal # NoProposal =>
                   /\ Awaits(flight[s]) /\ flight[s].step = "capture"
                   /\ Named(t.proposal)
                   /\ t.proposal.basedOn \in Ids(t, {"solve"})
                   /\ t.proposal.basedOn \notin Ids(b, {"solve"})
              /\ flight[s].step = "frame" => t.phase = "completed"
<1> DEFINE f == flight[s]
           b == f.base
<1>1. f # Idle
  BY DEF Stored, Idle
<1>2. Shaped(b) /\ b.revision \in Nat /\ SessionFits(t) /\ ValidPhase(t)
  BY <1>1, FlightRevision, StoredFits DEF SessionFits
<1>3. CASE f.step = "capture"
  <2>1. t = Solved(s)
    BY <1>3 DEF Stored
  <2>2. /\ t.revision > b.revision /\ t.managed = b.managed
        /\ t.proposal # NoProposal => Opened(t.proposal, b.work.id)
    BY <1>2, <2>1, CaptureRest DEF Solved
  <2>3. Identity(b.work.id)
    BY <1>3, CaptureStored DEF SolveShaped
  <2>4. ASSUME t.proposal # NoProposal
        PROVE  /\ Named(t.proposal)
               /\ t.proposal.basedOn \in Ids(t, {"solve"})
               /\ t.proposal.basedOn \notin Ids(b, {"solve"})
    <3>1. Named(t.proposal) /\ t.proposal.basedOn = b.work.id
      BY <2>2, <2>3, <2>4, OpenedNamed DEF Opened
    <3>2. t.proposal.basedOn \in Ids(t, {"solve"})
      BY <2>4 DEF Valid, ValidProposal, Measured, Ids
    <3>3. Method # "lunar"
      BY <1>2, <2>4, PhaseFacts DEF ValidPhase
    <3>4. b.work.id \notin Ids(b, {"solve"})
      BY <1>2, <2>1, <3>3, SolveIsNew DEF Valid, Solved
    <3> QED
      BY <3>1, <3>2, <3>4
  <2> QED
    BY <1>1, <1>2, <1>3, <2>2, <2>4 DEF Awaits
<1>4. ASSUME Counts(b, t), t.phase # "awaitingApproval",
             f.step = "frame" => t.phase = "completed"
      PROVE  /\ t.revision > b.revision /\ t.managed = b.managed
             /\ t.proposal = NoProposal
             /\ f.step = "frame" => t.phase = "completed"
  BY <1>2, <1>4 DEF Counts, ValidPhase
<1>5. CASE f.step = "correct"
  <2>1. t = AfterCorrection(b, outcomes[b.work.id].result)
        /\ b.work.id \in DOMAIN outcomes
    BY <1>5 DEF Stored
  <2>2. Counts(b, t)
    BY <1>2, <2>1, OtherRest
  <2>3. t.phase \in {"paused", "verifying"}
    BY <1>5, <2>1, CorrectionStored
  <2> QED
    BY <1>1, <1>2, <1>4, <1>5, <2>2, <2>3
<1>6. CASE f.step = "frame"
  <2>1. PICK frame, quality : t = AfterFrame(b, frame, quality)
    BY <1>6 DEF Stored
  <2>2. Counts(b, t)
    BY <1>2, <2>1, OtherRest
  <2>3. t.phase = "completed"
    BY <1>6, <2>1, FrameStored
  <2> QED
    BY <1>1, <1>2, <1>4, <1>6, <2>2, <2>3
<1>7. CASE f.step = "measure"
  <2>1. PICK result : t = AfterMeasure(b, result)
    BY <1>7 DEF Stored
  <2>2. Counts(b, t)
    BY <1>2, <2>1, OtherRest
  <2>3. t.phase = "polarGuidance"
    BY <1>7, <2>1, MeasureStored
  <2> QED
    BY <1>1, <1>2, <1>4, <1>7, <2>2, <2>3
<1> QED
  BY <1>3, <1>5, <1>6, <1>7 DEF Stored

LEMMA StoreSettles ==
    ASSUME One, Solid, Ordered, Settled(session, flight),
           NEW s \in Slots, NEW t, Stored(s, t), Valid(t),
           Put(s, Idle), session' = t
    PROVE  Follows
<1> DEFINE b == flight[s].base
<1>1. /\ flight[s] # Idle /\ SessionFits(t) /\ t.revision > b.revision
      /\ t.managed = b.managed
      /\ t.proposal # NoProposal =>
           /\ Awaits(flight[s]) /\ flight[s].step = "capture"
           /\ Named(t.proposal)
           /\ t.proposal.basedOn \in Ids(t, {"solve"})
           /\ t.proposal.basedOn \notin Ids(b, {"solve"})
      /\ flight[s].step = "frame" => t.phase = "completed"
  BY StoredRest
<1>2. b.revision \in Nat /\ t.revision \in Nat
  BY <1>1, FlightRevision DEF SessionFits, Shaped
<1>3. \A r \in Slots : flight'[r] = Idle
  BY DEF Put, One
<1>4. Extends(t.evidence, session.evidence)
  BY StoredKeeps
<1>5. Ids(session, {"solve"}) \subseteq Ids(t, {"solve"})
  BY <1>4, ExtendsFacts
<1>6. t.proposal # NoProposal =>
        t.proposal.basedOn \notin Ids(session, {"solve"})
  <2>1. flight[s].step = "capture" => b.evidence = session.evidence
    BY DEF Ordered, Orderly, RequestFits
  <2> QED
    BY <1>1, <2>1, SameEvidence
<1>7. Unmanned(t, flight')
  <2> SUFFICES ASSUME Method # "polar"
               PROVE  t.managed = NoCapture \/ t.phase = "completed"
    BY <1>3 DEF Unmanned, Awaits, Idle
  <2>1. flight[s].step = "measure" => Method = "polar"
    BY <1>1 DEF Solid, FlightFits
  <2>2. Awaits(flight[s]) \/ flight[s].step = "frame"
    BY <2>1 DEF Stored, Awaits
  <2>3. Awaits(flight[s]) => b.managed = NoCapture
    BY DEF Settled, Unmanned
  <2> QED
    BY <1>1, <2>2, <2>3
<1>8. Settled(t, flight')
  BY <1>1, <1>3, <1>7 DEF Settled, Proposed, Timely
<1>9. ASSUME NEW v, Worded(v), Past(v, session, flight)
      PROVE  Past(v, t, flight')
  <2>1. v.phase \in Dated => v.revision <= b.revision
    BY <1>1, <1>9 DEF Past
  <2>2. v.phase \in Dated =>
          /\ v.revision < t.revision
          /\ \A r \in Slots : flight'[r] # Idle =>
                                 v.revision <= flight'[r].base.revision
    BY <1>1, <1>2, <1>3, <1>9, <2>1 DEF Worded
  <2> QED
    BY <1>2, <1>5, <1>6, <1>9, <2>2, PastNewer
<1> QED
  BY <1>8, <1>9 DEF Follows

LEMMA SessionFollows ==
    ASSUME One, Solid, Ordered, Settled(session, flight), [Next]_vars
    PROVE  Follows
<1>1. CASE UNCHANGED <<session, flight>>
  BY <1>1 DEF Follows
<1>2. CASE SessionCommands
  BY <1>2, CommandSettles DEF Follows
<1>3. CASE Around \/ UNCHANGED vars
  BY <1>1, <1>3 DEF Around, vars
<1>4. ASSUME NEW s \in Slots, NEW c, RequestCommands(s, c)
      PROVE  Follows
  BY <1>4, LeaveFacts, LeaveSettles
<1>5. ASSUME NEW s \in Slots, ProviderCaptures(s) \/ ProviderCorrects(s)
      PROVE  UNCHANGED <<session, flight>>
  BY <1>5 DEF ProviderCaptures, ProviderCorrects, Works
<1>6. ASSUME NEW s \in Slots, Lands(s)
      PROVE  Follows
  <2>1. CASE \E t : Stored(s, t) /\ Store(s, t)
    <3>1. PICK t : Stored(s, t) /\ Store(s, t)
      BY <2>1
    <3>2. /\ Put(s, Idle)
          /\ \/ session' = t /\ Valid(t)
             \/ session' = session
      BY <3>1, StoredFits, StoreSolid
    <3> QED
      BY <3>1, <3>2, StoreSettles, EndSettles
  <2>2. CASE /\ \E x : Corrects(s, x)
             /\ UNCHANGED <<session, outcomes, moves, run>>
    BY <2>2, CorrectsSettles
  <2> QED
    BY <1>6, <2>1, <2>2, ReturnsFacts
<1>7. ASSUME NEW s \in Slots, Put(s, Idle), UNCHANGED session
      PROVE  Follows
  BY <1>7, EndSettles
<1> QED
  BY <1>1, <1>2, <1>3, <1>4, <1>5, <1>6, <1>7, StepCases

-----------------------------------------------------------------------------
(* The copies of the page.                                                 *)
ViewFields ==
    {"revision", "phase", "run", "offers", "proposal", "holds", "lease"}

\* The actions of the target a phase offers.
OfferedIn(phase) ==
    CASE Method = "polar" -> {}
      [] phase \in {"solving", "verifying"} -> {"capture"}
      [] phase = "awaitingApproval" -> {"approve"}
      [] phase = "paused" ->
           (IF Method = "deepSky" THEN {"retry"} ELSE {})
             \cup IF DenyOuter THEN {}
                  ELSE IF Method = "deepSky" THEN {"skip", "abort"}
                                             ELSE {"abort"}
      [] OTHER -> {}

Glimpse(v) ==
    /\ v = [x \in ViewFields |-> v[x]]
    /\ Worded(v)
    /\ v.lease \in Nat /\ v.holds \in BOOLEAN
    /\ v.proposal # NoProposal <=> v.phase = "awaitingApproval"
    /\ v.offers = IF v.holds THEN OfferedIn(v.phase) ELSE {}

Holding(v, l, h) ==
    v.holds => v.lease <= l /\ (v.lease = l => h = Page)

Held(v, s, fl, l, h) == Glimpse(v) /\ Past(v, s, fl) /\ Holding(v, l, h)

\* A command names what the page showed.
SentFits(p, s, fl, l, h) ==
    /\ Held(p.saw, s, fl, l, h)
    /\ p.saw.holds
    /\ p.action = "stop" \/ p.action \in p.saw.offers
    /\ p.fresh => /\ p.revision = p.saw.revision /\ p.run = p.saw.run
                  /\ p.lease = p.saw.lease
    /\ p.action = "approve" => p.proposal.id = p.saw.proposal.id

PageFits(s, fl, l, h, held, drawn, p) ==
    /\ l \in Nat
    /\ Held(held, s, fl, l, h) /\ Held(drawn, s, fl, l, h)
    /\ p.at = "sent" => SentFits(p, s, fl, l, h)

PageNow == PageFits(session, flight, lease, holder, snap, shown, pending)

LEMMA OffersByPhase ==
    ASSUME SessionFits(session)
    PROVE  Offers \cap TargetActions = OfferedIn(session.phase)
<1>1. session.phase \in Phases /\ session.method = Method
  BY MethodFacts DEF SessionFits
<1>2. CASE Method = "polar"
  BY <1>1, <1>2 DEF Phases, Offers, PolarOffers, TargetActions, OfferedIn
<1>3. CASE Method # "polar"
  <2>1. session.phase \in {"solving", "verifying", "awaitingApproval",
                            "paused", "skipped", "aborted", "completed"}
    BY <1>1, <1>3 DEF Phases
  <2>2. Method = "deepSky" \/ Method = "lunar"
    BY <1>3, ConstantsAssumption
  <2>3. CASE session.phase \in {"solving", "verifying"}
    BY <1>1, <1>3, <2>3 DEF Offers, TargetOffers, TargetActions, OfferedIn
  <2>4. CASE session.phase = "awaitingApproval"
    BY <1>1, <1>3, <2>4 DEF Offers, TargetOffers, TargetActions, OfferedIn
  <2>5. CASE session.phase = "paused"
    <3>1. TargetOffers = OfferedIn(session.phase)
      BY <1>1, <1>3, <2>2, <2>5 DEF TargetOffers, OfferedIn
    <3>2. OfferedIn(session.phase) \subseteq TargetActions
      BY <1>1, <1>3, <2>5 DEF OfferedIn, TargetActions
    <3> QED
      BY <1>1, <1>3, <3>1, <3>2 DEF Offers
  <2>6. CASE session.phase \in {"skipped", "aborted"}
    BY <1>1, <1>3, <2>6 DEF Offers, TargetOffers, TargetActions, OfferedIn
  <2>7. CASE session.phase = "completed"
    BY <1>1, <1>3, <2>7 DEF Offers, TargetOffers, TargetActions, OfferedIn
  <2> QED
    BY <2>1, <2>3, <2>4, <2>5, <2>6, <2>7
<1> QED
  BY <1>2, <1>3

LEMMA ViewHeld ==
    ASSUME Solid, Settled(session, flight), lease \in Nat
    PROVE  Held(View, session, flight, lease, holder)
<1>1. /\ SessionFits(session) /\ ValidPhase(session)
      /\ session.revision \in Nat
  BY DEF Solid, SessionFits, Shaped
<1> DEFINE v == View
<1>2. /\ v = [x \in ViewFields |-> v[x]]
      /\ v.revision = session.revision /\ v.phase = session.phase
      /\ v.proposal = session.proposal /\ v.holds = (holder = Page)
      /\ v.lease = lease
      /\ v.offers = IF v.holds THEN OfferedIn(session.phase) ELSE {}
  BY <1>1, OffersByPhase DEF View, ViewFields
<1> HIDE DEF v
<1>3. Glimpse(v)
  BY <1>1, <1>2 DEF Glimpse, Worded, ValidPhase, Settled, Proposed
<1>4. Past(v, session, flight)
  BY <1>1, <1>2 DEF Past, Superseded, Settled, Proposed, Timely
<1>5. Holding(v, lease, holder)
  <2>1. v.holds => holder = Page
    BY <1>2
  <2>2. v.lease <= lease
    BY <1>2
  <2> QED
    BY <2>1, <2>2 DEF Holding
<1> QED
  BY <1>3, <1>4, <1>5 DEF Held, v

LEMMA UnknownHeld ==
    ASSUME NEW s, NEW fl, NEW l \in Nat, NEW h
    PROVE  Held(Unknown, s, fl, l, h)
<1> DEFINE v == Unknown
<1>1. /\ v = [x \in ViewFields |-> v[x]]
      /\ v.revision = 0 /\ v.phase = "unavailable"
      /\ v.proposal = NoProposal /\ v.holds = FALSE /\ v.lease = 0
      /\ v.offers = {}
  BY DEF Unknown, ViewFields
<1> HIDE DEF v
<1>2. Worded(v)
  BY <1>1 DEF Worded
<1>3. Glimpse(v)
  <2>1. v.revision \in Nat /\ v.lease \in Nat
    BY <1>1
  <2>4. v.holds \in BOOLEAN
    BY <1>1, Zenon
  <2>2. v.proposal # NoProposal <=> v.phase = "awaitingApproval"
    BY <1>1
  <2>3. v.offers = IF v.holds THEN OfferedIn(v.phase) ELSE {}
    <3>1. ~v.holds
      BY <1>1
    <3> QED
      BY <1>1, <3>1
  <2> QED
    BY <1>1, <1>2, <2>1, <2>2, <2>3, <2>4 DEF Glimpse
<1>4. Past(v, s, fl)
  BY <1>1 DEF Past, Dated
<1>5. Holding(v, l, h)
  BY <1>1 DEF Holding
<1> QED
  BY <1>3, <1>4, <1>5 DEF Held, v

LEMMA HeldOn ==
    ASSUME Follows, NEW l \in Nat, NEW v,
           Held(v, session, flight, lease, holder),
           \/ l = lease /\ holder' = holder
           \/ lease \in Nat /\ l > lease
    PROVE  Held(v, session', flight', l, holder')
<1>1. Glimpse(v) /\ Past(v, session', flight')
  BY DEF Held, Glimpse, Follows
<1>2. Holding(v, l, holder')
  BY DEF Held, Glimpse, Holding
<1> QED
  BY <1>1, <1>2 DEF Held

\* What the page does to its copies and its command, the session at rest.
PageMoves ==
    /\ UNCHANGED <<vars, lease>>
    /\ snap' \in {snap, View, Unknown} /\ shown' \in {shown, snap}
    /\ \/ pending' = pending \/ pending'.at # "sent"
       \/ \E action : Press(action)

\* What the origin does to the session, the page at rest.
OriginMoves ==
    /\ [Next]_vars
    /\ UNCHANGED copies
    /\ pending' = pending \/ pending'.at # "sent"
    /\ \/ lease' = lease /\ holder' = holder
       \/ lease' = lease + 1

LEMMA CommandsHold ==
    ASSUME Commands
    PROVE  holder' = holder
<1>1. \A t : Commit(t) => holder' = holder
  BY DEF Commit
<1>2. \A s, c, step, b : Leave(s, c, step, b) => holder' = holder
  BY DEF Leave
<1>3. SessionCommands => holder' = holder
  BY <1>1 DEF SessionCommands, RetryPlateSolveWithParameters,
     SkipAcquireTarget, AbortAcquire, RevisePointingCorrection,
     AcceptPolarAlignmentEvidence, StartManagedCapture,
     PauseManagedCapture, StopManagedCapture, RecenterManagedCapture
<1>4. \A s, c : RequestCommands(s, c) => holder' = holder
  BY <1>2 DEF RequestCommands, CaptureTargetAcquisitionEvidence,
     ApprovePointingCorrection, RecordLiveFrameEvidence,
     CapturePolarAlignmentMeasurement
<1>5. DenyOuterTransition => holder' = holder
  BY DEF DenyOuterTransition
<1> QED
  BY <1>3, <1>4, <1>5 DEF Commands, SessionCommands, RequestCommands

LEMMA ProgressHolds ==
    ASSUME NEW s, Progress(s) \/ RequestEnds(s)
    PROVE  holder' = holder
<1>1. \A id, result, moved : Works(id, result, moved) => holder' = holder
  BY DEF Works
<1>2. \A t : Store(s, t) => holder' = holder
  BY DEF Store
<1>3. ProviderCaptures(s) \/ ProviderCorrects(s) => holder' = holder
  BY <1>1 DEF ProviderCaptures, ProviderCorrects
<1>4. Lands(s) => holder' = holder
  BY <1>2 DEF Lands, CaptureReturns, CorrectionReturns, FrameReturns,
     MeasureReturns
<1> QED
  BY <1>3, <1>4 DEF Progress, Lands, RequestEnds

LEMMA ExecutesNext ==
    ASSUME Solid, Permitted, Executes
    PROVE  Next /\ holder' = holder
<1>1. CASE /\ pending.action = "retry"
           /\ Commit(Recovering(session, "longer"))
  <2>1. OpensRecovery(session, "longer")
    BY <1>1 DEF Permitted
  <2>2. Method # "polar"
    BY <2>1, PhaseFacts DEF OpensRecovery, Solid
  <2>3. RetryPlateSolveWithParameters
    BY <1>1, <2>1, <2>2, MethodFacts
    DEF RetryPlateSolveWithParameters, SolveParameters
  <2> QED
    BY <2>3, CommandsHold DEF Next, Commands
<1>2. CASE StopRun
  BY <1>2 DEF StopRun, Next
<1>3. CASE SkipAcquireTarget \/ AbortAcquire
  BY <1>3, CommandsHold DEF Commands, Next
<1>4. ASSUME NEW s \in Slots,
             \/ CaptureTargetAcquisitionEvidence(s, Page)
             \/ ApprovePointingCorrection(s, Page)
      PROVE  Next /\ holder' = holder
  BY <1>4, CommandsHold, PageAssumption DEF Commands, Next
<1> QED
  BY <1>1, <1>2, <1>3, <1>4 DEF Executes

LEMMA ObserveCases ==
    ASSUME Solid, [ObserveNext]_observeVars
    PROVE  PageMoves \/ OriginMoves
<1>1. CASE Deliver \/ Breaks
  BY <1>1 DEF Deliver, Breaks, PageMoves
<1>2. CASE Render
  BY <1>2 DEF Render, PageMoves, AtRest
<1>3. CASE Turn
  BY <1>3 DEF Turn, copies, PageMoves, AtRest
<1>4. CASE Returns \/ Loses
  BY <1>4 DEF Returns, Loses, PageMoves, AtRest
<1>5. CASE \E action \in Actions : Press(action)
  <2>1. UNCHANGED <<vars, lease, copies>>
    BY <1>5 DEF Press
  <2> QED
    BY <1>5, <2>1 DEF PageMoves, copies
<1>6. CASE Reaches
  <2>1. UNCHANGED <<lease, copies>> /\ pending'.at # "sent"
    BY <1>6 DEF Reaches, Taken
  <2>2. (Permitted /\ Executes) \/ UNCHANGED vars
    BY <1>6 DEF Reaches
  <2>3. [Next]_vars /\ holder' = holder
    BY <2>2, ExecutesNext DEF vars
  <2> QED
    BY <2>1, <2>3 DEF OriginMoves
<1>7. CASE Elsewhere
  <2>1. UNCHANGED <<lease, copies, pending>>
    BY <1>7 DEF Elsewhere, pageVars
  <2>2. Next
    BY <1>7 DEF Elsewhere, Next
  <2>3. holder' = holder
    BY <1>7, CommandsHold, ProgressHolds
    DEF Elsewhere, StopRun, ContinueCompletedAcquire
  <2> QED
    BY <2>1, <2>2, <2>3 DEF OriginMoves
<1>8. CASE PassControl
  BY <1>8 DEF PassControl, Next, OriginMoves
<1>9. CASE UNCHANGED observeVars
  BY <1>9 DEF observeVars, pageVars, copies, PageMoves, vars
<1> QED
  BY <1>1, <1>2, <1>3, <1>4, <1>5, <1>6, <1>7, <1>8, <1>9 DEF ObserveNext

LEMMA PressFits ==
    ASSUME PageNow, NEW action, Press(action)
    PROVE  SentFits(pending', session, flight, lease, holder)
<1>1. pending' = Sent(action) /\ action \in Buttons /\ Submits(action)
  BY DEF Press
<1>2. shown.holds /\ (action = "stop" \/ action \in shown.offers)
  BY <1>1 DEF Buttons, TargetDecision, RunActions
<1>3. Held(shown, session, flight, lease, holder)
  BY DEF PageNow, PageFits
<1> DEFINE p == Sent(action)
<1>4. /\ p.saw = shown /\ p.action = action /\ p.fresh = (shown = snap)
      /\ p.revision = snap.revision /\ p.run = snap.run
      /\ p.lease = snap.lease /\ p.proposal = snap.proposal
  BY DEF Sent
<1>5. action = "approve" => snap.proposal.id = shown.proposal.id
  BY <1>1 DEF Submits
<1> HIDE DEF p
<1>6. p.fresh => shown = snap
  BY <1>4
<1>7. SentFits(p, session, flight, lease, holder)
  BY <1>2, <1>3, <1>4, <1>5, <1>6 DEF SentFits
<1> QED
  BY <1>1, <1>7 DEF p

LEMMA PageStep ==
    ASSUME Solid, Settled(session, flight), PageNow, PageMoves
    PROVE  PageNow'
<1>1. UNCHANGED <<session, flight, lease, holder>>
  BY DEF PageMoves, vars
<1>2. lease \in Nat
  BY DEF PageNow, PageFits
<1>3. /\ Held(View, session, flight, lease, holder)
      /\ Held(Unknown, session, flight, lease, holder)
      /\ Held(snap, session, flight, lease, holder)
      /\ Held(shown, session, flight, lease, holder)
  BY <1>2, ViewHeld, UnknownHeld DEF PageNow, PageFits
<1>4. /\ Held(snap', session, flight, lease, holder)
      /\ Held(shown', session, flight, lease, holder)
  BY <1>3 DEF PageMoves
<1>5. pending'.at = "sent" =>
        SentFits(pending', session, flight, lease, holder)
  BY PressFits DEF PageMoves, PageNow, PageFits
<1> QED
  BY <1>1, <1>2, <1>4, <1>5 DEF PageNow, PageFits

LEMMA OriginStep ==
    ASSUME Follows, PageNow, OriginMoves
    PROVE  PageNow'
<1>1. lease \in Nat /\ lease' \in Nat
  BY DEF PageNow, PageFits, OriginMoves
<1>2. (lease' = lease /\ holder' = holder) \/ lease' > lease
  BY <1>1 DEF OriginMoves
<1>3. \A v : Held(v, session, flight, lease, holder) =>
             Held(v, session', flight', lease', holder')
  BY <1>1, <1>2, HeldOn
<1>4. snap' = snap /\ shown' = shown
  BY DEF OriginMoves, copies
<1>5. pending'.at = "sent" => pending' = pending
  BY DEF OriginMoves
<1>6. SentFits(pending, session, flight, lease, holder) =>
        SentFits(pending, session', flight', lease', holder')
  BY <1>3 DEF SentFits
<1>7. /\ Held(snap', session', flight', lease', holder')
      /\ Held(shown', session', flight', lease', holder')
  BY <1>3, <1>4 DEF PageNow, PageFits
<1>8. pending'.at = "sent" =>
        SentFits(pending', session', flight', lease', holder')
  BY <1>5, <1>6 DEF PageNow, PageFits
<1> QED
  BY <1>1, <1>7, <1>8 DEF PageNow, PageFits

\* Whatever is in flight the session is solid; with one request at a time the
\* page holds nothing the session may come back to.
PageInv ==
    Inv /\ (One => Settled(session, flight) /\ PageNow)

LEMMA PageInit ==
    ASSUME ObserveInit
    PROVE  PageInv
<1>1. Init /\ Inv /\ Solid
  BY InvInductive DEF ObserveInit, Inv
<1>2. \A r \in Slots : flight[r] = Idle
  BY <1>1 DEF Init
<1>3. session.proposal = NoProposal /\ session.managed = NoCapture
  BY <1>1 DEF Init, PolarSession, TargetAcquisitionSession
<1>4. Settled(session, flight)
  BY <1>2, <1>3 DEF Settled, Proposed, Timely, Unmanned, Awaits, Idle
<1>5. lease \in Nat /\ snap = View /\ shown = View /\ pending.at = "none"
  BY DEF ObserveInit, AtRest
<1>6. PageNow
  BY <1>1, <1>4, <1>5, ViewHeld DEF PageNow, PageFits
<1> QED
  BY <1>1, <1>4, <1>6 DEF PageInv

LEMMA PageInductive ==
    ASSUME PageInv, [ObserveNext]_observeVars
    PROVE  PageInv'
<1>1. Solid /\ (PageMoves \/ OriginMoves)
  BY ObserveCases DEF PageInv, Inv
<1>2. [Next]_vars
  BY <1>1 DEF PageMoves, OriginMoves, vars
<1>3. Inv'
  BY <1>2, InvInductive DEF PageInv
<1>4. ASSUME One
      PROVE  Settled(session, flight)' /\ PageNow'
  <2>1. Ordered /\ Settled(session, flight) /\ PageNow
    BY <1>4 DEF PageInv, Inv, Ordered
  <2>2. Follows
    BY <1>1, <1>2, <1>4, <2>1, SessionFollows
  <2>3. PageNow'
    BY <1>1, <2>1, <2>2, PageStep, OriginStep
  <2> QED
    BY <2>2, <2>3 DEF Follows
<1> QED
  BY <1>3, <1>4 DEF PageInv, One

LEMMA TakenAsShown ==
    ASSUME Solid, Settled(session, flight), PageNow,
           pending.at = "sent", Expected, Permitted
    PROVE  /\ pending.action = "approve" =>
                session.proposal = pending.saw.proposal
           /\ pending.fresh =>
                IF pending.action = "stop"
                THEN /\ pending.saw.run = run /\ pending.saw.lease = lease
                     /\ holder = Page
                ELSE pending.saw = View
<1> DEFINE v == pending.saw
           w == View
<1>1. /\ SessionFits(session) /\ ValidPhase(session)
      /\ session.revision \in Nat
  BY DEF Solid, SessionFits, Shaped
<1>2. SentFits(pending, session, flight, lease, holder) /\ lease \in Nat
  BY DEF PageNow, PageFits
<1>3. /\ Glimpse(v) /\ Past(v, session, flight)
      /\ v.holds /\ (v.lease = lease => holder = Page)
      /\ pending.action = "stop" \/ pending.action \in OfferedIn(v.phase)
  BY <1>2 DEF SentFits, Held, Holding, Glimpse
<1>4. pending.fresh =>
        /\ v.run = run /\ v.lease = lease /\ holder = Page
        /\ pending.action # "stop" => v.revision = session.revision
  BY <1>2, <1>3 DEF SentFits, Expected
<1>5. ASSUME pending.action = "approve"
      PROVE  session.proposal = v.proposal /\ session.phase = v.phase
  <2>1. v.phase = "awaitingApproval"
    BY <1>3, <1>5 DEF OfferedIn
  <2>2. v.proposal # NoProposal /\ Named(v.proposal)
    BY <1>3, <2>1 DEF Glimpse, Worded
  <2>3. /\ session.proposal # NoProposal
        /\ session.proposal.id = v.proposal.id
    BY <1>2, <1>5 DEF Permitted, Approvable, SentFits
  <2>4. Named(session.proposal)
    BY <2>3 DEF Settled, Proposed
  <2>5. /\ v.proposal.basedOn = session.proposal.basedOn
        /\ Len(v.proposal.id.path) \in Nat
    BY <2>2, <2>3, <2>4, NamesDiffer
  <2>6. session.proposal = v.proposal
    BY <1>3, <2>2, <2>3, <2>5 DEF Past, Superseded
  <2> QED
    BY <1>1, <2>1, <2>3, <2>6 DEF ValidPhase
<1>6. ASSUME pending.fresh, pending.action # "stop"
      PROVE  v = w
  <2>1. v.phase = session.phase /\ v.proposal = session.proposal
    <3>1. CASE pending.action = "approve"
      BY <1>5, <3>1
    <3>2. CASE pending.action # "approve"
      <4>1. v.phase \in Dated
        BY <1>3, <1>6, <3>2 DEF OfferedIn, Dated
      <4>2. v.phase = session.phase
        BY <1>3, <1>4, <1>6, <4>1 DEF Past
      <4>3. v.proposal = NoProposal
        BY <1>3, <4>1 DEF Glimpse, Dated
      <4>4. session.proposal = NoProposal
        BY <1>1, <4>1, <4>2 DEF ValidPhase, Dated
      <4> QED
        BY <4>2, <4>3, <4>4
    <3> QED
      BY <3>1, <3>2
  <2>2. /\ w = [x \in ViewFields |-> w[x]]
        /\ w.revision = session.revision /\ w.phase = session.phase
        /\ w.run = run /\ w.proposal = session.proposal
        /\ w.lease = lease /\ w.holds = (holder = Page)
    BY DEF View, ViewFields
  <2>3. w.offers = OfferedIn(session.phase)
    BY <1>1, <1>4, <1>6, OffersByPhase DEF View
  <2> HIDE DEF w
  <2>4. v.offers = w.offers
    BY <1>3, <2>1, <2>3 DEF Glimpse
  <2>5. v.holds = w.holds
    <3>1. v.holds = TRUE
      BY <1>3, Zenon DEF Glimpse
    <3>2. w.holds = TRUE
      BY <1>4, <1>6, <2>2, Zenon
    <3> QED
      BY <3>1, <3>2
  <2>6. v = [x \in ViewFields |-> v[x]]
    BY <1>3 DEF Glimpse
  <2>7. \A x \in ViewFields : v[x] = w[x]
    <3>1. /\ v.revision = w.revision /\ v.phase = w.phase
          /\ v.run = w.run /\ v.lease = w.lease
          /\ v.proposal = w.proposal
      BY <1>4, <1>6, <2>1, <2>2
    <3> QED
      BY <2>4, <2>5, <3>1 DEF ViewFields
  <2> QED
    BY <2>2, <2>6, <2>7
<1> QED
  BY <1>4, <1>5, <1>6

(* When the origin serves one request of a session at a time, what it      *)
(* takes of the Observe page is what the person saw: an approval moves the *)
(* mount by the correction whose button was pressed, and any other command *)
(* of an up-to-date page meets the session, the control and the run it     *)
(* showed (acquireCommandIntent).  No rollback to what a request read      *)
(* brings a revision back that a page was shown with other contents and a  *)
(* button, and no proposal is named like another.                          *)
THEOREM ObserverActsAsShown == ObserveSpec => ObserveIsAsShown
<1>1. ObserveInit => PageInv
  BY PageInit
<1>2. PageInv /\ [ObserveNext]_observeVars => PageInv'
  BY PageInductive
<1>3. PageInv /\ [ObserveNext]_observeVars
        => [Alone => ActsAsShown]_observeVars
  <2> SUFFICES ASSUME PageInv, ObserveNext, Alone, pending.at = "sent",
                      pending'.at = "taken"
               PROVE  ActsAsShown
    BY DEF ActsAsShown
  <2>1. Solid /\ Settled(session, flight) /\ PageNow
    BY AloneIsOne DEF PageInv, Inv
  <2>2. CASE Reaches
    <3>1. Expected /\ Permitted
      BY <2>2 DEF Reaches
    <3> QED
      BY <2>1, <3>1, TakenAsShown DEF ActsAsShown
  <2>3. CASE ~Reaches
    <3>1. pending'.at # "taken"
      BY <2>3 DEF ObserveNext, Deliver, Breaks, Render, Turn, Returns, Loses,
         Elsewhere, PassControl, Press, Sent, AtRest, pageVars
    <3> QED
      BY <3>1
  <2> QED
    BY <2>2, <2>3
<1> QED
  BY <1>1, <1>2, <1>3, PTL DEF ObserveSpec, ObserveIsAsShown

-----------------------------------------------------------------------------
(* A session can record its next answer: its identities are dated by       *)
(* revisions and derived from what it holds, its series list their         *)
(* attempts, and its budgets are not spent beyond what it awaits.          *)

SeriesFields == {"id", "purpose", "parameters", "verifies", "done"}

SeriesShaped(x) ==
    /\ x = [f \in SeriesFields |-> x[f]]
    /\ IsSequence(x.done)

Chained(q) == IsSequence(q) /\ \A i \in DOMAIN q : SeriesShaped(q[i])

\* What an identity was made of.
Stem(id) ==
    [id EXCEPT !.path = [i \in 1 .. Len(id.path) - 1 |-> id.path[i]]]

AttemptKinds == {"slew", "solve", "lunar", "accepted", "rejected", "polar"}

Made(id, n) == Identity(id) /\ id.root \in 0 .. n /\ Len(id.path) >= 1

Rooted(s) ==
    /\ \A id \in Ids(s, AttemptKinds) : Made(id, s.revision)
    /\ \A i \in DOMAIN s.series : Made(s.series[i].id, s.revision)

SolveDerived(id, s) ==
    /\ Last(id.path) = "retry" => Stem(id) \in Ids(s, {"solve"})
    /\ Last(id.path) = "verification-1" => Stem(id) \in Ids(s, {"accepted"})

CorrectionDerived(id, s) ==
    Len(id.path) > 1 => Stem(id) \in Ids(s, {"solve"})

Derived(s) ==
    /\ \A id \in Ids(s, {"solve"}) : SolveDerived(id, s)
    /\ \A id \in Ids(s, Corrections) : CorrectionDerived(id, s)
    /\ \A i \in DOMAIN s.series :
         Last(s.series[i].id.path) = "verification" =>
           Stem(s.series[i].id) \in Ids(s, {"accepted"})

Distinct(s) ==
    \A i, j \in DOMAIN s.evidence :
      (i # j /\ s.evidence[i].id = s.evidence[j].id) =>
        /\ s.evidence[i].kind # s.evidence[j].kind
        /\ {s.evidence[i].kind, s.evidence[j].kind} # Corrections

Numbered(q) == \A i, j \in DOMAIN q : q[i].id = q[j].id => i = j

Indexed(s) == \A i \in DOMAIN s.series : Indexes(s.series[i], s)

Referred(s) ==
    /\ \A e \in Of(s, {"solve"}) :
         \E i \in DOMAIN s.series : s.series[i].id = e.series
    /\ \A e \in Of(s, Corrections) : e.basedOn \in Ids(s, {"solve"})
    /\ \A i \in DOMAIN s.series :
         s.series[i].verifies \in Ids(s, {"accepted"}) \cup {NoAttempt}

AcceptedCount(s) == Cardinality(Places(s, {"accepted"}))
RecoveryCount(q) ==
    Cardinality({i \in DOMAIN q : q[i].purpose = "operatorRecovery"})

Spent(s) ==
    /\ \A i \in DOMAIN s.series : Len(s.series[i].done) <= MaxAttempts
    /\ RecoveryCount(s.series) <= MaxRecoveries
    /\ AcceptedCount(s) <= MaxCorrections
    /\ Len(s.series) <= 1 + RecoveryCount(s.series) + AcceptedCount(s)
    /\ Method = "lunar" => Len(s.series) = 1

\* What a session holds.
Ground(s) ==
    /\ Shaped(s) /\ Chained(s.series) /\ Rooted(s) /\ Derived(s)
    /\ Distinct(s) /\ Numbered(s.series) /\ Indexed(s)
    /\ Referred(s) /\ Spent(s)

\* What it awaits.
WorkFits(s) ==
    /\ s.work.kind # "none" => Made(s.work.id, s.revision)
    /\ s.work.kind = "solve" =>
         /\ SolveShaped(s.work) /\ SolveDerived(s.work.id, s)
         /\ s.work.number <= MaxAttempts
    /\ s.work.kind = "correct" =>
         CorrectionShaped(s.work) /\ CorrectionDerived(s.work.id, s)
    /\ s.work.kind = "measure" => s.work.id \notin Ids(s, {"polar"})
    /\ (s.work.kind = "correct" \/ s.proposal # NoProposal) =>
         Method = "deepSky" /\ AcceptedCount(s) < MaxCorrections

Sound(s) ==
    /\ Ground(s) /\ WorkFits(s)
    /\ ValidPhase(s) /\ ValidWork(s) /\ ValidProposal(s) /\ ValidPolar(s)
    /\ Ids(s, {"slew"}) \subseteq Ids(s, ImageKinds)
    /\ (Method = "lunar" /\ s.phase = "paused") => Ids(s, {"lunar"}) # {}

FlightSound(f) ==
    f # Idle =>
      /\ Sound(f.base)
      /\ f.step = "capture" => f.base.work.kind = "solve"
      /\ f.step = "correct" => f.base.work.kind = "correct"
      /\ f.step = "measure" => f.base.work.kind = "measure"
      /\ f.step = "frame" => f.base.work.kind = "none"

SoundNow == Sound(session) /\ \A r \in Slots : FlightSound(flight[r])

-----------------------------------------------------------------------------
(* What one more piece of evidence changes.                                *)

\* A session that holds one more piece of evidence.
Grown(s, t, e) ==
    /\ t.evidence = Append(s.evidence, e)
    /\ t.method = s.method /\ t.policy = s.policy

LEMMA PlacesFinite ==
    ASSUME NEW s, Shaped(s), NEW kinds
    PROVE  /\ IsFiniteSet(Places(s, kinds))
           /\ Cardinality(Places(s, kinds)) \in Nat
<1>1. DOMAIN s.evidence = 1 .. Len(s.evidence) /\ Len(s.evidence) \in Nat
  BY AppendFacts DEF Shaped
<1>2. IsFiniteSet(1 .. Len(s.evidence))
  BY <1>1, FS_Interval
<1>3. Places(s, kinds) \in SUBSET (1 .. Len(s.evidence))
  BY <1>1 DEF Places
<1> QED
  BY <1>2, <1>3, FS_Subset, FS_CardinalityType

LEMMA GrownPlaces ==
    ASSUME NEW s, Shaped(s), NEW t, NEW e, Grown(s, t, e)
    PROVE  LET n == Len(s.evidence) + 1
           IN /\ n \in Nat \ {0} /\ DOMAIN s.evidence = 1 .. n - 1
              /\ DOMAIN t.evidence = 1 .. n
              /\ t.evidence[n] = e
              /\ \A i \in 1 .. n - 1 : t.evidence[i] = s.evidence[i]
              /\ \A kinds : Places(t, kinds) =
                   Places(s, kinds) \cup IF e.kind \in kinds THEN {n} ELSE {}
              /\ \A kinds : Of(t, kinds) =
                   Of(s, kinds) \cup IF e.kind \in kinds THEN {e} ELSE {}
              /\ \A kinds : Ids(t, kinds) =
                   Ids(s, kinds) \cup IF e.kind \in kinds THEN {e.id} ELSE {}
<1> DEFINE q == s.evidence
           r == t.evidence
           n == Len(q) + 1
<1>1. /\ Len(q) \in Nat /\ DOMAIN q = 1 .. Len(q) /\ DOMAIN r = 1 .. n
      /\ \A i \in DOMAIN q : r[i] = q[i]
      /\ r[n] = e
  BY AppendFacts DEF Shaped, Grown
<1>2. ASSUME NEW kinds
      PROVE  Places(t, kinds) =
               Places(s, kinds) \cup IF e.kind \in kinds THEN {n} ELSE {}
  BY <1>1 DEF Places
<1>3. ASSUME NEW kinds
      PROVE  Of(t, kinds) =
               Of(s, kinds) \cup IF e.kind \in kinds THEN {e} ELSE {}
  BY <1>1, <1>2 DEF Of, Places
<1>4. ASSUME NEW kinds
      PROVE  Ids(t, kinds) =
               Ids(s, kinds) \cup IF e.kind \in kinds THEN {e.id} ELSE {}
  BY <1>3 DEF Ids
<1> QED
  BY <1>1, <1>2, <1>3, <1>4

LEMMA GrownCount ==
    ASSUME NEW s, Shaped(s), NEW t, NEW e, Grown(s, t, e), NEW kinds
    PROVE  Cardinality(Places(t, kinds)) =
             Cardinality(Places(s, kinds)) + IF e.kind \in kinds THEN 1 ELSE 0
<1> DEFINE n == Len(s.evidence) + 1
<1>1. /\ n \in Nat /\ DOMAIN s.evidence = 1 .. n - 1
      /\ Places(t, kinds) =
           Places(s, kinds) \cup IF e.kind \in kinds THEN {n} ELSE {}
  BY GrownPlaces
<1>2. n \notin Places(s, kinds)
  BY <1>1 DEF Places
<1>3. IsFiniteSet(Places(s, kinds)) /\ Cardinality(Places(s, kinds)) \in Nat
  BY PlacesFinite
<1> HIDE DEF n
<1>4. Cardinality(Places(s, kinds) \cup {n}) = Cardinality(Places(s, kinds)) + 1
  BY <1>2, <1>3, FS_AddElement
<1>5. CASE e.kind \in kinds
  BY <1>1, <1>4, <1>5
<1>6. CASE e.kind \notin kinds
  <2>1. Places(t, kinds) = Places(s, kinds)
    BY <1>1, <1>6
  <2> QED
    BY <1>3, <1>6, <2>1
<1> QED
  BY <1>5, <1>6

LEMMA GrownDistinct ==
    ASSUME NEW s, Shaped(s), NEW t, NEW e, Grown(s, t, e), Distinct(s),
           e.id \notin Ids(s, {e.kind}),
           e.kind \in Corrections => e.id \notin Ids(s, Corrections)
    PROVE  Distinct(t)
<1> DEFINE n == Len(s.evidence) + 1
<1>1. /\ n \in Nat /\ DOMAIN s.evidence = 1 .. n - 1
      /\ DOMAIN t.evidence = 1 .. n /\ t.evidence[n] = e
      /\ \A i \in 1 .. n - 1 : t.evidence[i] = s.evidence[i]
  BY GrownPlaces
<1> HIDE DEF n
<1>2. ASSUME NEW i \in 1 .. n - 1, s.evidence[i].id = e.id
      PROVE  /\ s.evidence[i].kind # e.kind
             /\ {s.evidence[i].kind, e.kind} # Corrections
  <2>1. s.evidence[i].kind # e.kind
    BY <1>1, <1>2 DEF Ids, Of, Places
  <2>2. e.kind \in Corrections => s.evidence[i].kind \notin Corrections
    BY <1>1, <1>2 DEF Ids, Of, Places
  <2> QED
    BY <2>1, <2>2 DEF Corrections
<1>3. ASSUME NEW i \in 1 .. n, NEW j \in 1 .. n, i # j,
             t.evidence[i].id = t.evidence[j].id
      PROVE  /\ t.evidence[i].kind # t.evidence[j].kind
             /\ {t.evidence[i].kind, t.evidence[j].kind} # Corrections
  <2>1. CASE i = n
    <3>1. j \in 1 .. n - 1 /\ t.evidence[j] = s.evidence[j]
      BY <1>1, <1>3, <2>1
    <3>2. {t.evidence[i].kind, t.evidence[j].kind} =
            {s.evidence[j].kind, e.kind}
      BY <1>1, <2>1, <3>1
    <3> QED
      BY <1>1, <1>2, <1>3, <2>1, <3>1, <3>2
  <2>2. CASE j = n
    <3>1. i \in 1 .. n - 1 /\ t.evidence[i] = s.evidence[i]
      BY <1>1, <1>3, <2>2
    <3> QED
      BY <1>1, <1>2, <1>3, <2>2, <3>1
  <2>3. CASE i # n /\ j # n
    <3>1. i \in 1 .. n - 1 /\ j \in 1 .. n - 1
      BY <1>1, <1>3, <2>3
    <3> QED
      BY <1>1, <1>3, <3>1 DEF Distinct
  <2> QED
    BY <2>1, <2>2, <2>3
<1> QED
  BY <1>1, <1>3 DEF Distinct

-----------------------------------------------------------------------------
(* The attempts a series lists.                                            *)

Counted(x, e, method) ==
    IF method = "lunar" THEN e.kind = "lunar"
                        ELSE e.kind = "solve" /\ e.series = x.id

Listed(x, s) ==
    {i \in DOMAIN s.evidence : Counted(x, s.evidence[i], s.method)}

Upto(S, i) == {j \in S : j <= i}

LEMMA IndexesFacts ==
    ASSUME NEW x, NEW s
    PROVE  Indexes(x, s) <=>
             /\ Len(x.done) = Cardinality(Listed(x, s))
             /\ \A i \in Listed(x, s) :
                  x.done[Cardinality(Upto(Listed(x, s), i))] =
                    s.evidence[i].id
             /\ s.method # "lunar" =>
                  \A i \in Listed(x, s) : s.evidence[i].verifies = x.verifies
<1>1. Listed(x, s) = {i \in DOMAIN s.evidence :
                       IF s.method = "lunar"
                       THEN s.evidence[i].kind = "lunar"
                       ELSE /\ s.evidence[i].kind = "solve"
                            /\ s.evidence[i].series = x.id}
  BY DEF Listed, Counted
<1> QED
  BY <1>1 DEF Indexes, Upto

\* Another record changes nothing for a series that does not list it.
LEMMA IndexesKept ==
    ASSUME NEW s, Shaped(s), NEW t, NEW e, Grown(s, t, e), NEW x,
           Indexes(x, s), ~Counted(x, e, s.method)
    PROVE  Indexes(x, t)
<1> DEFINE n == Len(s.evidence) + 1
<1>1. /\ n \in Nat /\ DOMAIN s.evidence = 1 .. n - 1
      /\ DOMAIN t.evidence = 1 .. n /\ t.evidence[n] = e
      /\ \A i \in 1 .. n - 1 : t.evidence[i] = s.evidence[i]
      /\ t.method = s.method
  BY GrownPlaces DEF Grown
<1> HIDE DEF n
<1>2. Listed(x, t) = Listed(x, s)
  BY <1>1 DEF Listed
<1>3. \A i \in Listed(x, s) : t.evidence[i] = s.evidence[i]
  BY <1>1 DEF Listed
<1> QED
  BY <1>1, <1>2, <1>3, IndexesFacts

\* A series that is told of its attempt lists it last.
LEMMA IndexesGrown ==
    ASSUME NEW s, Shaped(s), NEW t, NEW e, Grown(s, t, e),
           NEW x, SeriesShaped(x), Indexes(x, s), Counted(x, e, s.method),
           s.method # "lunar" => e.verifies = x.verifies
    PROVE  LET y == [x EXCEPT !.done = Append(@, e.id)]
           IN /\ Indexes(y, t) /\ SeriesShaped(y)
              /\ y.id = x.id /\ y.purpose = x.purpose
              /\ y.verifies = x.verifies
              /\ Len(x.done) \in Nat
              /\ Len(y.done) = Len(x.done) + 1
<1> DEFINE n == Len(s.evidence) + 1
           L == Listed(x, s)
           q == Append(x.done, e.id)
           y == [x EXCEPT !.done = q]
<1>1. /\ n \in Nat \ {0} /\ DOMAIN s.evidence = 1 .. n - 1
      /\ DOMAIN t.evidence = 1 .. n /\ t.evidence[n] = e
      /\ \A i \in 1 .. n - 1 : t.evidence[i] = s.evidence[i]
      /\ t.method = s.method
  BY GrownPlaces DEF Grown
<1>2. /\ IsSequence(q) /\ Len(x.done) \in Nat
      /\ DOMAIN x.done = 1 .. Len(x.done)
      /\ DOMAIN q = 1 .. Len(x.done) + 1
      /\ \A i \in DOMAIN x.done : q[i] = x.done[i]
      /\ q[Len(x.done) + 1] = e.id
  BY AppendFacts DEF SeriesShaped
<1>3. Len(q) = Len(x.done) + 1
  <2>1. q \in Seq(Within(q))
    BY <1>2 DEF IsSequence
  <2> QED
    BY <1>2, <2>1
<1>4. /\ y = [f \in SeriesFields |-> y[f]]
      /\ y.done = q /\ y.id = x.id /\ y.verifies = x.verifies
      /\ y.purpose = x.purpose
  BY DEF SeriesShaped, SeriesFields
<1> HIDE DEF n, q, y
<1>5. Listed(y, t) = L \cup {n}
  <2>1. \A i \in 1 .. n : Counted(y, t.evidence[i], t.method) <=>
                           Counted(x, t.evidence[i], s.method)
    BY <1>1, <1>4 DEF Counted
  <2>2. Listed(y, t) = {i \in 1 .. n : Counted(x, t.evidence[i], s.method)}
    BY <1>1, <2>1 DEF Listed
  <2>3. L = {i \in 1 .. n - 1 : Counted(x, t.evidence[i], s.method)}
    BY <1>1 DEF Listed
  <2> HIDE DEF L
  <2> QED
    BY <1>1, <2>2, <2>3
<1> HIDE DEF L
<1>6. L \subseteq 1 .. n - 1 /\ n \notin L
  BY <1>1 DEF L, Listed
<1>7. /\ IsFiniteSet(L) /\ Cardinality(L) \in Nat
      /\ Cardinality(L \cup {n}) = Cardinality(L) + 1
  <2>1. IsFiniteSet(1 .. n - 1)
    BY <1>1, FS_Interval
  <2>2. IsFiniteSet(L)
    BY <1>6, <2>1, FS_Subset
  <2> QED
    BY <1>6, <2>2, FS_CardinalityType, FS_AddElement
<1>8. /\ Len(x.done) = Cardinality(L)
      /\ \A i \in L : x.done[Cardinality(Upto(L, i))] = s.evidence[i].id
      /\ s.method # "lunar" => \A i \in L : s.evidence[i].verifies = x.verifies
  BY IndexesFacts DEF L
<1>9. ASSUME NEW i \in L \cup {n}
      PROVE  y.done[Cardinality(Upto(L \cup {n}, i))] = t.evidence[i].id
  <2>1. CASE i = n
    <3>1. \A j \in L \cup {n} : j <= n
      <4>1. n \in Nat /\ n <= n
        BY <1>1
      <4>2. \A j \in 1 .. n - 1 : j <= n
        BY <4>1
      <4> QED
        BY <1>6, <4>1, <4>2
    <3>2. Upto(L \cup {n}, i) = L \cup {n}
      BY <2>1, <3>1 DEF Upto
    <3> QED
      BY <1>1, <1>2, <1>4, <1>7, <1>8, <2>1, <3>2
  <2>2. CASE i \in L
    <3>1. Upto(L \cup {n}, i) = Upto(L, i) /\ i \in 1 .. n - 1
      BY <1>1, <1>6, <2>2 DEF Upto
    <3>2. Upto(L, i) \in SUBSET L /\ i \in Upto(L, i)
      BY <1>6, <2>2, <3>1 DEF Upto
    <3>3. /\ Cardinality(Upto(L, i)) \in Nat
          /\ Cardinality(Upto(L, i)) <= Cardinality(L)
          /\ Cardinality(Upto(L, i)) # 0
      BY <1>7, <3>2, FS_Subset, FS_CardinalityType, FS_EmptySet
    <3>4. Cardinality(Upto(L, i)) \in DOMAIN x.done
      BY <1>2, <1>7, <1>8, <3>3
    <3> QED
      BY <1>1, <1>2, <1>4, <1>8, <2>2, <3>1, <3>4
  <2> QED
    BY <2>1, <2>2
<1>10. s.method # "lunar" =>
         \A i \in L \cup {n} : t.evidence[i].verifies = y.verifies
  BY <1>1, <1>4, <1>6, <1>8
<1>11. Indexes(y, t)
  BY <1>1, <1>3, <1>4, <1>5, <1>7, <1>8, <1>9, <1>10, IndexesFacts
<1>12. SeriesShaped(y)
  BY <1>2, <1>4 DEF SeriesShaped
<1> QED
  BY <1>2, <1>3, <1>4, <1>11, <1>12 DEF y, q

\* A series for which there is no evidence is empty.
LEMMA IndexesNone ==
    ASSUME NEW s, NEW x, x.done = <<>>,
           \A i \in DOMAIN s.evidence : ~Counted(x, s.evidence[i], s.method)
    PROVE  Indexes(x, s)
<1>1. Listed(x, s) = {}
  BY DEF Listed
<1>2. Len(x.done) = 0 /\ Cardinality(Listed(x, s)) = 0
  BY <1>1, FS_EmptySet
<1> QED
  BY <1>1, <1>2, IndexesFacts

LEMMA IndexesSame ==
    ASSUME NEW s, NEW t, t.evidence = s.evidence, t.method = s.method, NEW x
    PROVE  Indexes(x, t) <=> Indexes(x, s)
BY DEF Indexes

-----------------------------------------------------------------------------
(* What a session holds, after one of its edits.                           *)

LEMMA StemFacts ==
    ASSUME NEW id, Identity(id), NEW part
    PROVE  LET r == Suffixed(id, part)
           IN /\ Stem(r) = id /\ r # id
              /\ Len(r.path) = Len(id.path) + 1 /\ Len(id.path) \in Nat
              /\ \A n : Made(id, n) => Made(r, n)
<1> DEFINE q == id.path
           r == Suffixed(id, part)
           p == [i \in 1 .. Len(r.path) - 1 |-> r.path[i]]
<1>1. /\ Len(q) \in Nat /\ DOMAIN q = 1 .. Len(q)
      /\ Len(r.path) = Len(q) + 1 /\ DOMAIN r.path = 1 .. Len(q) + 1
      /\ \A i \in DOMAIN q : r.path[i] = q[i]
      /\ r.root = id.root /\ Identity(r)
  BY PathFacts
<1>2. q = [i \in DOMAIN q |-> q[i]]
  <2>1. q \in Seq(Within(q))
    BY DEF Identity, IsSequence
  <2> QED
    BY <2>1
<1> HIDE DEF r
<1>3. p = q
  <2>1. Len(r.path) - 1 = Len(q)
    BY <1>1
  <2> QED
    BY <1>1, <1>2, <2>1
<1>4. Stem(r) = [r EXCEPT !.path = p]
  BY DEF Stem
<1> HIDE DEF p
<1>5. Stem(r) = id
  BY <1>1, <1>3, <1>4 DEF Identity, IdFields
<1>6. r # id
  BY <1>1
<1>7. \A n : Made(id, n) => Made(r, n)
  BY <1>1 DEF Made
<1> QED
  BY <1>1, <1>5, <1>6, <1>7 DEF r

LEMMA MintMade ==
    ASSUME NEW s, s.revision \in Nat, NEW part
    PROVE  LET id == Minted(s, part)
           IN /\ Made(id, s.revision + 1) /\ Last(id.path) = part
              /\ Len(id.path) = 1
              /\ \A x : Made(x, s.revision) => x # id
<1> DEFINE id == Minted(s, part)
<1>1. Identity(id) /\ Last(id.path) = part
  BY MintFacts
<1>2. id.root = s.revision + 1 /\ Len(id.path) = 1
  BY DEF Minted
<1> HIDE DEF id
<1>3. \A x : Made(x, s.revision) => x # id
  BY <1>2 DEF Made
<1> QED
  BY <1>1, <1>2, <1>3 DEF Made, id

\* A session that holds the same.
Holds(s, t) ==
    /\ Shaped(t) /\ t.evidence = s.evidence /\ t.series = s.series
    /\ t.revision >= s.revision

LEMMA HoldsSame ==
    ASSUME NEW s, NEW t, t.evidence = s.evidence
    PROVE  /\ \A kinds : Places(t, kinds) = Places(s, kinds)
           /\ \A kinds : Of(t, kinds) = Of(s, kinds)
           /\ \A kinds : Ids(t, kinds) = Ids(s, kinds)
           /\ \A kinds : Newest(t, kinds) = Newest(s, kinds)
           /\ AcceptedCount(t) = AcceptedCount(s)
<1>1. ASSUME NEW kinds
      PROVE  Places(t, kinds) = Places(s, kinds)
  BY DEF Places
<1>2. ASSUME NEW kinds
      PROVE  Of(t, kinds) = Of(s, kinds)
  BY <1>1 DEF Of
<1>3. ASSUME NEW kinds
      PROVE  Ids(t, kinds) = Ids(s, kinds)
  BY <1>2 DEF Ids
<1>4. ASSUME NEW kinds
      PROVE  Newest(t, kinds) = Newest(s, kinds)
  BY <1>1 DEF Newest
<1> QED
  BY <1>1, <1>2, <1>3, <1>4 DEF AcceptedCount

\* The series of a session are a finite sequence.
LEMMA ChainFacts ==
    ASSUME NEW q, Chained(q)
    PROVE  /\ Len(q) \in Nat /\ DOMAIN q = 1 .. Len(q)
           /\ IsFiniteSet(DOMAIN q) /\ Cardinality(DOMAIN q) = Len(q)
           /\ RecoveryCount(q) \in Nat
<1>1. Len(q) \in Nat /\ DOMAIN q = 1 .. Len(q)
  BY AppendFacts DEF Chained
<1>2. IsFiniteSet(DOMAIN q) /\ Cardinality(DOMAIN q) = Len(q)
  <2> DEFINE n == Len(q)
  <2>1. n \in Nat /\ DOMAIN q = 1 .. n
    BY <1>1
  <2> HIDE DEF n
  <2>2. /\ IsFiniteSet(1 .. n)
        /\ Cardinality(1 .. n) = IF 1 > n THEN 0 ELSE n - 1 + 1
    BY <2>1, FS_Interval
  <2>3. Cardinality(1 .. n) = n
    BY <2>1, <2>2
  <2> QED
    BY <2>1, <2>2, <2>3 DEF n
<1>3. {i \in DOMAIN q : q[i].purpose = "operatorRecovery"} \in
        SUBSET (DOMAIN q)
  OBVIOUS
<1>4. RecoveryCount(q) \in Nat
  BY <1>2, <1>3, FS_Subset, FS_CardinalityType DEF RecoveryCount
<1> QED
  BY <1>1, <1>2, <1>4

LEMMA MadeLater ==
    ASSUME NEW m \in Nat, NEW n \in Nat, m <= n, NEW id, Made(id, m)
    PROVE  Made(id, n)
BY DEF Made

LEMMA GroundKept ==
    ASSUME NEW s, Ground(s), NEW t, Holds(s, t)
    PROVE  Ground(t)
<1>1. /\ \A kinds : Of(t, kinds) = Of(s, kinds)
      /\ \A kinds : Ids(t, kinds) = Ids(s, kinds)
      /\ AcceptedCount(t) = AcceptedCount(s)
      /\ t.evidence = s.evidence /\ t.series = s.series
  BY HoldsSame DEF Holds
<1>2. /\ t.method = s.method
      /\ s.revision \in Nat /\ t.revision \in Nat
      /\ s.revision <= t.revision
  BY DEF Holds, Shaped, Ground
<1>3. Rooted(t)
  BY <1>1, <1>2, MadeLater DEF Rooted, Ground
<1>4. Derived(t)
  BY <1>1 DEF Derived, SolveDerived, CorrectionDerived, Ground
<1>5. Distinct(t)
  BY <1>1 DEF Distinct, Ground
<1>6. Indexed(t)
  BY <1>1, <1>2, IndexesSame DEF Indexed, Ground
<1>7. Referred(t)
  BY <1>1 DEF Referred, Ground
<1>8. Spent(t)
  BY <1>1 DEF Spent, Ground
<1> QED
  BY <1>1, <1>3, <1>4, <1>5, <1>6, <1>7, <1>8 DEF Ground, Holds

\* Evidence that is not an image of the series is recorded.
RecordsBeside(s, t, e) ==
    /\ Shaped(t) /\ Grown(s, t, e) /\ t.series = s.series
    /\ t.revision >= s.revision
    /\ e.kind \notin {"solve", "lunar"} /\ Distinct(t)
    /\ e.kind \in AttemptKinds => Made(e.id, t.revision)
    /\ e.kind \in Corrections =>
         CorrectionDerived(e.id, s) /\ e.basedOn \in Ids(s, {"solve"})
    /\ e.kind = "accepted" => AcceptedCount(s) < MaxCorrections

LEMMA GroundRecords ==
    ASSUME NEW s, Ground(s), NEW t, NEW e, RecordsBeside(s, t, e)
    PROVE  /\ Ground(t)
           /\ AcceptedCount(t) =
                AcceptedCount(s) + IF e.kind = "accepted" THEN 1 ELSE 0
<1>1. Shaped(s) /\ Grown(s, t, e) /\ t.series = s.series /\ Shaped(t)
  BY DEF Ground, RecordsBeside
<1>2. /\ \A kinds : Of(t, kinds) =
           Of(s, kinds) \cup IF e.kind \in kinds THEN {e} ELSE {}
      /\ \A kinds : Ids(t, kinds) =
           Ids(s, kinds) \cup IF e.kind \in kinds THEN {e.id} ELSE {}
  BY <1>1, GrownPlaces
<1>3. /\ t.method = s.method
      /\ s.revision \in Nat /\ t.revision \in Nat
      /\ s.revision <= t.revision
      /\ e.kind \notin {"solve", "lunar"}
  BY <1>1 DEF RecordsBeside, Shaped
<1>4. Rooted(t)
  <2>1. ASSUME NEW id \in Ids(t, AttemptKinds)
        PROVE  Made(id, t.revision)
    <3>1. CASE id \in Ids(s, AttemptKinds)
      BY <1>3, <3>1, MadeLater DEF Rooted, Ground
    <3>2. CASE id \notin Ids(s, AttemptKinds)
      BY <1>2, <3>2 DEF RecordsBeside
    <3> QED
      BY <3>1, <3>2
  <2>2. \A i \in DOMAIN t.series : Made(t.series[i].id, t.revision)
    BY <1>1, <1>3, MadeLater DEF Rooted, Ground
  <2> QED
    BY <2>1, <2>2 DEF Rooted
<1>5. /\ Of(t, {"solve"}) = Of(s, {"solve"})
      /\ Ids(t, {"solve"}) = Ids(s, {"solve"})
      /\ Ids(s, {"accepted"}) \subseteq Ids(t, {"accepted"})
  BY <1>2, <1>3
<1>6. Derived(t)
  <2>1. \A id : SolveDerived(id, s) => SolveDerived(id, t)
    BY <1>5 DEF SolveDerived
  <2>2. \A id : CorrectionDerived(id, s) => CorrectionDerived(id, t)
    BY <1>5 DEF CorrectionDerived
  <2>3. \A id \in Ids(t, {"solve"}) : SolveDerived(id, t)
    BY <1>5, <2>1 DEF Derived, Ground
  <2>4. ASSUME NEW id \in Ids(t, Corrections)
        PROVE  CorrectionDerived(id, t)
    <3>1. CASE id \in Ids(s, Corrections)
      BY <2>2, <3>1 DEF Derived, Ground
    <3>2. CASE id \notin Ids(s, Corrections)
      BY <1>2, <2>2, <3>2 DEF RecordsBeside
    <3> QED
      BY <3>1, <3>2
  <2>5. \A i \in DOMAIN t.series :
          Last(t.series[i].id.path) = "verification" =>
            Stem(t.series[i].id) \in Ids(t, {"accepted"})
    BY <1>1, <1>5 DEF Derived, Ground
  <2> QED
    BY <2>3, <2>4, <2>5 DEF Derived
<1>7. Indexed(t)
  <2>1. \A x : ~Counted(x, e, s.method)
    BY <1>3 DEF Counted
  <2> QED
    BY <1>1, <2>1, IndexesKept DEF Indexed, Ground
<1>8. Referred(t)
  <2>1. \A y \in Of(t, {"solve"}) :
          \E i \in DOMAIN t.series : t.series[i].id = y.series
    BY <1>1, <1>5 DEF Referred, Ground
  <2>2. ASSUME NEW y \in Of(t, Corrections)
        PROVE  y.basedOn \in Ids(t, {"solve"})
    <3>1. CASE y \in Of(s, Corrections)
      BY <1>5, <3>1 DEF Referred, Ground
    <3>2. CASE y \notin Of(s, Corrections)
      BY <1>2, <1>5, <3>2 DEF RecordsBeside
    <3> QED
      BY <3>1, <3>2
  <2>3. \A i \in DOMAIN t.series :
          t.series[i].verifies \in Ids(t, {"accepted"}) \cup {NoAttempt}
    BY <1>1, <1>5 DEF Referred, Ground
  <2> QED
    BY <2>1, <2>2, <2>3 DEF Referred
<1>9. /\ AcceptedCount(s) \in Nat
      /\ AcceptedCount(t) =
           AcceptedCount(s) + IF e.kind = "accepted" THEN 1 ELSE 0
  <2>1. AcceptedCount(t) =
          AcceptedCount(s) + IF e.kind \in {"accepted"} THEN 1 ELSE 0
    BY <1>1, GrownCount DEF AcceptedCount
  <2> QED
    BY <1>1, <2>1, PlacesFinite DEF AcceptedCount
<1>10. AcceptedCount(t) <= MaxCorrections
  BY <1>9, ConstantsAssumption DEF RecordsBeside, Ground, Spent
<1>11. Spent(t)
  <2>1. Len(t.series) <= 1 + RecoveryCount(t.series) + AcceptedCount(t)
    <3>1. /\ Len(s.series) \in Nat /\ RecoveryCount(s.series) \in Nat
          /\ Len(s.series) <= 1 + RecoveryCount(s.series) + AcceptedCount(s)
      BY ChainFacts DEF Ground, Spent
    <3>2. AcceptedCount(s) <= AcceptedCount(t) /\ AcceptedCount(t) \in Nat
      BY <1>9
    <3> QED
      BY <1>1, <1>9, <3>1, <3>2
  <2> QED
    BY <1>1, <1>10, <2>1 DEF Spent, Ground
<1> QED
  BY <1>1, <1>4, <1>6, <1>7, <1>8, <1>9, <1>11 DEF Ground, RecordsBeside

LEMMA AppendCount ==
    ASSUME NEW q, Chained(q), NEW x, SeriesShaped(x)
    PROVE  LET r == Append(q, x)
           IN /\ Chained(r) /\ Len(r) = Len(q) + 1
              /\ DOMAIN r = 1 .. Len(q) + 1
              /\ \A i \in DOMAIN q : r[i] = q[i]
              /\ r[Len(q) + 1] = x
              /\ RecoveryCount(r) = RecoveryCount(q) +
                   IF x.purpose = "operatorRecovery" THEN 1 ELSE 0
<1> DEFINE r == Append(q, x)
           R == {i \in DOMAIN q : q[i].purpose = "operatorRecovery"}
           T == {i \in DOMAIN r : r[i].purpose = "operatorRecovery"}
           n == Len(q)
<1>1. /\ n \in Nat /\ DOMAIN q = 1 .. n /\ IsFiniteSet(DOMAIN q)
      /\ Cardinality(R) \in Nat
  BY ChainFacts DEF RecoveryCount
<1>2. /\ IsSequence(r) /\ DOMAIN r = 1 .. n + 1
      /\ \A i \in DOMAIN q : r[i] = q[i]
      /\ r[n + 1] = x
  BY AppendFacts DEF Chained
<1> HIDE DEF r, n
<1>3. Chained(r) /\ Len(r) = n + 1
  <2>1. \A i \in DOMAIN r : SeriesShaped(r[i])
    <3> SUFFICES ASSUME NEW i \in DOMAIN r PROVE SeriesShaped(r[i])
      OBVIOUS
    <3>1. i \in DOMAIN q \/ i = n + 1
      BY <1>1, <1>2
    <3> QED
      BY <1>2, <3>1 DEF Chained
  <2>2. r \in Seq(Within(r))
    BY <1>2 DEF IsSequence
  <2> QED
    BY <1>1, <1>2, <2>1, <2>2 DEF Chained
<1>4. R \subseteq DOMAIN q /\ n + 1 \notin R /\ IsFiniteSet(R)
  <2>1. R \in SUBSET (DOMAIN q) /\ n + 1 \notin DOMAIN q
    BY <1>1
  <2> QED
    BY <1>1, <2>1, FS_Subset
<1>5. Cardinality(R \cup {n + 1}) = Cardinality(R) + 1
  BY <1>4, FS_AddElement
<1>6. T = R \cup IF x.purpose = "operatorRecovery" THEN {n + 1} ELSE {}
  BY <1>1, <1>2
<1> HIDE DEF R, T
<1>7. Cardinality(T) =
        Cardinality(R) + IF x.purpose = "operatorRecovery" THEN 1 ELSE 0
  <2>1. CASE x.purpose = "operatorRecovery"
    BY <1>5, <1>6, <2>1
  <2>2. CASE x.purpose # "operatorRecovery"
    <3>1. T = R
      BY <1>6, <2>2
    <3> QED
      BY <1>1, <2>2, <3>1
  <2> QED
    BY <2>1, <2>2
<1> QED
  BY <1>2, <1>3, <1>7 DEF RecoveryCount, R, T, r, n

\* A series is opened: a recovery within its budget, or the verification of
\* a correction that no series verifies yet.
Opens(s, t, x) ==
    /\ Shaped(t) /\ t.evidence = s.evidence
    /\ t.series = Append(s.series, x)
    /\ t.revision >= s.revision
    /\ SeriesShaped(x) /\ x.done = <<>> /\ Made(x.id, t.revision)
    /\ \A i \in DOMAIN s.series : s.series[i].id # x.id
    /\ Last(x.id.path) = "verification" =>
         Stem(x.id) \in Ids(s, {"accepted"})
    /\ x.verifies \in Ids(s, {"accepted"}) \cup {NoAttempt}
    /\ Method # "lunar"
    /\ IF x.purpose = "operatorRecovery"
       THEN RecoveryCount(s.series) < MaxRecoveries
       ELSE Len(s.series) <= RecoveryCount(s.series) + AcceptedCount(s)

LEMMA GroundOpens ==
    ASSUME NEW s, Ground(s), NEW t, NEW x, Opens(s, t, x)
    PROVE  Ground(t)
<1> DEFINE n == Len(s.series) + 1
<1>1. /\ Len(s.series) \in Nat /\ RecoveryCount(s.series) \in Nat
      /\ n \in Nat \ {0} /\ DOMAIN s.series = 1 .. n - 1
  BY ChainFacts DEF Ground
<1>2. /\ Chained(t.series) /\ Len(t.series) = n
      /\ DOMAIN t.series = 1 .. n
      /\ \A i \in 1 .. n - 1 : t.series[i] = s.series[i]
      /\ t.series[n] = x
      /\ RecoveryCount(t.series) = RecoveryCount(s.series) +
           IF x.purpose = "operatorRecovery" THEN 1 ELSE 0
  BY <1>1, AppendCount DEF Ground, Opens
<1>3. /\ \A kinds : Of(t, kinds) = Of(s, kinds)
      /\ \A kinds : Ids(t, kinds) = Ids(s, kinds)
      /\ AcceptedCount(t) = AcceptedCount(s)
      /\ t.evidence = s.evidence
  BY HoldsSame DEF Opens
<1>4. AcceptedCount(s) \in Nat /\ Shaped(s) /\ Shaped(t)
  BY PlacesFinite DEF AcceptedCount, Ground, Opens
<1>5. /\ t.method = s.method /\ t.method = Method
      /\ s.revision \in Nat /\ t.revision \in Nat
      /\ s.revision <= t.revision
  BY <1>4 DEF Opens, Shaped
<1> HIDE DEF n
<1>6. \A i \in 1 .. n : i = n \/ i \in 1 .. n - 1
  BY <1>1
<1>7. Rooted(t)
  <2>1. \A id \in Ids(t, AttemptKinds) : Made(id, t.revision)
    BY <1>3, <1>5, MadeLater DEF Rooted, Ground
  <2>2. \A i \in 1 .. n - 1 : Made(t.series[i].id, t.revision)
    BY <1>1, <1>2, <1>5, MadeLater DEF Rooted, Ground
  <2> QED
    BY <1>2, <1>6, <2>1, <2>2 DEF Rooted, Opens
<1>8. Derived(t)
  <2>1. \A id \in Ids(t, {"solve"}) : SolveDerived(id, t)
    BY <1>3 DEF Derived, SolveDerived, Ground
  <2>2. \A id \in Ids(t, Corrections) : CorrectionDerived(id, t)
    BY <1>3 DEF Derived, CorrectionDerived, Ground
  <2>3. \A i \in 1 .. n - 1 :
          Last(t.series[i].id.path) = "verification" =>
            Stem(t.series[i].id) \in Ids(t, {"accepted"})
    BY <1>1, <1>2, <1>3 DEF Derived, Ground
  <2>4. Last(x.id.path) = "verification" => Stem(x.id) \in Ids(t, {"accepted"})
    BY <1>3 DEF Opens
  <2> QED
    BY <1>2, <1>6, <2>1, <2>2, <2>3, <2>4 DEF Derived
<1>9. Distinct(t)
  BY <1>3 DEF Distinct, Ground
<1>10. Numbered(t.series)
  <2>1. \A i, j \in 1 .. n - 1 :
          t.series[i].id = t.series[j].id => i = j
    BY <1>1, <1>2 DEF Numbered, Ground
  <2>2. \A i \in 1 .. n - 1 : t.series[i].id # t.series[n].id
    BY <1>1, <1>2 DEF Opens
  <2> QED
    BY <1>2, <1>6, <2>1, <2>2 DEF Numbered
<1>11. Indexed(t)
  <2>1. \A i \in 1 .. n - 1 : Indexes(t.series[i], t)
    BY <1>1, <1>2, <1>3, <1>5, IndexesSame DEF Indexed, Ground
  <2>2. ASSUME NEW i \in DOMAIN t.evidence
        PROVE  ~Counted(x, t.evidence[i], t.method)
    <3>1. t.evidence[i].kind = "solve" => t.evidence[i] \in Of(s, {"solve"})
      BY <1>3 DEF Of, Places
    <3>2. t.evidence[i].kind = "solve" => t.evidence[i].series # x.id
      BY <3>1 DEF Referred, Ground, Opens
    <3> QED
      BY <1>5, <3>2 DEF Counted, Opens
  <2>3. Indexes(x, t)
    BY <2>2, IndexesNone DEF Opens
  <2> QED
    BY <1>2, <1>6, <2>1, <2>3 DEF Indexed
<1>12. Referred(t)
  <2>1. ASSUME NEW e \in Of(t, {"solve"})
        PROVE  \E i \in DOMAIN t.series : t.series[i].id = e.series
    <3>1. PICK i \in DOMAIN s.series : s.series[i].id = e.series
      BY <1>3 DEF Referred, Ground
    <3>2. i \in 1 .. n - 1 /\ i \in DOMAIN t.series
      BY <1>1, <1>2, <3>1
    <3> QED
      BY <1>2, <3>1, <3>2
  <2>2. \A e \in Of(t, Corrections) : e.basedOn \in Ids(t, {"solve"})
    BY <1>3 DEF Referred, Ground
  <2>3. \A i \in 1 .. n - 1 :
          t.series[i].verifies \in Ids(t, {"accepted"}) \cup {NoAttempt}
    BY <1>1, <1>2, <1>3 DEF Referred, Ground
  <2>4. x.verifies \in Ids(t, {"accepted"}) \cup {NoAttempt}
    BY <1>3 DEF Opens
  <2> QED
    BY <1>2, <1>6, <2>1, <2>2, <2>3, <2>4 DEF Referred
<1>13. Spent(t)
  <2>1. \A i \in 1 .. n - 1 : Len(t.series[i].done) <= MaxAttempts
    BY <1>1, <1>2 DEF Spent, Ground
  <2>2. Len(x.done) <= MaxAttempts
    <3>1. Len(x.done) = 0
      BY DEF Opens
    <3> QED
      BY <3>1, ConstantsAssumption
  <2>3. RecoveryCount(t.series) <= MaxRecoveries
    BY <1>1, <1>2, ConstantsAssumption DEF Opens, Spent, Ground
  <2>4. Len(t.series) <= 1 + RecoveryCount(t.series) + AcceptedCount(t)
    <3>1. Len(s.series) <= 1 + RecoveryCount(s.series) + AcceptedCount(s)
      BY DEF Spent, Ground
    <3>2. CASE x.purpose = "operatorRecovery"
      BY <1>1, <1>2, <1>3, <1>4, <3>1, <3>2 DEF n
    <3>3. CASE x.purpose # "operatorRecovery"
      <4>1. Len(s.series) <= RecoveryCount(s.series) + AcceptedCount(s)
        BY <3>3 DEF Opens
      <4> QED
        BY <1>1, <1>2, <1>3, <1>4, <3>3, <4>1 DEF n
    <3> QED
      BY <3>2, <3>3
  <2>5. AcceptedCount(t) <= MaxCorrections /\ Method # "lunar"
    BY <1>3 DEF Spent, Ground, Opens
  <2>6. \A i \in DOMAIN t.series : Len(t.series[i].done) <= MaxAttempts
    BY <1>2, <1>6, <2>1, <2>2
  <2> QED
    BY <2>3, <2>4, <2>5, <2>6 DEF Spent
<1> QED
  BY <1>2, <1>4, <1>7, <1>8, <1>9, <1>10, <1>11, <1>12, <1>13 DEF Ground

\* An image is recorded, and its series told of it.
ImageOf(e, w) ==
    /\ e.id = w.id
    /\ IF Method = "lunar" THEN e.kind = "lunar"
       ELSE e.kind = "solve" /\ e.series = w.series
              /\ e.verifies = w.verifies

Told(q, w) ==
    [i \in DOMAIN q |->
       IF q[i].id = w.series
       THEN [q[i] EXCEPT !.done = Append(@, w.id)]
       ELSE q[i]]

AttemptOf(s, w) ==
    /\ \E i \in DOMAIN s.series :
         /\ s.series[i].id = w.series
         /\ w.number = Len(s.series[i].done) + 1
         /\ w.verifies = s.series[i].verifies
    /\ w.id \notin Ids(s, ImageKinds)

\* The attempt that is recorded was the next of its series.
RecordsImage(s, t, e, w) ==
    /\ Shaped(t) /\ Grown(s, t, e) /\ t.revision >= s.revision
    /\ ImageOf(e, w) /\ AttemptOf(s, w) /\ w.number <= MaxAttempts
    /\ Made(w.id, s.revision) /\ SolveDerived(w.id, s)
    /\ t.series = Told(s.series, w)

ToldOnly(q, r, w) ==
    /\ DOMAIN r = DOMAIN q
    /\ \A i \in DOMAIN q :
         /\ r[i].id = q[i].id /\ r[i].verifies = q[i].verifies
         /\ r[i].purpose = q[i].purpose
         /\ r[i].parameters = q[i].parameters
         /\ q[i].id = w.series =>
              r[i] = [q[i] EXCEPT !.done = Append(@, w.id)]
         /\ q[i].id # w.series => r[i] = q[i]

LEMMA ToldFacts ==
    ASSUME NEW q, Chained(q), NEW w
    PROVE  LET r == Told(q, w)
           IN /\ Chained(r) /\ Len(r) = Len(q)
              /\ RecoveryCount(r) = RecoveryCount(q)
              /\ ToldOnly(q, r, w)
<1> DEFINE r == Told(q, w)
           n == Len(q)
<1>1. n \in Nat /\ DOMAIN q = 1 .. n
  BY ChainFacts
<1>2. /\ DOMAIN r = DOMAIN q
      /\ \A i \in DOMAIN q :
           /\ q[i].id = w.series =>
                r[i] = [q[i] EXCEPT !.done = Append(@, w.id)]
           /\ q[i].id # w.series => r[i] = q[i]
      /\ r = [i \in 1 .. n |-> r[i]]
  BY <1>1 DEF Told
<1> HIDE DEF r, n
<1>3. ASSUME NEW i \in DOMAIN q
      PROVE  /\ SeriesShaped(r[i])
             /\ r[i].id = q[i].id /\ r[i].verifies = q[i].verifies
             /\ r[i].purpose = q[i].purpose
             /\ r[i].parameters = q[i].parameters
  <2>1. SeriesShaped(q[i])
    BY DEF Chained
  <2>2. CASE q[i].id # w.series
    BY <1>2, <2>1, <2>2
  <2>3. CASE q[i].id = w.series
    <3> DEFINE d == Append(q[i].done, w.id)
               y == [q[i] EXCEPT !.done = d]
    <3>1. r[i] = y
      BY <1>2, <2>3
    <3>2. IsSequence(d)
      BY <2>1, AppendFacts DEF SeriesShaped
    <3> HIDE DEF d
    <3>3. /\ y = [f \in SeriesFields |-> y[f]] /\ y.done = d
          /\ y.id = q[i].id /\ y.verifies = q[i].verifies
          /\ y.purpose = q[i].purpose /\ y.parameters = q[i].parameters
      BY <2>1 DEF SeriesShaped, SeriesFields
    <3> HIDE DEF y
    <3> QED
      BY <3>1, <3>2, <3>3 DEF SeriesShaped
  <2> QED
    BY <2>2, <2>3
<1>4. IsSequence(r)
  <2>1. \A i \in 1 .. n : r[i] \in Within(r)
    BY <1>1, <1>2 DEF Within
  <2> QED
    BY <1>1, <1>2, <2>1 DEF IsSequence
<1>5. Chained(r)
  BY <1>2, <1>3, <1>4 DEF Chained
<1>6. Len(r) = n
  <2>1. DOMAIN r = 1 .. Len(r) /\ Len(r) \in Nat
    BY <1>5, ChainFacts
  <2> QED
    BY <1>1, <1>2, <2>1
<1>7. {i \in DOMAIN r : r[i].purpose = "operatorRecovery"} =
        {i \in DOMAIN q : q[i].purpose = "operatorRecovery"}
  BY <1>2, <1>3
<1>8. RecoveryCount(r) = RecoveryCount(q)
  BY <1>7 DEF RecoveryCount
<1> QED
  BY <1>2, <1>3, <1>5, <1>6, <1>8 DEF ToldOnly, r, n

LEMMA GroundCompletes ==
    ASSUME NEW s, Ground(s), NEW t, NEW e, NEW w, RecordsImage(s, t, e, w)
    PROVE  Ground(t)
<1>1. /\ Shaped(s) /\ Shaped(t) /\ Grown(s, t, e) /\ Chained(s.series)
      /\ Numbered(s.series)
  BY DEF RecordsImage, Ground
<1>2. /\ \A kinds : Of(t, kinds) =
           Of(s, kinds) \cup IF e.kind \in kinds THEN {e} ELSE {}
      /\ \A kinds : Ids(t, kinds) =
           Ids(s, kinds) \cup IF e.kind \in kinds THEN {e.id} ELSE {}
  BY <1>1, GrownPlaces
<1>3. /\ t.method = s.method /\ s.method = Method
      /\ s.revision \in Nat /\ t.revision \in Nat
      /\ s.revision <= t.revision
      /\ t.series = Told(s.series, w) /\ e.id = w.id
      /\ e.kind = IF Method = "lunar" THEN "lunar" ELSE "solve"
  BY <1>1 DEF RecordsImage, ImageOf, Shaped
<1>4. /\ Chained(t.series) /\ DOMAIN t.series = DOMAIN s.series
      /\ Len(t.series) = Len(s.series)
      /\ \A i \in DOMAIN s.series :
           /\ t.series[i].id = s.series[i].id
           /\ t.series[i].verifies = s.series[i].verifies
           /\ s.series[i].id = w.series =>
                t.series[i] = [s.series[i] EXCEPT !.done = Append(@, w.id)]
           /\ s.series[i].id # w.series => t.series[i] = s.series[i]
      /\ RecoveryCount(t.series) = RecoveryCount(s.series)
  <2>1. t.series = Told(s.series, w) /\ Chained(s.series)
    BY <1>1, <1>3
  <2>2. /\ Chained(t.series) /\ Len(t.series) = Len(s.series)
        /\ RecoveryCount(t.series) = RecoveryCount(s.series)
        /\ ToldOnly(s.series, t.series, w)
    BY <2>1, ToldFacts
  <2> QED
    BY <2>2 DEF ToldOnly
<1>5. PICK k \in DOMAIN s.series :
        /\ s.series[k].id = w.series
        /\ w.number = Len(s.series[k].done) + 1
        /\ w.verifies = s.series[k].verifies
  BY DEF RecordsImage, AttemptOf
<1>6. e.id \notin Ids(s, {e.kind})
  <2>1. {e.kind} = ImageKinds
    BY <1>3 DEF ImageKinds
  <2> QED
    BY <1>3, <2>1 DEF RecordsImage, AttemptOf
<1>7. Rooted(t)
  <2>1. ASSUME NEW id \in Ids(t, AttemptKinds)
        PROVE  Made(id, t.revision)
    <3>1. CASE id \in Ids(s, AttemptKinds)
      BY <1>3, <3>1, MadeLater DEF Rooted, Ground
    <3>2. CASE id \notin Ids(s, AttemptKinds)
      <4>1. id = w.id
        BY <1>2, <1>3, <3>2
      <4> QED
        BY <1>3, <4>1, MadeLater DEF RecordsImage
    <3> QED
      BY <3>1, <3>2
  <2>2. \A i \in DOMAIN t.series : Made(t.series[i].id, t.revision)
    BY <1>3, <1>4, MadeLater DEF Rooted, Ground
  <2> QED
    BY <2>1, <2>2 DEF Rooted
<1>8. /\ Ids(s, {"solve"}) \subseteq Ids(t, {"solve"})
      /\ Ids(t, {"accepted"}) = Ids(s, {"accepted"})
      /\ Ids(t, Corrections) = Ids(s, Corrections)
      /\ Of(t, Corrections) = Of(s, Corrections)
  BY <1>2, <1>3 DEF Corrections
<1>9. Derived(t)
  <2>1. \A id : SolveDerived(id, s) => SolveDerived(id, t)
    BY <1>8 DEF SolveDerived
  <2>2. \A id : CorrectionDerived(id, s) => CorrectionDerived(id, t)
    BY <1>8 DEF CorrectionDerived
  <2>3. ASSUME NEW id \in Ids(t, {"solve"})
        PROVE  SolveDerived(id, t)
    <3>1. CASE id \in Ids(s, {"solve"})
      BY <2>1, <3>1 DEF Derived, Ground
    <3>2. CASE id \notin Ids(s, {"solve"})
      <4>1. id = w.id
        BY <1>2, <1>3, <3>2
      <4> QED
        BY <2>1, <4>1 DEF RecordsImage
    <3> QED
      BY <3>1, <3>2
  <2>4. \A id \in Ids(t, Corrections) : CorrectionDerived(id, t)
    BY <1>8, <2>2 DEF Derived, Ground
  <2>5. \A i \in DOMAIN t.series :
          Last(t.series[i].id.path) = "verification" =>
            Stem(t.series[i].id) \in Ids(t, {"accepted"})
    BY <1>4, <1>8 DEF Derived, Ground
  <2> QED
    BY <2>3, <2>4, <2>5 DEF Derived
<1>10. Distinct(t)
  <2>1. e.kind \notin Corrections
    BY <1>3 DEF Corrections
  <2> QED
    BY <1>1, <1>6, <2>1, GrownDistinct DEF Ground
<1>11. Numbered(t.series)
  BY <1>1, <1>4 DEF Numbered
<1>12. ASSUME NEW i \in DOMAIN s.series
       PROVE  /\ Indexes(t.series[i], t)
              /\ Len(t.series[i].done) <= MaxAttempts
  <2>1. SeriesShaped(s.series[i]) /\ Indexes(s.series[i], s)
        /\ Len(s.series[i].done) <= MaxAttempts
    BY DEF Ground, Chained, Indexed, Spent
  <2>2. CASE i = k
    <3> DEFINE x == s.series[i]
               y == [x EXCEPT !.done = Append(@, e.id)]
    <3>1. t.series[i] = y
      BY <1>3, <1>4, <1>5, <2>2
    <3>2. s.method # "lunar" => e.verifies = x.verifies
      BY <1>3, <1>5, <2>2 DEF RecordsImage, ImageOf
    <3>3. x.id = w.series
      BY <1>5, <2>2
    <3>4. Counted(x, e, s.method)
      BY <1>3, <3>3 DEF RecordsImage, ImageOf, Counted
    <3>5. SeriesShaped(x) /\ Indexes(x, s)
      BY <2>1
    <3> HIDE DEF x
    <3>6. Indexes(y, t) /\ Len(y.done) = Len(x.done) + 1
      BY <1>1, <3>2, <3>4, <3>5, IndexesGrown
    <3>7. Len(x.done) + 1 <= MaxAttempts
      BY <1>5, <2>2 DEF x, RecordsImage
    <3> QED
      BY <3>1, <3>6, <3>7
  <2>3. CASE i # k
    <3>1. s.series[i].id # w.series
      BY <1>1, <1>5, <2>3 DEF Numbered
    <3>2. t.series[i] = s.series[i]
      BY <1>4, <3>1
    <3>3. Method # "lunar"
      <4>1. Method = "lunar" => DOMAIN s.series = 1 .. 1
        BY <1>1, ChainFacts DEF Ground, Spent
      <4> QED
        BY <1>5, <2>3, <4>1
    <3>4. ~Counted(s.series[i], e, s.method)
      BY <1>3, <3>1, <3>3 DEF RecordsImage, ImageOf, Counted
    <3> QED
      BY <1>1, <2>1, <3>2, <3>4, IndexesKept
  <2> QED
    BY <2>2, <2>3
<1>13. Referred(t)
  <2>1. ASSUME NEW y \in Of(t, {"solve"})
        PROVE  \E i \in DOMAIN t.series : t.series[i].id = y.series
    <3>1. CASE y \in Of(s, {"solve"})
      BY <1>4, <3>1 DEF Referred, Ground
    <3>2. CASE y \notin Of(s, {"solve"})
      <4>1. y = e /\ e.kind = "solve"
        BY <1>2, <3>2
      <4>2. e.series = w.series
        BY <1>3, <4>1 DEF RecordsImage, ImageOf
      <4> QED
        BY <1>4, <1>5, <4>1, <4>2
    <3> QED
      BY <3>1, <3>2
  <2>2. \A y \in Of(t, Corrections) : y.basedOn \in Ids(t, {"solve"})
    BY <1>8 DEF Referred, Ground
  <2>3. \A i \in DOMAIN t.series :
          t.series[i].verifies \in Ids(t, {"accepted"}) \cup {NoAttempt}
    BY <1>4, <1>8 DEF Referred, Ground
  <2> QED
    BY <2>1, <2>2, <2>3 DEF Referred
<1>14. AcceptedCount(t) = AcceptedCount(s)
  <2>1. e.kind \notin {"accepted"}
    BY <1>3
  <2>2. AcceptedCount(t) =
          AcceptedCount(s) + IF e.kind \in {"accepted"} THEN 1 ELSE 0
    BY <1>1, GrownCount DEF AcceptedCount
  <2>3. AcceptedCount(s) \in Nat
    BY <1>1, PlacesFinite DEF AcceptedCount
  <2> QED
    BY <2>1, <2>2, <2>3
<1>15. Spent(t)
  BY <1>4, <1>12, <1>14 DEF Spent, Ground
<1>16. Indexed(t)
  BY <1>4, <1>12 DEF Indexed
<1> QED
  BY <1>1, <1>4, <1>7, <1>9, <1>10, <1>11, <1>13, <1>15, <1>16 DEF Ground

-----------------------------------------------------------------------------
(* A sound session passes its own schema.                                  *)

LEMMA NumberedCount ==
    ASSUME NEW q, Chained(q), Numbered(q)
    PROVE  Cardinality({q[i].id : i \in DOMAIN q}) = Len(q)
<1> DEFINE D == DOMAIN q
           T == {q[i].id : i \in D}
           f == [i \in D |-> q[i].id]
<1>1. IsFiniteSet(D) /\ Cardinality(D) = Len(q)
  BY ChainFacts
<1>2. f \in Surjection(D, T)
  BY DEF Surjection
<1>3. f \in Injection(D, T)
  BY DEF Injection, IsInjective, Numbered
<1> HIDE DEF D, T, f
<1>4. Cardinality(T) = Cardinality(D)
  BY <1>1, <1>2, <1>3, FS_Surjection
<1> QED
  BY <1>1, <1>4 DEF T, D

LEMMA SoundValid ==
    ASSUME NEW s, Sound(s)
    PROVE  Valid(s)
<1>1. Ground(s) /\ Shaped(s)
  BY DEF Sound, Ground
<1>2. /\ ValidPhase(s) /\ ValidWork(s) /\ ValidProposal(s) /\ ValidPolar(s)
  BY DEF Sound
<1>3. ValidIdentities(s)
  <2>1. Cardinality({s.series[i].id : i \in DOMAIN s.series}) =
          Len(s.series)
    BY <1>1, NumberedCount DEF Ground
  <2> QED
    BY <1>1, <2>1 DEF ValidIdentities, Distinct, Ground
<1>4. ValidSeries(s)
  <2>1. /\ s.policy.recoveries = MaxRecoveries
        /\ s.policy.corrections = MaxCorrections
    BY <1>1 DEF Shaped, Policy, PolicyOf
  <2>2. Cardinality(Recoveries(s)) <= s.policy.recoveries
    BY <1>1, <2>1 DEF Ground, Spent, RecoveryCount, Recoveries
  <2>3. Cardinality(Places(s, {"accepted"})) <= s.policy.corrections
    BY <1>1, <2>1 DEF Ground, Spent, AcceptedCount
  <2>4. Indexed(s) /\ Referred(s)
    BY <1>1 DEF Ground
  <2> QED
    BY <2>2, <2>3, <2>4 DEF ValidSeries, Indexed, Referred
<1> QED
  BY <1>2, <1>3, <1>4 DEF Valid

-----------------------------------------------------------------------------
(* Every field of a session, after its edits.                              *)

LEMMA AdvanceAll ==
    ASSUME NEW s, Shaped(s), NEW phase, NEW work, NEW proposal
    PROVE  LET t == Advance(s, phase, work, proposal)
           IN /\ Holds(s, t) /\ t.revision = s.revision + 1
              /\ t.phase = phase /\ t.work = work /\ t.proposal = proposal
              /\ t.latest = s.latest /\ t.approved = s.approved
<1> DEFINE t == Advance(s, phase, work, proposal)
<1>1. /\ Shaped(t) /\ t.phase = phase /\ t.work = work
      /\ t.evidence = s.evidence /\ t.series = s.series
      /\ t.latest = s.latest
  BY AdvanceFacts
<1>2. t.revision = s.revision + 1 /\ t.proposal = proposal
  BY AdvanceRest
<1>3. t.approved = s.approved
  BY DEF Advance, Shaped, Fields
<1>4. s.revision \in Nat
  BY DEF Shaped
<1> HIDE DEF t
<1> QED
  BY <1>1, <1>2, <1>3, <1>4 DEF Holds, t

\* What an edit of the evidence or the series leaves alone.
Beside(s, t) ==
    /\ Shaped(t) /\ t.phase = s.phase /\ t.work = s.work
    /\ t.proposal = s.proposal
    /\ t.latest = s.latest /\ t.approved = s.approved

LEMMA RecordAll ==
    ASSUME NEW s, Shaped(s), NEW e
    PROVE  LET t == Recorded(s, e)
           IN /\ Beside(s, t) /\ Grown(s, t, e)
              /\ t.series = s.series /\ t.revision = s.revision
<1> DEFINE t == Recorded(s, e)
<1>1. /\ Shaped(t) /\ t.evidence = Append(s.evidence, e)
      /\ t.phase = s.phase /\ t.work = s.work /\ t.series = s.series
      /\ t.revision = s.revision
  BY RecordFacts
<1>2. /\ t.proposal = s.proposal /\ t.latest = s.latest
      /\ t.approved = s.approved
      /\ t.method = s.method /\ t.policy = s.policy
  BY DEF Recorded, Shaped, Fields
<1> HIDE DEF t
<1> QED
  BY <1>1, <1>2 DEF Beside, Grown, t

LEMMA SeriesAll ==
    ASSUME NEW s, Shaped(s), NEW x
    PROVE  LET t == [s EXCEPT !.series = x]
           IN /\ Beside(s, t) /\ t.evidence = s.evidence
              /\ t.series = x /\ t.revision = s.revision
              /\ t.method = s.method /\ t.policy = s.policy
<1> DEFINE t == [s EXCEPT !.series = x]
<1>1. Shaped(t)
  BY FieldFacts
<1>2. /\ t.evidence = s.evidence /\ t.series = x
      /\ t.phase = s.phase /\ t.work = s.work
      /\ t.revision = s.revision /\ t.proposal = s.proposal
      /\ t.latest = s.latest /\ t.approved = s.approved
      /\ t.method = s.method /\ t.policy = s.policy
  BY DEF Shaped, Fields
<1> HIDE DEF t
<1> QED
  BY <1>1, <1>2 DEF Beside, t

LEMMA CompletesAll ==
    ASSUME NEW s, Shaped(s), NEW e
    PROVE  LET t == Completes(s, e)
           IN /\ Beside(s, t) /\ Grown(s, t, e)
              /\ t.series = Told(s.series, s.work)
              /\ t.revision = s.revision
<1> DEFINE r == Recorded(s, e)
           x == Told(s.series, s.work)
           t == [r EXCEPT !.series = x]
<1>1. /\ Beside(s, r) /\ Grown(s, r, e) /\ r.revision = s.revision
  BY RecordAll
<1>2. Completes(s, e) = t
  BY DEF Completes, Told
<1> HIDE DEF r, x
<1>3. /\ Beside(r, t) /\ t.evidence = r.evidence /\ t.series = x
      /\ t.revision = r.revision
      /\ t.method = r.method /\ t.policy = r.policy
  BY <1>1, SeriesAll DEF Beside
<1> HIDE DEF t
<1> QED
  BY <1>1, <1>2, <1>3 DEF Beside, Grown, x

LEMMA SlewAll ==
    ASSUME NEW s, Shaped(s)
    PROVE  LET t == SlewAcknowledged(s)
               e == [kind |-> "slew", id |-> s.work.id]
           IN /\ Beside(s, t) /\ t.series = s.series
              /\ \/ t = s
                 \/ Grown(s, t, e) /\ t.revision = s.revision + 1
<1> DEFINE e == [kind |-> "slew", id |-> s.work.id]
           r == Recorded(s, e)
           t == [r EXCEPT !.revision = @ + 1]
<1>1. SlewAcknowledged(s) = IF s.work.purpose = "initial" THEN t ELSE s
  BY DEF SlewAcknowledged
<1>2. /\ Beside(s, r) /\ Grown(s, r, e)
      /\ r.series = s.series /\ r.revision = s.revision
  BY RecordAll
<1> HIDE DEF r
<1>3. Shaped(r)
  BY <1>2 DEF Beside
<1>4. Shaped(t)
  BY <1>3, FieldFacts
<1>5. /\ t.evidence = r.evidence /\ t.series = r.series
      /\ t.phase = r.phase /\ t.work = r.work
      /\ t.revision = r.revision + 1 /\ t.proposal = r.proposal
      /\ t.latest = r.latest /\ t.approved = r.approved
      /\ t.method = r.method /\ t.policy = r.policy
  BY <1>3 DEF Shaped, Fields
<1> HIDE DEF t, e
<1>6. /\ Beside(s, t) /\ t.series = s.series /\ Grown(s, t, e)
      /\ t.revision = s.revision + 1
  BY <1>2, <1>4, <1>5 DEF Beside, Grown
<1>7. Beside(s, s)
  BY DEF Beside
<1> QED
  BY <1>1, <1>6, <1>7 DEF e

-----------------------------------------------------------------------------
(* What a sound session awaits, after each transition.                     *)

LEMMA PolarKept ==
    ASSUME NEW s, NEW t, ValidPolar(s), t.method = s.method,
           t.latest = s.latest, t.approved = s.approved,
           Newest(t, {"polar"}) = Newest(s, {"polar"}),
           s.approved = NoAttempt \/ t.phase = s.phase
    PROVE  ValidPolar(t)
BY DEF ValidPolar

LEMMA NotApproved ==
    ASSUME NEW s, ValidPolar(s), s.phase # "completed" \/ s.method # "polar"
    PROVE  s.approved = NoAttempt
BY DEF ValidPolar

LEMMA RevisionNamed ==
    ASSUME NEW p, p.revision # 0
    PROVE  p # NoProposal
BY DEF NoProposal

\* What a session still owes its evidence.
Owes(t) ==
    /\ Ids(t, {"slew"}) \subseteq Ids(t, ImageKinds)
    /\ (Method = "lunar" /\ t.phase = "paused") => Ids(t, {"lunar"}) # {}

\* A session that awaits nothing.
LEMMA SoundAtRest ==
    ASSUME NEW t, Ground(t), t.work = NoWork, t.proposal = NoProposal,
           t.phase \in {"paused", "skipped", "aborted", "completed",
                        "polarGuidance"},
           (t.method = "polar") <=> (t.series = <<>>),
           ValidPolar(t), Owes(t)
    PROVE  Sound(t)
<1>1. t.work.kind = "none"
  BY DEF NoWork
<1>2. ValidPhase(t)
  BY <1>1 DEF ValidPhase
<1>3. ValidWork(t)
  BY <1>1 DEF ValidWork
<1>4. ValidProposal(t)
  BY DEF ValidProposal
<1>5. WorkFits(t)
  BY <1>1 DEF WorkFits
<1> QED
  BY <1>2, <1>3, <1>4, <1>5 DEF Sound, Owes

\* A session that awaits an attempt at an image.
LEMMA SoundSolving ==
    ASSUME NEW t, Ground(t), t.proposal = NoProposal,
           t.phase \in {"solving", "verifying"}, t.work.kind = "solve",
           (t.method = "polar") <=> (t.series = <<>>),
           ValidPolar(t), Owes(t),
           AttemptOf(t, t.work), t.work.number <= MaxAttempts,
           Made(t.work.id, t.revision), SolveShaped(t.work),
           SolveDerived(t.work.id, t)
    PROVE  Sound(t)
<1>1. ValidPhase(t)
  BY DEF ValidPhase
<1>2. ValidWork(t)
  <2>1. t.method = Method
    BY DEF Ground, Shaped
  <2>2. ImageKinds = IF t.method = "lunar" THEN {"lunar"} ELSE {"solve"}
    BY <2>1 DEF ImageKinds
  <2>3. \E i \in DOMAIN t.series :
          /\ t.series[i].id = t.work.series
          /\ t.work.number = Len(t.series[i].done) + 1
          /\ t.work.verifies = t.series[i].verifies
    BY DEF AttemptOf
  <2> QED
    BY <2>2, <2>3 DEF ValidWork, AttemptOf
<1>3. ValidProposal(t)
  BY DEF ValidProposal
<1>4. WorkFits(t)
  BY DEF WorkFits
<1> QED
  BY <1>1, <1>2, <1>3, <1>4 DEF Sound, Owes

LEMMA WorkIsAttempt ==
    ASSUME NEW s, Sound(s), s.work.kind = "solve"
    PROVE  AttemptOf(s, s.work)
<1>1. s.method = Method /\ ValidWork(s)
  BY DEF Sound, Ground, Shaped
<1>2. ImageKinds = IF s.method = "lunar" THEN {"lunar"} ELSE {"solve"}
  BY <1>1 DEF ImageKinds
<1> QED
  BY <1>1, <1>2 DEF ValidWork, AttemptOf

\* A session that awaits the mount.
LEMMA SoundCorrecting ==
    ASSUME NEW t, Ground(t), t.proposal = NoProposal,
           t.phase = "correcting", t.work.kind = "correct",
           (t.method = "polar") <=> (t.series = <<>>),
           ValidPolar(t), Owes(t), Method = "deepSky",
           AcceptedCount(t) < MaxCorrections,
           Measured(t, t.work), t.work.id \notin Ids(t, Corrections),
           Made(t.work.id, t.revision), CorrectionShaped(t.work),
           CorrectionDerived(t.work.id, t)
    PROVE  Sound(t)
<1>1. ValidPhase(t)
  BY DEF ValidPhase
<1>2. ValidWork(t)
  BY DEF ValidWork
<1>3. ValidProposal(t)
  BY DEF ValidProposal
<1>4. WorkFits(t)
  BY DEF WorkFits
<1> QED
  BY <1>1, <1>2, <1>3, <1>4 DEF Sound, Owes

\* A session that awaits an approval.
LEMMA SoundProposing ==
    ASSUME NEW t, Ground(t), t.proposal # NoProposal,
           t.phase = "awaitingApproval", t.work = NoWork,
           (t.method = "polar") <=> (t.series = <<>>),
           ValidPolar(t), Owes(t), Method = "deepSky",
           AcceptedCount(t) < MaxCorrections,
           t.proposal.revision = t.revision, Measured(t, t.proposal)
    PROVE  Sound(t)
<1>1. t.work.kind = "none"
  BY DEF NoWork
<1>2. ValidPhase(t)
  BY <1>1 DEF ValidPhase
<1>3. ValidWork(t)
  BY <1>1 DEF ValidWork
<1>4. ValidProposal(t)
  BY DEF ValidProposal
<1>5. WorkFits(t)
  BY <1>1 DEF WorkFits
<1> QED
  BY <1>2, <1>3, <1>4, <1>5 DEF Sound, Owes

LEMMA SoundPhase ==
    ASSUME NEW s, Sound(s)
    PROVE  /\ Ground(s) /\ Shaped(s) /\ s.method = Method
           /\ s.revision \in Nat
           /\ (s.method = "polar") <=> (s.series = <<>>)
           /\ (s.phase = "awaitingApproval") <=> (s.proposal # NoProposal)
           /\ s.work.kind = "solve" <=> s.phase \in {"solving", "verifying"}
           /\ s.work.kind = "correct" <=> s.phase = "correcting"
           /\ s.work.kind = "measure" <=> s.phase = "polarMeasuring"
           /\ s.phase # "completed" => s.approved = NoAttempt
           /\ Method # "polar" => s.approved = NoAttempt
<1>1. ValidPhase(s) /\ ValidPolar(s)
  BY DEF Sound
<1>2. /\ Ground(s) /\ Shaped(s) /\ s.method = Method /\ s.revision \in Nat
  BY DEF Sound, Ground, Shaped
<1>3. /\ (s.method = "polar") <=> (s.series = <<>>)
      /\ (s.phase = "awaitingApproval") <=> (s.proposal # NoProposal)
  BY <1>1 DEF ValidPhase
<1>4. /\ s.work.kind = "solve" <=> s.phase \in {"solving", "verifying"}
      /\ s.work.kind = "correct" <=> s.phase = "correcting"
      /\ s.work.kind = "measure" <=> s.phase = "polarMeasuring"
  BY <1>1 DEF ValidPhase
<1>5. /\ s.phase # "completed" => s.approved = NoAttempt
      /\ Method # "polar" => s.approved = NoAttempt
  BY <1>1, <1>2, NotApproved
<1> QED
  BY <1>2, <1>3, <1>4, <1>5

LEMMA ApprovedSound ==
    ASSUME NEW s, Sound(s), s.phase = "awaitingApproval"
    PROVE  Sound(Approved(s)) /\ Approved(s).work.kind = "correct"
<1> DEFINE w == [kind |-> "correct", id |-> Minted(s, "correction"),
                 basedOn |-> s.proposal.basedOn, basis |-> s.proposal.basis,
                 vector |-> s.proposal.vector]
           t == Advance(s, "correcting", w, NoProposal)
<1>1. Approved(s) = t
  BY DEF Approved
<1>2. /\ w.kind = "correct" /\ w.id = Minted(s, "correction")
      /\ w.basedOn = s.proposal.basedOn /\ w.basis = s.proposal.basis
      /\ w.vector = s.proposal.vector
  OBVIOUS
<1> HIDE DEF w
<1>3. /\ Ground(s) /\ Shaped(s) /\ s.method = Method
      /\ s.revision \in Nat /\ s.proposal # NoProposal
      /\ (s.method = "polar") <=> (s.series = <<>>)
      /\ s.approved = NoAttempt
  BY SoundPhase
<1>4. /\ Holds(s, t) /\ t.revision = s.revision + 1
      /\ t.phase = "correcting" /\ t.work = w /\ t.proposal = NoProposal
      /\ t.latest = s.latest /\ t.approved = s.approved
  BY <1>3, AdvanceAll
<1> HIDE DEF t
<1>5. Ground(t) /\ t.method = s.method
  BY <1>3, <1>4, GroundKept DEF Holds, Shaped
<1>6. /\ \A kinds : Of(t, kinds) = Of(s, kinds)
      /\ \A kinds : Ids(t, kinds) = Ids(s, kinds)
      /\ \A kinds : Newest(t, kinds) = Newest(s, kinds)
      /\ AcceptedCount(t) = AcceptedCount(s)
  BY <1>4, HoldsSame DEF Holds
<1>7. ValidPolar(t)
  BY <1>3, <1>4, <1>5, <1>6, PolarKept DEF Sound
<1>8. Owes(t)
  BY <1>4, <1>6 DEF Owes, Sound
<1>9. /\ Made(w.id, t.revision) /\ Last(w.id.path) = "correction"
      /\ Len(w.id.path) = 1
      /\ \A x : Made(x, s.revision) => x # w.id
  BY <1>2, <1>3, <1>4, MintMade
<1>10. w.id \notin Ids(t, Corrections)
  <2>1. Ids(s, Corrections) \subseteq Ids(s, AttemptKinds)
    BY DEF Ids, Of, Places, Corrections, AttemptKinds
  <2>2. \A x \in Ids(s, AttemptKinds) : Made(x, s.revision)
    BY <1>3 DEF Ground, Rooted
  <2> QED
    BY <1>6, <1>9, <2>1, <2>2
<1>11. Method = "deepSky" /\ AcceptedCount(t) < MaxCorrections
  BY <1>3, <1>6 DEF Sound, WorkFits
<1>12. Measured(t, w)
  <2>1. Measured(s, s.proposal)
    BY <1>3 DEF Sound, ValidProposal
  <2> QED
    BY <1>2, <1>6, <2>1 DEF Measured
<1>13. CorrectionShaped(w) /\ CorrectionDerived(w.id, t)
  <2>1. Identity(w.id) /\ w.kind = "correct"
    BY <1>2, <1>9 DEF Made
  <2>2. CorrectionShaped(w)
    BY <1>9, <2>1 DEF CorrectionShaped
  <2>3. ~(Len(w.id.path) > 1)
    BY <1>9
  <2> QED
    BY <2>2, <2>3 DEF CorrectionDerived
<1>14. Sound(t)
  BY <1>2, <1>3, <1>4, <1>5, <1>7, <1>8, <1>9, <1>10, <1>11, <1>12, <1>13,
     SoundCorrecting DEF Holds
<1> QED
  BY <1>1, <1>2, <1>4, <1>14

LEMMA ScheduledSound ==
    ASSUME NEW s, Sound(s), s.phase = "polarGuidance"
    PROVE  Sound(Scheduled(s)) /\ Scheduled(s).work.kind = "measure"
<1> DEFINE w == [kind |-> "measure", id |-> Minted(s, "polar")]
           t == Advance(s, "polarMeasuring", w, NoProposal)
<1>1. Scheduled(s) = t /\ w.kind = "measure" /\ w.id = Minted(s, "polar")
  BY DEF Scheduled
<1> HIDE DEF w
<1>3. /\ Ground(s) /\ Shaped(s) /\ s.method = Method
      /\ s.revision \in Nat /\ s.approved = NoAttempt
      /\ (s.method = "polar") <=> (s.series = <<>>)
  BY SoundPhase
<1>4. /\ Holds(s, t) /\ t.revision = s.revision + 1
      /\ t.phase = "polarMeasuring" /\ t.work = w
      /\ t.proposal = NoProposal
      /\ t.latest = s.latest /\ t.approved = s.approved
  BY <1>3, AdvanceAll
<1>2. Scheduled(s) = t
  BY <1>1
<1> HIDE DEF t
<1>5. Ground(t) /\ t.method = s.method
  BY <1>3, <1>4, GroundKept DEF Holds, Shaped
<1>6. /\ \A kinds : Ids(t, kinds) = Ids(s, kinds)
      /\ \A kinds : Newest(t, kinds) = Newest(s, kinds)
  BY <1>4, HoldsSame DEF Holds
<1>7. ValidPolar(t)
  BY <1>3, <1>4, <1>5, <1>6, PolarKept DEF Sound
<1>8. Owes(t)
  BY <1>4, <1>6 DEF Owes, Sound
<1>9. /\ Made(w.id, t.revision)
      /\ \A x : Made(x, s.revision) => x # w.id
  BY <1>1, <1>3, <1>4, MintMade
<1>10. w.id \notin Ids(t, {"polar"})
  <2>1. Ids(s, {"polar"}) \subseteq Ids(s, AttemptKinds)
    BY DEF Ids, Of, Places, AttemptKinds
  <2>2. \A x \in Ids(s, AttemptKinds) : Made(x, s.revision)
    BY <1>3 DEF Ground, Rooted
  <2> QED
    BY <1>6, <1>9, <2>1, <2>2
<1>11. ValidPhase(t)
  BY <1>1, <1>3, <1>4, <1>5 DEF ValidPhase, Holds
<1>12. ValidWork(t)
  BY <1>1, <1>4 DEF ValidWork
<1>13. ValidProposal(t)
  BY <1>4 DEF ValidProposal
<1>14. WorkFits(t)
  BY <1>1, <1>4, <1>9, <1>10 DEF WorkFits
<1>15. Sound(t)
  BY <1>5, <1>7, <1>8, <1>11, <1>12, <1>13, <1>14 DEF Sound, Owes
<1> QED
  BY <1>1, <1>2, <1>4, <1>15

LEMMA NewSeries ==
    ASSUME NEW id, NEW purpose, NEW parameters, NEW verifies
    PROVE  LET x == Series(id, purpose, parameters, verifies)
           IN /\ SeriesShaped(x) /\ x.done = <<>> /\ Len(x.done) = 0
              /\ x.id = id /\ x.purpose = purpose /\ x.verifies = verifies
              /\ x.parameters = parameters
<1> DEFINE x == Series(id, purpose, parameters, verifies)
<1>1. /\ x = [f \in SeriesFields |-> x[f]] /\ x.done = <<>>
      /\ x.id = id /\ x.purpose = purpose /\ x.verifies = verifies
      /\ x.parameters = parameters
  BY DEF Series, SeriesFields
<1> HIDE DEF x
<1>2. IsSequence(<<>>) /\ Len(<<>>) = 0
  BY DEF IsSequence, Within
<1> QED
  BY <1>1, <1>2 DEF SeriesShaped, x

LEMMA NewAttempt ==
    ASSUME NEW id, Identity(id), Last(id.path) # "correction",
           NEW series, NEW purpose, NEW verifies
    PROVE  LET w == SolveWork(id, series, purpose, verifies)
           IN /\ SolveShaped(w) /\ w.kind = "solve" /\ w.id = id
              /\ w.series = series /\ w.number = 1 /\ w.verifies = verifies
<1> DEFINE w == SolveWork(id, series, purpose, verifies)
<1>1. /\ w = [f \in SolveFields |-> w[f]] /\ w.kind = "solve" /\ w.id = id
      /\ w.series = series /\ w.number = 1 /\ w.verifies = verifies
  BY DEF SolveWork, SolveFields
<1> HIDE DEF w
<1> QED
  BY <1>1 DEF SolveShaped, w

\* The first attempt of the series that was opened last.
LEMMA FirstAttempt ==
    ASSUME NEW s, Ground(s), NEW t, NEW x, t.series = Append(s.series, x),
           SeriesShaped(x), x.done = <<>>, NEW w, w.series = x.id,
           w.number = 1, w.verifies = x.verifies,
           w.id \notin Ids(t, ImageKinds)
    PROVE  /\ AttemptOf(t, w) /\ t.series # <<>> /\ w.number <= MaxAttempts
<1> DEFINE n == Len(s.series) + 1
<1>1. n \in Nat \ {0} /\ DOMAIN t.series = 1 .. n /\ t.series[n] = x
      /\ Len(t.series) = n
  BY ChainFacts, AppendCount DEF Ground
<1> HIDE DEF n
<1>2. Len(x.done) = 0 /\ Len(<<>>) = 0
  OBVIOUS
<1>3. n \in DOMAIN t.series
  BY <1>1
<1>4. t.series # <<>>
  BY <1>1, <1>2
<1>5. w.number <= MaxAttempts
  BY ConstantsAssumption
<1> QED
  BY <1>1, <1>2, <1>3, <1>4, <1>5 DEF AttemptOf

LEMMA RecoveringSound ==
    ASSUME NEW s, Sound(s), Method = "deepSky", s.phase = "paused",
           RecoveryCount(s.series) < MaxRecoveries, NEW parameters
    PROVE  Sound(Recovering(s, parameters))
<1> DEFINE id == Minted(s, "recovery")
           x == Series(id, "operatorRecovery", parameters, NoAttempt)
           q == Append(s.series, x)
           r == [s EXCEPT !.series = q]
           w == SolveWork(Minted(s, "recovery-solve"), id, "initial",
                          NoAttempt)
           t == Advance(r, "solving", w, NoProposal)
<1>1. Recovering(s, parameters) = t
  BY DEF Recovering
<1>2. /\ SeriesShaped(x) /\ x.done = <<>> /\ x.id = id
      /\ x.purpose = "operatorRecovery" /\ x.verifies = NoAttempt
  BY NewSeries
<1>3. /\ Ground(s) /\ Shaped(s) /\ s.method = Method
      /\ s.revision \in Nat /\ s.approved = NoAttempt
  BY SoundPhase
<1>4. /\ Made(id, s.revision + 1) /\ Last(id.path) = "recovery"
      /\ \A y : Made(y, s.revision) => y # id
  BY <1>3, MintMade
<1> DEFINE a == Minted(s, "recovery-solve")
<1>5. /\ Made(a, s.revision + 1) /\ Last(a.path) = "recovery-solve"
      /\ \A y : Made(y, s.revision) => y # a
  BY <1>3, MintMade
<1>6. /\ SolveShaped(w) /\ w.kind = "solve" /\ w.id = a
      /\ w.series = id /\ w.number = 1 /\ w.verifies = NoAttempt
  BY <1>5, NewAttempt DEF Made
<1> HIDE DEF w, a, id, x, q
<1>7. /\ Beside(s, r) /\ r.evidence = s.evidence /\ r.series = q
      /\ r.revision = s.revision /\ Shaped(r)
  BY <1>3, SeriesAll DEF Beside
<1> HIDE DEF r
<1>8. /\ Holds(r, t) /\ t.revision = s.revision + 1
      /\ t.phase = "solving" /\ t.work = w /\ t.proposal = NoProposal
      /\ t.latest = s.latest /\ t.approved = s.approved
  BY <1>7, AdvanceAll DEF Beside
<1> HIDE DEF t
<1>9. /\ t.series = Append(s.series, x) /\ t.evidence = s.evidence
      /\ t.method = s.method /\ t.revision >= s.revision /\ Shaped(t)
  BY <1>3, <1>7, <1>8 DEF Holds, Shaped, q
<1>10. /\ \A kinds : Ids(t, kinds) = Ids(s, kinds)
       /\ \A kinds : Newest(t, kinds) = Newest(s, kinds)
  BY <1>9, HoldsSame
<1>11. Opens(s, t, x)
  <2>1. \A i \in DOMAIN s.series : s.series[i].id # x.id
    BY <1>2, <1>3, <1>4 DEF Ground, Rooted
  <2>2. Last(x.id.path) # "verification" /\ Made(x.id, t.revision)
    BY <1>2, <1>4, <1>8
  <2> QED
    BY <1>2, <1>9, <2>1, <2>2 DEF Opens
<1>12. Ground(t)
  BY <1>3, <1>11, GroundOpens
<1>13. w.id \notin Ids(t, ImageKinds)
  <2>1. Ids(s, ImageKinds) \subseteq Ids(s, AttemptKinds)
    BY DEF Ids, Of, Places, AttemptKinds, ImageKinds
  <2>2. \A y \in Ids(s, AttemptKinds) : Made(y, s.revision)
    BY <1>3 DEF Ground, Rooted
  <2> QED
    BY <1>5, <1>6, <1>10, <2>1, <2>2
<1>14. AttemptOf(t, w) /\ t.series # <<>> /\ w.number <= MaxAttempts
  BY <1>2, <1>3, <1>6, <1>9, <1>13, FirstAttempt
<1>15. ValidPolar(t)
  BY <1>3, <1>8, <1>9, <1>10, PolarKept DEF Sound
<1>16. Owes(t)
  BY <1>8, <1>10 DEF Owes, Sound
<1>17. SolveDerived(w.id, t)
  BY <1>5, <1>6 DEF SolveDerived
<1>18. Made(w.id, t.revision) /\ t.method # "polar"
  BY <1>3, <1>5, <1>6, <1>8, <1>9
<1>19. Sound(t)
  BY <1>6, <1>8, <1>12, <1>14, <1>15, <1>16, <1>17, <1>18, SoundSolving
<1> QED
  BY <1>1, <1>19

-----------------------------------------------------------------------------
(* A command leaves a sound session.                                       *)

LEMMA CommitKept ==
    ASSUME NEW s, Sound(s), NEW t, Holds(s, t), Valid(t),
           t.work \in {NoWork, s.work},
           t.proposal # NoProposal => s.proposal # NoProposal,
           t.phase = "paused" => s.phase = "paused"
    PROVE  Sound(t)
<1>1. /\ Ground(s) /\ Shaped(s) /\ s.method = Method
      /\ s.revision \in Nat /\ t.revision \in Nat
      /\ s.revision <= t.revision
  BY SoundPhase DEF Holds, Shaped
<1>2. Ground(t)
  BY <1>1, GroundKept
<1>3. /\ \A kinds : Ids(t, kinds) = Ids(s, kinds)
      /\ AcceptedCount(t) = AcceptedCount(s)
  BY HoldsSame DEF Holds
<1>4. Owes(t)
  BY <1>3 DEF Owes, Sound
<1>5. WorkFits(t)
  <2>1. CASE t.work = NoWork
    BY <1>3, <2>1 DEF WorkFits, NoWork, Sound
  <2>2. CASE t.work = s.work
    <3>1. WorkFits(s)
      BY DEF Sound
    <3>2. t.work.kind # "none" => Made(t.work.id, t.revision)
      BY <1>1, <2>2, <3>1, MadeLater DEF WorkFits
    <3>3. \A id : /\ SolveDerived(id, s) => SolveDerived(id, t)
                  /\ CorrectionDerived(id, s) => CorrectionDerived(id, t)
      BY <1>3 DEF SolveDerived, CorrectionDerived
    <3> QED
      BY <1>3, <2>2, <3>1, <3>2, <3>3 DEF WorkFits
  <2> QED
    BY <2>1, <2>2
<1> QED
  BY <1>2, <1>4, <1>5 DEF Sound, Owes, Valid

LEMMA ManagedHolds ==
    ASSUME NEW s, Shaped(s), NEW x
    PROVE  LET t == Managed(s, x)
           IN /\ Holds(s, t) /\ t.phase = s.phase /\ t.work = s.work
              /\ t.proposal = s.proposal
<1> DEFINE t == Managed(s, x)
<1>1. Shaped(t)
  BY FieldFacts
<1>2. /\ t.evidence = s.evidence /\ t.series = s.series
      /\ t.revision = s.revision + 1
      /\ t.phase = s.phase /\ t.work = s.work /\ t.proposal = s.proposal
  BY DEF Managed, Shaped, Fields
<1>3. s.revision \in Nat
  BY DEF Shaped
<1> HIDE DEF t
<1> QED
  BY <1>1, <1>2, <1>3 DEF Holds, t

LEMMA AcceptedHolds ==
    ASSUME NEW s, Shaped(s)
    PROVE  LET t == PolarAccepted(s)
           IN /\ Holds(s, t) /\ t.phase = "completed" /\ t.work = NoWork
              /\ t.proposal = NoProposal
<1> DEFINE r == Advance(s, "completed", NoWork, NoProposal)
           t == [r EXCEPT !.approved = s.latest]
<1>1. PolarAccepted(s) = t
  BY DEF PolarAccepted
<1>2. /\ Holds(s, r) /\ r.phase = "completed" /\ r.work = NoWork
      /\ r.proposal = NoProposal
  BY AdvanceAll
<1> HIDE DEF r
<1>3. Shaped(t)
  BY <1>2, FieldFacts DEF Holds
<1>4. /\ t.evidence = r.evidence /\ t.series = r.series
      /\ t.revision = r.revision /\ t.phase = r.phase
      /\ t.work = r.work /\ t.proposal = r.proposal
  BY <1>2 DEF Holds, Shaped, Fields
<1> HIDE DEF t
<1> QED
  BY <1>1, <1>2, <1>3, <1>4 DEF Holds

\* Every series of a lunar session would list its one image.
LEMMA LunarOpensNone ==
    ASSUME NEW s, Sound(s), Method = "lunar", s.phase = "paused",
           NEW parameters
    PROVE  ~Valid(Recovering(s, parameters))
<1> DEFINE x == Series(Minted(s, "recovery"), "operatorRecovery",
                       parameters, NoAttempt)
           q == Append(s.series, x)
           r == [s EXCEPT !.series = q]
           w == SolveWork(Minted(s, "recovery-solve"), Minted(s, "recovery"),
                          "initial", NoAttempt)
           t == Advance(r, "solving", w, NoProposal)
<1>1. Recovering(s, parameters) = t
  BY DEF Recovering
<1>2. SeriesShaped(x) /\ Len(x.done) = 0
  BY NewSeries
<1> HIDE DEF x, w
<1>3. Ground(s) /\ Shaped(s) /\ s.method = Method /\ Chained(s.series)
  BY SoundPhase DEF Ground
<1> DEFINE n == Len(s.series) + 1
<1>4. n \in DOMAIN q /\ q[n] = x
  BY <1>2, <1>3, AppendCount, ChainFacts
<1> HIDE DEF q, n
<1>5. /\ Shaped(r) /\ r.evidence = s.evidence /\ r.series = q
  BY <1>3, SeriesAll DEF Beside
<1> HIDE DEF r
<1>6. Shaped(t) /\ t.evidence = s.evidence /\ t.series = q
  BY <1>5, AdvanceAll DEF Holds
<1> HIDE DEF t
<1>7. PICK i \in DOMAIN s.evidence : s.evidence[i].kind = "lunar"
  <2>1. Ids(s, {"lunar"}) # {}
    BY DEF Sound
  <2> QED
    BY <2>1 DEF Ids, Of, Places
<1>8. i \in Listed(x, t)
  BY <1>3, <1>6, <1>7 DEF Listed, Counted, Shaped
<1>9. IsFiniteSet(Listed(x, t))
  <2>1. t.method = "lunar"
    BY <1>6 DEF Shaped
  <2>2. Listed(x, t) = Places(t, {"lunar"})
    BY <2>1 DEF Listed, Counted, Places
  <2> QED
    BY <1>6, <2>2, PlacesFinite
<1>10. Cardinality(Listed(x, t)) # 0
  BY <1>8, <1>9, FS_EmptySet
<1>11. ~Indexes(x, t)
  BY <1>2, <1>10, IndexesFacts
<1> QED
  BY <1>1, <1>4, <1>6, <1>11 DEF Valid, ValidSeries

LEMMA CommandSound ==
    ASSUME Sound(session), SessionCommands
    PROVE  Sound(session')
<1>0. Shaped(session) /\ session.method = Method
  BY SoundPhase
<1>1. CASE RetryPlateSolveWithParameters
  <2>1. PICK p : /\ Method # "polar" /\ OpensRecovery(session, p)
                 /\ Commit(Recovering(session, p))
    BY <1>0, <1>1 DEF RetryPlateSolveWithParameters
  <2> DEFINE t == Recovering(session, p)
  <2>2. Valid(t) /\ session' = t
    BY <2>1 DEF Commit
  <2>3. /\ session.phase = "paused"
        /\ RecoveryCount(session.series) < MaxRecoveries
    BY <1>0, <2>1
    DEF OpensRecovery, RecoveryCount, Recoveries, Shaped, Policy, PolicyOf
  <2>4. Method # "lunar"
    BY <2>2, <2>3, LunarOpensNone
  <2>5. Method = "deepSky"
    BY <2>1, <2>4, ConstantsAssumption
  <2> QED
    BY <2>2, <2>3, <2>5, RecoveringSound
<1>2. CASE SkipAcquireTarget \/ AbortAcquire
  <2>1. PICK phase \in {"skipped", "aborted"} : Commit(Ended(phase))
    BY <1>2 DEF SkipAcquireTarget, AbortAcquire
  <2> DEFINE t == Ended(phase)
  <2>2. Valid(t) /\ session' = t
    BY <2>1 DEF Commit
  <2>3. /\ Holds(session, t) /\ t.phase = phase /\ t.work = NoWork
        /\ t.proposal = NoProposal
    BY <1>0, AdvanceAll DEF Ended
  <2> HIDE DEF t
  <2> QED
    BY <2>2, <2>3, CommitKept
<1>3. CASE RevisePointingCorrection
  <2>1. PICK v : Approvable(session) /\ Commit(Revised(session, v))
    BY <1>3 DEF RevisePointingCorrection
  <2> DEFINE t == Revised(session, v)
  <2>2. Valid(t) /\ session' = t
    BY <2>1 DEF Commit
  <2>3. /\ Holds(session, t) /\ t.phase = "awaitingApproval"
        /\ t.work = NoWork
    BY <1>0, AdvanceAll DEF Revised
  <2>4. session.proposal # NoProposal
    BY <2>1 DEF Approvable
  <2> HIDE DEF t
  <2> QED
    BY <2>2, <2>3, <2>4, CommitKept
<1>4. CASE AcceptPolarAlignmentEvidence
  <2>1. Commit(PolarAccepted(session))
    BY <1>4 DEF AcceptPolarAlignmentEvidence
  <2> DEFINE t == PolarAccepted(session)
  <2>2. Valid(t) /\ session' = t
    BY <2>1 DEF Commit
  <2>3. /\ Holds(session, t) /\ t.phase = "completed"
        /\ t.work = NoWork /\ t.proposal = NoProposal
    BY <1>0, AcceptedHolds
  <2> HIDE DEF t
  <2> QED
    BY <2>2, <2>3, CommitKept
<1>5. CASE \/ StartManagedCapture \/ PauseManagedCapture
           \/ StopManagedCapture \/ RecenterManagedCapture
  <2>1. PICK x : Commit(Managed(session, x))
    BY <1>5, ManagedCommands
  <2> DEFINE t == Managed(session, x)
  <2>2. Valid(t) /\ session' = t
    BY <2>1 DEF Commit
  <2>3. /\ Holds(session, t) /\ t.phase = session.phase
        /\ t.work = session.work /\ t.proposal = session.proposal
    BY <1>0, ManagedHolds
  <2> HIDE DEF t
  <2> QED
    BY <2>2, <2>3, CommitKept
<1> QED
  BY <1>1, <1>2, <1>3, <1>4, <1>5 DEF SessionCommands

-----------------------------------------------------------------------------
(* What the rig answers leaves a sound session.                            *)

\* Evidence of one kind is nothing to the others.
LEMMA GrownKinds ==
    ASSUME NEW s, Shaped(s), NEW t, NEW e, Grown(s, t, e)
    PROVE  \A kinds : e.kind \notin kinds =>
             /\ Ids(t, kinds) = Ids(s, kinds)
             /\ Of(t, kinds) = Of(s, kinds)
             /\ Newest(t, kinds) = Newest(s, kinds)
<1> SUFFICES ASSUME NEW kinds, e.kind \notin kinds
             PROVE  /\ Ids(t, kinds) = Ids(s, kinds)
                    /\ Of(t, kinds) = Of(s, kinds)
                    /\ Newest(t, kinds) = Newest(s, kinds)
  OBVIOUS
<1>1. t.evidence = Append(s.evidence, e)
  BY DEF Grown
<1>2. Ids(t, kinds) = Ids(s, kinds) /\ Newest(t, kinds) = Newest(s, kinds)
  BY <1>1, OtherRecorded
<1>3. Of(t, kinds) = Of(s, kinds)
  <2>1. Of(t, kinds) =
          Of(s, kinds) \cup IF e.kind \in kinds THEN {e} ELSE {}
    BY GrownPlaces
  <2> QED
    BY <2>1
<1> QED
  BY <1>2, <1>3

LEMMA CorrectionRecords ==
    ASSUME NEW s, Sound(s), s.work.kind = "correct",
           NEW answer \in Corrections
    PROVE  LET e == [kind |-> answer, id |-> s.work.id,
                     basedOn |-> s.work.basedOn]
               r == Recorded(s, e)
           IN /\ RecordsBeside(s, r, e) /\ Beside(s, r)
              /\ r.revision = s.revision /\ Ground(r)
              /\ AcceptedCount(r) = AcceptedCount(s) +
                   IF answer = "accepted" THEN 1 ELSE 0
              /\ e.kind = answer /\ e.id = s.work.id
              /\ Owes(r) /\ Newest(r, {"polar"}) = Newest(s, {"polar"})
<1> DEFINE e == [kind |-> answer, id |-> s.work.id,
                 basedOn |-> s.work.basedOn]
           r == Recorded(s, e)
<1>1. e.kind = answer /\ e.id = s.work.id /\ e.basedOn = s.work.basedOn
  OBVIOUS
<1> HIDE DEF e
<1>2. /\ Ground(s) /\ Shaped(s) /\ s.method = Method
      /\ s.phase = "correcting"
  BY SoundPhase
<1>3. /\ Beside(s, r) /\ Grown(s, r, e)
      /\ r.series = s.series /\ r.revision = s.revision
  BY <1>2, RecordAll
<1> HIDE DEF r
<1>4. /\ Measured(s, s.work) /\ s.work.id \notin Ids(s, Corrections)
  BY DEF Sound, ValidWork
<1>5. /\ Made(s.work.id, s.revision) /\ CorrectionDerived(s.work.id, s)
      /\ AcceptedCount(s) < MaxCorrections /\ Method = "deepSky"
  BY DEF Sound, WorkFits
<1>6. e.basedOn \in Ids(s, {"solve"})
  BY <1>1, <1>4 DEF Measured, Ids
<1>7. Distinct(r)
  <2>1. Ids(s, {answer}) \subseteq Ids(s, Corrections)
    BY DEF Ids, Of, Places
  <2>2. e.id \notin Ids(s, {e.kind}) /\ e.id \notin Ids(s, Corrections)
    BY <1>1, <1>4, <2>1
  <2> QED
    BY <1>2, <1>3, <2>2, GrownDistinct DEF Ground
<1>8. RecordsBeside(s, r, e)
  <2>1. s.revision \in Nat /\ e.kind \notin {"solve", "lunar"}
    BY <1>1, <1>2 DEF Shaped, Corrections
  <2> QED
    BY <1>1, <1>3, <1>5, <1>6, <1>7, <2>1 DEF RecordsBeside, Beside
<1>9. /\ Ground(r)
      /\ AcceptedCount(r) = AcceptedCount(s) +
           IF answer = "accepted" THEN 1 ELSE 0
  BY <1>1, <1>2, <1>8, GroundRecords
<1>10. e.kind \notin {"slew"} /\ e.kind \notin ImageKinds
       /\ e.kind \notin {"polar"} /\ e.kind \notin {"lunar"}
  BY <1>1 DEF Corrections, ImageKinds
<1>11. Newest(r, {"polar"}) = Newest(s, {"polar"})
  BY <1>2, <1>3, <1>10, GrownKinds
<1>12. Owes(r)
  <2>1. /\ Ids(r, {"slew"}) = Ids(s, {"slew"})
        /\ Ids(r, ImageKinds) = Ids(s, ImageKinds)
    BY <1>2, <1>3, <1>10, GrownKinds
  <2> QED
    BY <1>5, <2>1 DEF Owes, Sound
<1> QED
  BY <1>1, <1>3, <1>8, <1>9, <1>11, <1>12 DEF e, r

LEMMA RejectedSound ==
    ASSUME NEW s, Sound(s), s.work.kind = "correct"
    PROVE  Sound(AfterCorrection(s, "rejected"))
<1> DEFINE e == [kind |-> "rejected", id |-> s.work.id,
                 basedOn |-> s.work.basedOn]
           r == Recorded(s, e)
           t == Advance(r, "paused", NoWork, NoProposal)
<1>1. AfterCorrection(s, "rejected") = t
  BY DEF AfterCorrection
<1>2. "rejected" \in Corrections
  BY DEF Corrections
<1>3. /\ RecordsBeside(s, r, e) /\ Beside(s, r) /\ Ground(r)
      /\ Owes(r) /\ Newest(r, {"polar"}) = Newest(s, {"polar"})
  BY <1>2, CorrectionRecords
<1> HIDE DEF r, e
<1>4. Shaped(r) /\ r.series = s.series
  BY <1>3 DEF RecordsBeside
<1>5. /\ Holds(r, t) /\ t.phase = "paused" /\ t.work = NoWork
      /\ t.proposal = NoProposal
      /\ t.latest = r.latest /\ t.approved = r.approved
  BY <1>4, AdvanceAll
<1> HIDE DEF t
<1>6. /\ s.method = Method /\ s.approved = NoAttempt
      /\ (s.method = "polar") <=> (s.series = <<>>)
      /\ Method = "deepSky"
  BY SoundPhase DEF Sound, WorkFits
<1>7. Ground(t) /\ t.method = Method /\ t.series = s.series
  BY <1>3, <1>4, <1>5, GroundKept DEF Holds, Shaped
<1>8. /\ \A kinds : Ids(t, kinds) = Ids(r, kinds)
      /\ \A kinds : Newest(t, kinds) = Newest(r, kinds)
  BY <1>5, HoldsSame DEF Holds
<1>9. Owes(t)
  BY <1>3, <1>6, <1>8 DEF Owes
<1>10. ValidPolar(t)
  <2>1. t.latest = s.latest /\ t.approved = s.approved
    BY <1>3, <1>5 DEF Beside
  <2>2. Newest(t, {"polar"}) = Newest(s, {"polar"})
    BY <1>3, <1>8
  <2> QED
    BY <1>6, <1>7, <2>1, <2>2, PolarKept DEF Sound
<1>11. Sound(t)
  BY <1>5, <1>6, <1>7, <1>9, <1>10, SoundAtRest
<1> QED
  BY <1>1, <1>11

LEMMA AcceptedSound ==
    ASSUME NEW s, Sound(s), s.work.kind = "correct"
    PROVE  /\ Sound(AfterCorrection(s, "accepted"))
           /\ AfterCorrection(s, "accepted").work.kind = "solve"
<1> DEFINE e == [kind |-> "accepted", id |-> s.work.id,
                 basedOn |-> s.work.basedOn]
           r == Recorded(s, e)
           id == Suffixed(s.work.id, "verification")
           x == Series(id, "correctionVerification",
                       Last(s.series).parameters, s.work.id)
           q == Append(r.series, x)
           v == [r EXCEPT !.series = q]
           a == Suffixed(s.work.id, "verification-1")
           w == SolveWork(a, id, "verification", s.work.id)
           t == Advance(v, "verifying", w, NoProposal)
<1>1. AfterCorrection(s, "accepted") = t
  BY DEF AfterCorrection
<1>2. "accepted" \in Corrections
  BY DEF Corrections
<1>3. /\ RecordsBeside(s, r, e) /\ Beside(s, r) /\ Ground(r)
      /\ r.revision = s.revision
      /\ Owes(r) /\ Newest(r, {"polar"}) = Newest(s, {"polar"})
      /\ AcceptedCount(r) = AcceptedCount(s) + 1
      /\ e.kind = "accepted" /\ e.id = s.work.id
  BY <1>2, CorrectionRecords
<1> HIDE DEF r, e
<1>4. /\ s.method = Method /\ s.approved = NoAttempt /\ Shaped(s)
      /\ s.revision \in Nat /\ Ground(s)
      /\ (s.method = "polar") <=> (s.series = <<>>)
  BY SoundPhase
<1>5. /\ Made(s.work.id, s.revision) /\ CorrectionShaped(s.work)
      /\ Method = "deepSky"
      /\ s.work.id \notin Ids(s, Corrections)
  BY DEF Sound, WorkFits, ValidWork
<1>6. /\ Shaped(r) /\ r.series = s.series /\ Grown(s, r, e)
  BY <1>3 DEF RecordsBeside
<1>7. Identity(s.work.id)
  BY <1>5 DEF Made
<1>8. /\ Made(id, s.revision) /\ Last(id.path) = "verification"
      /\ Stem(id) = s.work.id
      /\ Made(a, s.revision) /\ Last(a.path) = "verification-1"
      /\ Stem(a) = s.work.id /\ Identity(a)
  BY <1>5, <1>7, StemFacts, SuffixFacts
<1>9. /\ SeriesShaped(x) /\ x.done = <<>> /\ x.id = id
      /\ x.purpose = "correctionVerification" /\ x.verifies = s.work.id
  BY NewSeries
<1>10. /\ SolveShaped(w) /\ w.kind = "solve" /\ w.id = a
       /\ w.series = id /\ w.number = 1 /\ w.verifies = s.work.id
  BY <1>8, NewAttempt
<1> HIDE DEF x, w, id, a, q
<1>11. /\ Beside(r, v) /\ v.evidence = r.evidence /\ v.series = q
       /\ v.revision = r.revision /\ Shaped(v)
  BY <1>6, SeriesAll DEF Beside
<1> HIDE DEF v
<1>12. /\ Holds(v, t) /\ t.revision = s.revision + 1
       /\ t.phase = "verifying" /\ t.work = w /\ t.proposal = NoProposal
       /\ t.latest = s.latest /\ t.approved = s.approved
  BY <1>3, <1>11, AdvanceAll DEF Beside
<1> HIDE DEF t
<1>13. /\ t.series = Append(r.series, x) /\ t.evidence = r.evidence
       /\ t.revision >= r.revision /\ Shaped(t) /\ t.method = Method
  BY <1>3, <1>4, <1>11, <1>12 DEF Holds, Shaped, q
<1>14. /\ \A kinds : Ids(t, kinds) = Ids(r, kinds)
       /\ \A kinds : Newest(t, kinds) = Newest(r, kinds)
  BY <1>13, HoldsSame
<1>15. /\ Ids(r, {"accepted"}) = Ids(s, {"accepted"}) \cup {s.work.id}
       /\ Ids(r, {"solve"}) = Ids(s, {"solve"})
       /\ Ids(s, {"accepted"}) \subseteq Ids(s, Corrections)
  <2>1. \A kinds : Ids(r, kinds) =
          Ids(s, kinds) \cup IF e.kind \in kinds THEN {e.id} ELSE {}
    BY <1>4, <1>6, GrownPlaces
  <2>2. Ids(s, {"accepted"}) \subseteq Ids(s, Corrections)
    BY DEF Ids, Of, Places, Corrections
  <2> QED
    BY <1>3, <2>1, <2>2
<1>16. s.work.id \notin Ids(s, {"accepted"})
  BY <1>5, <1>15
<1>17. Opens(r, t, x)
  <2>1. \A i \in DOMAIN r.series : r.series[i].id # x.id
    BY <1>4, <1>6, <1>8, <1>9, <1>16 DEF Ground, Derived
  <2>2. Made(x.id, t.revision)
    <3>1. s.revision + 1 \in Nat /\ s.revision <= s.revision + 1
      BY <1>4
    <3> QED
      BY <1>4, <1>8, <1>9, <1>12, <3>1, MadeLater
  <2>3. Len(r.series) <= RecoveryCount(r.series) + AcceptedCount(r)
    <3>1. Len(s.series) <= 1 + RecoveryCount(s.series) + AcceptedCount(s)
      BY <1>4 DEF Ground, Spent
    <3>2. Len(s.series) \in Nat /\ RecoveryCount(s.series) \in Nat
      BY <1>4, ChainFacts DEF Ground
    <3>3. AcceptedCount(s) \in Nat
      BY <1>4, PlacesFinite DEF AcceptedCount
    <3> QED
      BY <1>3, <1>6, <3>1, <3>2, <3>3
  <2>4. Stem(x.id) \in Ids(r, {"accepted"})
        /\ x.verifies \in Ids(r, {"accepted"})
    BY <1>8, <1>9, <1>15
  <2> QED
    BY <1>5, <1>9, <1>13, <2>1, <2>2, <2>3, <2>4 DEF Opens
<1>18. Ground(t)
  BY <1>3, <1>17, GroundOpens
<1>19. w.id \notin Ids(t, ImageKinds)
  <2>1. ImageKinds = {"solve"}
    BY <1>5 DEF ImageKinds
  <2>2. Ids(t, ImageKinds) = Ids(s, {"solve"})
    BY <1>14, <1>15, <2>1
  <2>3. \A y \in Ids(s, {"solve"}) : SolveDerived(y, s)
    BY <1>4 DEF Ground, Derived
  <2> QED
    BY <1>8, <1>10, <1>16, <2>2, <2>3 DEF SolveDerived
<1>20. AttemptOf(t, w) /\ t.series # <<>> /\ w.number <= MaxAttempts
  BY <1>3, <1>9, <1>10, <1>13, <1>19, FirstAttempt
<1>21. ValidPolar(t)
  BY <1>3, <1>4, <1>12, <1>13, <1>14, PolarKept DEF Sound
<1>22. Owes(t)
  BY <1>3, <1>5, <1>14 DEF Owes
<1>23. SolveDerived(w.id, t)
  BY <1>8, <1>10, <1>14, <1>15 DEF SolveDerived
<1>24. Made(w.id, t.revision) /\ t.method # "polar"
  <2>1. s.revision + 1 \in Nat /\ s.revision <= s.revision + 1
    BY <1>4
  <2> QED
    BY <1>4, <1>5, <1>8, <1>10, <1>12, <1>13, <2>1, MadeLater
<1>25. Sound(t)
  BY <1>10, <1>12, <1>18, <1>20, <1>21, <1>22, <1>23, <1>24, SoundSolving
<1> QED
  BY <1>1, <1>10, <1>12, <1>25

LEMMA MeasuredSound ==
    ASSUME NEW s, Sound(s), s.work.kind = "measure", NEW result
    PROVE  Sound(AfterMeasure(s, result))
<1> DEFINE e == [kind |-> "polar", id |-> s.work.id, result |-> result]
           q == Recorded(s, e)
           r == Advance(q, "polarGuidance", NoWork, NoProposal)
           t == [r EXCEPT !.latest = s.work.id]
<1>1. AfterMeasure(s, result) = t
  BY DEF AfterMeasure
<1>2. e.kind = "polar" /\ e.id = s.work.id
  OBVIOUS
<1> HIDE DEF e
<1>3. /\ Ground(s) /\ Shaped(s) /\ s.method = Method /\ s.revision \in Nat
      /\ s.phase = "polarMeasuring" /\ s.approved = NoAttempt
      /\ (s.method = "polar") <=> (s.series = <<>>)
  BY SoundPhase
<1>4. /\ Beside(s, q) /\ Grown(s, q, e)
      /\ q.series = s.series /\ q.revision = s.revision /\ Shaped(q)
  BY <1>3, RecordAll DEF Beside
<1> HIDE DEF q
<1>5. /\ Holds(q, r) /\ r.revision = q.revision + 1
      /\ r.phase = "polarGuidance" /\ r.work = NoWork
      /\ r.proposal = NoProposal /\ r.approved = q.approved /\ Shaped(r)
  BY <1>4, AdvanceAll DEF Holds
<1> HIDE DEF r
<1>6. Shaped(t)
  BY <1>5, FieldFacts
<1>7. /\ t.evidence = r.evidence /\ t.series = r.series
      /\ t.revision = r.revision /\ t.phase = r.phase
      /\ t.work = r.work /\ t.proposal = r.proposal
      /\ t.approved = r.approved /\ t.latest = s.work.id
      /\ t.method = r.method /\ t.policy = r.policy
  BY <1>5 DEF Shaped, Fields
<1> HIDE DEF t
<1>8. /\ Grown(s, t, e) /\ t.series = s.series
      /\ t.revision = s.revision + 1 /\ t.method = s.method
      /\ t.phase = "polarGuidance" /\ t.work = NoWork
      /\ t.proposal = NoProposal /\ t.approved = NoAttempt
  <2>1. t.method = s.method /\ t.policy = s.policy
    BY <1>3, <1>6 DEF Shaped
  <2>2. t.evidence = Append(s.evidence, e) /\ t.series = s.series
    BY <1>4, <1>5, <1>7 DEF Grown, Holds
  <2>3. t.approved = NoAttempt
    BY <1>3, <1>4, <1>5, <1>7 DEF Beside
  <2> QED
    BY <1>4, <1>5, <1>7, <2>1, <2>2, <2>3 DEF Grown
<1>9. /\ Made(s.work.id, s.revision)
      /\ s.work.id \notin Ids(s, {"polar"})
  BY DEF Sound, WorkFits
<1>10. Distinct(t)
  <2>1. e.id \notin Ids(s, {e.kind}) /\ e.kind \notin Corrections
    BY <1>2, <1>9 DEF Corrections
  <2> QED
    BY <1>3, <1>8, <2>1, GrownDistinct DEF Ground
<1>11. RecordsBeside(s, t, e)
  <2>1. /\ e.kind \notin Corrections /\ e.kind \notin {"solve", "lunar"}
        /\ e.kind # "accepted"
    BY <1>2 DEF Corrections
  <2>2. s.revision + 1 \in Nat /\ s.revision <= s.revision + 1
        /\ s.revision + 1 >= s.revision
    BY <1>3
  <2>3. Made(e.id, t.revision)
    BY <1>2, <1>3, <1>8, <1>9, <2>2, MadeLater
  <2> QED
    BY <1>6, <1>8, <1>10, <2>1, <2>2, <2>3 DEF RecordsBeside
<1>12. Ground(t)
  BY <1>3, <1>11, GroundRecords
<1>13. ValidPolar(t)
  <2>1. t.evidence = Append(s.evidence, e) /\ e.kind \in {"polar"}
    BY <1>2, <1>8 DEF Grown
  <2>2. e \in Newest(t, {"polar"})
    BY <1>3, <2>1, NewRecorded
  <2> QED
    BY <1>2, <1>7, <1>8, <2>2 DEF ValidPolar
<1>14. Owes(t)
  <2>1. e.kind \notin {"slew"} /\ e.kind \notin ImageKinds
    BY <1>2 DEF ImageKinds
  <2>2. /\ Ids(t, {"slew"}) = Ids(s, {"slew"})
        /\ Ids(t, ImageKinds) = Ids(s, ImageKinds)
    BY <1>3, <1>8, <2>1, GrownKinds
  <2> QED
    BY <1>8, <2>2 DEF Owes, Sound
<1>15. Sound(t)
  BY <1>3, <1>8, <1>12, <1>13, <1>14, SoundAtRest
<1> QED
  BY <1>1, <1>15

LEMMA FrameSound ==
    ASSUME NEW s, Sound(s), s.work.kind = "none", NEW frame, NEW quality,
           s.phase # "paused",
           Valid(AfterFrame(s, frame, quality))
    PROVE  Sound(AfterFrame(s, frame, quality))
<1> DEFINE e == [kind |-> "frame", id |-> frame, quality |-> quality]
           r == Recorded(s, e)
           t == [r EXCEPT !.revision = @ + 1]
<1>1. AfterFrame(s, frame, quality) = t
  BY DEF AfterFrame
<1>2. e.kind = "frame"
  OBVIOUS
<1> HIDE DEF e
<1>3. /\ Ground(s) /\ Shaped(s) /\ s.revision \in Nat
      /\ s.method = Method
  BY SoundPhase
<1>4. /\ Beside(s, r) /\ Grown(s, r, e)
      /\ r.series = s.series /\ r.revision = s.revision /\ Shaped(r)
  BY <1>3, RecordAll DEF Beside
<1> HIDE DEF r
<1>5. Shaped(t)
  BY <1>4, FieldFacts
<1>6. /\ t.evidence = r.evidence /\ t.series = r.series
      /\ t.revision = r.revision + 1 /\ t.phase = r.phase
      /\ t.work = r.work /\ t.proposal = r.proposal
      /\ t.method = r.method /\ t.policy = r.policy
  BY <1>4 DEF Shaped, Fields
<1> HIDE DEF t
<1>7. /\ Grown(s, t, e) /\ t.series = s.series
      /\ t.revision = s.revision + 1
      /\ t.phase = s.phase /\ t.work = s.work /\ t.proposal = s.proposal
  BY <1>4, <1>6 DEF Grown, Beside
<1>8. Valid(t)
  BY <1>1
<1>9. Distinct(t)
  BY <1>8 DEF Valid, ValidIdentities, Distinct
<1>10. RecordsBeside(s, t, e)
  <2>1. /\ e.kind \notin Corrections /\ e.kind \notin {"solve", "lunar"}
        /\ e.kind # "accepted" /\ e.kind \notin AttemptKinds
    BY <1>2 DEF Corrections, AttemptKinds
  <2>2. s.revision + 1 >= s.revision
    BY <1>3
  <2> QED
    BY <1>5, <1>7, <1>9, <2>1, <2>2 DEF RecordsBeside
<1>11. /\ Ground(t)
       /\ AcceptedCount(t) =
            AcceptedCount(s) + IF e.kind = "accepted" THEN 1 ELSE 0
  BY <1>3, <1>10, GroundRecords
<1>12. AcceptedCount(t) = AcceptedCount(s)
  <2>1. AcceptedCount(s) \in Nat
    BY <1>3, PlacesFinite DEF AcceptedCount
  <2> QED
    BY <1>2, <1>11, <2>1
<1>13. Owes(t)
  <2>1. e.kind \notin {"slew"} /\ e.kind \notin ImageKinds
    BY <1>2 DEF ImageKinds
  <2>2. /\ Ids(t, {"slew"}) = Ids(s, {"slew"})
        /\ Ids(t, ImageKinds) = Ids(s, ImageKinds)
    BY <1>3, <1>7, <2>1, GrownKinds
  <2> QED
    BY <1>7, <2>2 DEF Owes, Sound
<1>14. WorkFits(t)
  BY <1>7, <1>12 DEF WorkFits, Sound
<1>15. Sound(t)
  BY <1>8, <1>11, <1>13, <1>14 DEF Sound, Owes, Valid
<1> QED
  BY <1>1, <1>15

-----------------------------------------------------------------------------
(* An image leaves a sound session.                                        *)

\* A session that knows of the slew its image came with.
Slewed(s, r) ==
    /\ Ground(r) /\ Beside(s, r) /\ r.series = s.series
    /\ r.revision >= s.revision
    /\ Ids(r, {"slew"}) \subseteq Ids(s, ImageKinds) \cup {s.work.id}
    /\ \A kinds : "slew" \notin kinds =>
         /\ Ids(r, kinds) = Ids(s, kinds)
         /\ Newest(r, kinds) = Newest(s, kinds)
    /\ AcceptedCount(r) = AcceptedCount(s)

LEMMA SlewedGround ==
    ASSUME NEW s, Sound(s), s.work.kind = "solve"
    PROVE  Slewed(s, SlewAcknowledged(s))
<1> DEFINE r == SlewAcknowledged(s)
           e == [kind |-> "slew", id |-> s.work.id]
<1>1. e.kind = "slew" /\ e.id = s.work.id
  OBVIOUS
<1>2. /\ Ground(s) /\ Shaped(s) /\ s.revision \in Nat
      /\ s.method = Method
  BY SoundPhase
<1>3. /\ Beside(s, r) /\ r.series = s.series
      /\ \/ r = s
         \/ Grown(s, r, e) /\ r.revision = s.revision + 1
  BY <1>2, SlewAll
<1>4. /\ Made(s.work.id, s.revision)
      /\ s.work.id \notin Ids(s, ImageKinds)
      /\ Ids(s, {"slew"}) \subseteq Ids(s, ImageKinds)
  BY WorkIsAttempt DEF AttemptOf, Sound, WorkFits
<1> HIDE DEF e, r
<1>5. CASE r = s
  <2>1. r.revision >= s.revision
    BY <1>2, <1>5
  <2>2. Ids(r, {"slew"}) \subseteq Ids(s, ImageKinds) \cup {s.work.id}
    BY <1>4, <1>5
  <2>3. /\ \A kinds : Ids(r, kinds) = Ids(s, kinds)
        /\ \A kinds : Newest(r, kinds) = Newest(s, kinds)
        /\ AcceptedCount(r) = AcceptedCount(s) /\ Ground(r)
    BY <1>2, <1>5
  <2> QED
    BY <1>3, <2>1, <2>2, <2>3 DEF Slewed, r
<1>6. CASE Grown(s, r, e) /\ r.revision = s.revision + 1
  <2>1. Distinct(r)
    <3>1. e.id \notin Ids(s, {e.kind}) /\ e.kind \notin Corrections
      BY <1>1, <1>4 DEF Corrections
    <3> QED
      BY <1>2, <1>6, <3>1, GrownDistinct DEF Ground
  <2>2. RecordsBeside(s, r, e)
    <3>1. /\ e.kind \notin Corrections /\ e.kind \notin {"solve", "lunar"}
          /\ e.kind # "accepted"
      BY <1>1 DEF Corrections
    <3>2. s.revision + 1 \in Nat /\ s.revision <= s.revision + 1
          /\ s.revision + 1 >= s.revision
      BY <1>2
    <3>3. Made(e.id, r.revision)
      BY <1>1, <1>2, <1>4, <1>6, <3>2, MadeLater
    <3>4. Shaped(r)
      BY <1>3 DEF Beside
    <3> QED
      BY <1>3, <1>6, <2>1, <3>1, <3>2, <3>3, <3>4 DEF RecordsBeside
  <2>3. /\ Ground(r)
        /\ AcceptedCount(r) =
             AcceptedCount(s) + IF e.kind = "accepted" THEN 1 ELSE 0
    BY <1>2, <2>2, GroundRecords
  <2>4. AcceptedCount(r) = AcceptedCount(s)
    <3>1. AcceptedCount(s) \in Nat
      BY <1>2, PlacesFinite DEF AcceptedCount
    <3> QED
      BY <1>1, <2>3, <3>1
  <2>5. Ids(r, {"slew"}) = Ids(s, {"slew"}) \cup {e.id}
    <3>1. Ids(r, {"slew"}) =
            Ids(s, {"slew"}) \cup IF e.kind \in {"slew"} THEN {e.id} ELSE {}
      BY <1>2, <1>6, GrownPlaces
    <3> QED
      BY <1>1, <3>1
  <2>6. \A kinds : "slew" \notin kinds =>
          /\ Ids(r, kinds) = Ids(s, kinds)
          /\ Newest(r, kinds) = Newest(s, kinds)
    BY <1>1, <1>2, <1>6, GrownKinds
  <2>7. r.revision >= s.revision
    BY <1>2, <1>6
  <2>8. Ids(r, {"slew"}) \subseteq Ids(s, ImageKinds) \cup {s.work.id}
    BY <1>1, <1>4, <2>5
  <2> QED
    BY <1>3, <2>3, <2>4, <2>6, <2>7, <2>8 DEF Slewed, r
<1> QED
  BY <1>3, <1>5, <1>6 DEF r

\* A session whose attempt at an image is recorded.
Pictured(s, c, e) ==
    /\ Ground(c) /\ Beside(s, c) /\ c.revision >= s.revision
    /\ c.series # <<>>
    /\ \E k \in DOMAIN c.series :
         /\ c.series[k].id = s.work.series
         /\ c.series[k].verifies = s.work.verifies
         /\ Len(c.series[k].done) = s.work.number
    /\ Ids(c, ImageKinds) = Ids(s, ImageKinds) \cup {s.work.id}
    /\ Ids(c, {"slew"}) \subseteq Ids(c, ImageKinds)
    /\ Ids(c, {"accepted"}) = Ids(s, {"accepted"})
    /\ Ids(c, Corrections) = Ids(s, Corrections)
    /\ Newest(c, {"polar"}) = Newest(s, {"polar"})
    /\ AcceptedCount(c) = AcceptedCount(s)
    /\ e \in Of(c, ImageKinds)

LEMMA PicturedGround ==
    ASSUME NEW s, Sound(s), s.work.kind = "solve", NEW r, Slewed(s, r),
           NEW e, ImageOf(e, s.work)
    PROVE  /\ Pictured(s, Completes(r, e), e)
           /\ Completes(r, e).revision = r.revision
<1> DEFINE c == Completes(r, e)
           w == s.work
<1>1. /\ Ground(r) /\ Shaped(r) /\ Beside(s, r) /\ r.series = s.series
      /\ r.revision >= s.revision /\ r.work = w
      /\ AcceptedCount(r) = AcceptedCount(s)
  BY DEF Slewed, Ground, Beside
<1>2. /\ \A kinds : "slew" \notin kinds =>
           /\ Ids(r, kinds) = Ids(s, kinds)
           /\ Newest(r, kinds) = Newest(s, kinds)
      /\ Ids(r, {"slew"}) \subseteq Ids(s, ImageKinds) \cup {w.id}
  BY DEF Slewed
<1>3. /\ Beside(r, c) /\ Grown(r, c, e) /\ c.revision = r.revision
      /\ c.series = Told(r.series, w)
  BY <1>1, CompletesAll
<1>4. /\ AttemptOf(s, w) /\ w.number <= MaxAttempts
      /\ Made(w.id, s.revision) /\ SolveDerived(w.id, s)
      /\ s.revision \in Nat /\ r.revision \in Nat
  BY <1>1, WorkIsAttempt DEF Sound, WorkFits, Ground, Shaped
<1>5. /\ Ids(r, ImageKinds) = Ids(s, ImageKinds)
      /\ Ids(r, {"solve"}) = Ids(s, {"solve"})
      /\ Ids(r, {"accepted"}) = Ids(s, {"accepted"})
      /\ Ids(r, Corrections) = Ids(s, Corrections)
      /\ Newest(r, {"polar"}) = Newest(s, {"polar"})
  <2>1. /\ "slew" \notin ImageKinds /\ "slew" \notin {"solve"}
        /\ "slew" \notin {"accepted"} /\ "slew" \notin Corrections
        /\ "slew" \notin {"polar"}
    BY DEF ImageKinds, Corrections
  <2> QED
    BY <1>2, <2>1
<1>6. /\ e.id = w.id /\ e.kind \in ImageKinds
      /\ e.kind \notin {"slew"} /\ e.kind \notin {"accepted"}
      /\ e.kind \notin Corrections /\ e.kind \notin {"polar"}
  BY DEF ImageOf, ImageKinds, Corrections
<1> HIDE DEF c
<1>7. RecordsImage(r, c, e, w)
  <2>1. AttemptOf(r, w)
    BY <1>1, <1>4, <1>5 DEF AttemptOf
  <2>2. SolveDerived(w.id, r)
    BY <1>4, <1>5 DEF SolveDerived
  <2>3. Made(w.id, r.revision)
    BY <1>1, <1>4, MadeLater
  <2>4. Shaped(c) /\ c.revision >= r.revision
    BY <1>3, <1>4 DEF Beside
  <2> QED
    BY <1>1, <1>3, <1>4, <2>1, <2>2, <2>3, <2>4 DEF RecordsImage
<1>8. Ground(c)
  BY <1>1, <1>7, GroundCompletes
<1>9. Beside(s, c) /\ c.revision >= s.revision
  BY <1>1, <1>3 DEF Beside
<1>10. /\ Ids(c, {"slew"}) = Ids(r, {"slew"})
       /\ Ids(c, {"accepted"}) = Ids(r, {"accepted"})
       /\ Ids(c, Corrections) = Ids(r, Corrections)
       /\ Newest(c, {"polar"}) = Newest(r, {"polar"})
  BY <1>1, <1>3, <1>6, GrownKinds
<1>11. /\ Ids(c, ImageKinds) = Ids(r, ImageKinds) \cup {w.id}
       /\ e \in Of(c, ImageKinds)
  <2>1. /\ Ids(c, ImageKinds) = Ids(r, ImageKinds) \cup
             IF e.kind \in ImageKinds THEN {e.id} ELSE {}
        /\ Of(c, ImageKinds) = Of(r, ImageKinds) \cup
             IF e.kind \in ImageKinds THEN {e} ELSE {}
    BY <1>1, <1>3, GrownPlaces
  <2> QED
    BY <1>6, <2>1
<1>12. AcceptedCount(c) = AcceptedCount(r)
  <2>1. AcceptedCount(c) =
          AcceptedCount(r) + IF e.kind \in {"accepted"} THEN 1 ELSE 0
    BY <1>1, <1>3, GrownCount DEF AcceptedCount
  <2>2. AcceptedCount(r) \in Nat
    BY <1>1, PlacesFinite DEF AcceptedCount
  <2> QED
    BY <1>6, <2>1, <2>2
<1>13. Chained(r.series) /\ ToldOnly(r.series, c.series, w)
  BY <1>1, <1>3, ToldFacts DEF Ground
<1>14. PICK k \in DOMAIN r.series :
         /\ r.series[k].id = w.series
         /\ w.number = Len(r.series[k].done) + 1
         /\ w.verifies = r.series[k].verifies
  BY <1>1, <1>4 DEF AttemptOf
<1>15. /\ k \in DOMAIN c.series
       /\ c.series[k].id = w.series /\ c.series[k].verifies = w.verifies
       /\ c.series[k] = [r.series[k] EXCEPT !.done = Append(@, w.id)]
  BY <1>13, <1>14 DEF ToldOnly
<1>16. Len(c.series[k].done) = w.number
  <2> DEFINE x == r.series[k]
             d == Append(x.done, w.id)
             y == [x EXCEPT !.done = d]
  <2>1. SeriesShaped(x)
    BY <1>13, <1>14 DEF Chained
  <2>2. Len(d) = Len(x.done) + 1
    <3>1. x.done \in Seq(Within(x.done) \cup {w.id})
      <4>1. x.done \in Seq(Within(x.done))
        BY <2>1 DEF SeriesShaped, IsSequence
      <4> QED
        BY <4>1
    <3> QED
      BY <3>1
  <2>3. c.series[k] = y
    BY <1>15
  <2> HIDE DEF d, x
  <2>4. y.done = d
    BY <2>1 DEF SeriesShaped, SeriesFields
  <2> QED
    BY <1>14, <2>2, <2>3, <2>4 DEF x
<1>17. c.series # <<>>
  <2>1. DOMAIN <<>> = {}
    OBVIOUS
  <2> QED
    BY <1>15, <2>1
<1>18. Ids(c, {"slew"}) \subseteq Ids(c, ImageKinds)
  BY <1>2, <1>5, <1>10, <1>11
<1> QED
  BY <1>1, <1>3, <1>5, <1>8, <1>9, <1>10, <1>11, <1>12, <1>15, <1>16, <1>17,
     <1>18 DEF Pictured, c

LEMMA PicturedOn ==
    ASSUME NEW s, Sound(s), s.work.kind = "solve",
           NEW c, NEW e, Pictured(s, c, e),
           NEW phase, NEW work, NEW proposal
    PROVE  LET t == Advance(c, phase, work, proposal)
           IN /\ Ground(t) /\ t.revision = c.revision + 1
              /\ t.phase = phase /\ t.work = work /\ t.proposal = proposal
              /\ t.series = c.series /\ t.series # <<>>
              /\ t.method = Method /\ Method # "polar"
              /\ ValidPolar(t)
              /\ Ids(t, {"slew"}) \subseteq Ids(t, ImageKinds)
              /\ AcceptedCount(t) = AcceptedCount(s)
              /\ \A kinds : Ids(t, kinds) = Ids(c, kinds)
              /\ \A kinds : Of(t, kinds) = Of(c, kinds)
<1> DEFINE t == Advance(c, phase, work, proposal)
<1>1. /\ Ground(c) /\ Beside(s, c) /\ Shaped(c) /\ c.series # <<>>
  BY DEF Pictured, Ground
<1>2. /\ Holds(c, t) /\ t.revision = c.revision + 1
      /\ t.phase = phase /\ t.work = work /\ t.proposal = proposal
      /\ t.latest = c.latest /\ t.approved = c.approved
  BY <1>1, AdvanceAll
<1> HIDE DEF t
<1>3. Ground(t) /\ t.method = Method /\ t.series = c.series
  BY <1>1, <1>2, GroundKept DEF Holds, Shaped
<1>4. /\ \A kinds : Ids(t, kinds) = Ids(c, kinds)
      /\ \A kinds : Of(t, kinds) = Of(c, kinds)
      /\ \A kinds : Newest(t, kinds) = Newest(c, kinds)
      /\ AcceptedCount(t) = AcceptedCount(c)
  BY <1>2, HoldsSame DEF Holds
<1>5. /\ s.method = Method /\ Method # "polar" /\ s.approved = NoAttempt
  <2>1. /\ s.method = Method /\ s.phase \in {"solving", "verifying"}
        /\ (s.method = "polar") <=> (s.series = <<>>)
        /\ s.phase # "completed" => s.approved = NoAttempt
    BY SoundPhase
  <2>2. DOMAIN s.series # {}
    BY WorkIsAttempt DEF AttemptOf
  <2>3. DOMAIN <<>> = {}
    OBVIOUS
  <2> QED
    BY <2>1, <2>2, <2>3
<1>6. ValidPolar(t)
  <2>1. t.latest = s.latest /\ t.approved = s.approved
    BY <1>1, <1>2 DEF Beside
  <2>2. Newest(t, {"polar"}) = Newest(s, {"polar"})
    BY <1>4 DEF Pictured
  <2> QED
    BY <1>3, <1>5, <2>1, <2>2, PolarKept DEF Sound
<1>7. /\ Ids(t, {"slew"}) \subseteq Ids(t, ImageKinds)
      /\ AcceptedCount(t) = AcceptedCount(s)
  BY <1>4 DEF Pictured
<1> QED
  BY <1>1, <1>2, <1>3, <1>4, <1>5, <1>6, <1>7 DEF t

LEMMA LimbSound ==
    ASSUME NEW s, Sound(s), s.work.kind = "solve", Method = "lunar",
           NEW r, Slewed(s, r), NEW result
    PROVE  Sound(AfterLimb(r, result))
<1> DEFINE e == [kind |-> "lunar", id |-> r.work.id, result |-> result]
           c == Completes(r, e)
           phase == IF result = "centered" THEN "completed" ELSE "paused"
           t == Advance(c, phase, NoWork, NoProposal)
<1>1. AfterLimb(r, result) = t
  BY DEF AfterLimb
<1>2. ImageOf(e, s.work)
  BY DEF ImageOf, Slewed, Beside
<1>3. phase \in {"completed", "paused"}
  OBVIOUS
<1> HIDE DEF e, phase
<1>4. Pictured(s, c, e)
  BY <1>2, PicturedGround
<1> HIDE DEF c
<1>5. /\ Ground(t) /\ t.phase = phase /\ t.work = NoWork
      /\ t.proposal = NoProposal /\ t.series # <<>>
      /\ t.method = Method /\ Method # "polar" /\ ValidPolar(t)
      /\ Ids(t, {"slew"}) \subseteq Ids(t, ImageKinds)
      /\ \A kinds : Ids(t, kinds) = Ids(c, kinds)
  BY <1>4, PicturedOn
<1> HIDE DEF t
<1>6. Owes(t)
  <2>1. s.work.id \in Ids(t, ImageKinds)
    BY <1>4, <1>5 DEF Pictured
  <2>2. ImageKinds = {"lunar"}
    BY DEF ImageKinds
  <2> QED
    BY <1>5, <2>1, <2>2 DEF Owes
<1>7. Sound(t)
  BY <1>3, <1>5, <1>6, SoundAtRest
<1> QED
  BY <1>1, <1>7

LEMMA RetryFacts ==
    ASSUME NEW w, SolveShaped(w)
    PROVE  LET a == [w EXCEPT !.id = Suffixed(@, "retry"),
                              !.number = @ + 1, !.purpose = "retry"]
           IN /\ a.kind = "solve" /\ SolveShaped(a)
              /\ a.id = Suffixed(w.id, "retry") /\ a.series = w.series
              /\ a.number = w.number + 1 /\ a.verifies = w.verifies
<1> DEFINE a == [w EXCEPT !.id = Suffixed(@, "retry"),
                          !.number = @ + 1, !.purpose = "retry"]
<1>1. /\ a = [f \in SolveFields |-> a[f]] /\ a.kind = "solve"
      /\ a.id = Suffixed(w.id, "retry") /\ a.series = w.series
      /\ a.number = w.number + 1 /\ a.verifies = w.verifies
  BY DEF SolveShaped, SolveFields
<1> HIDE DEF a
<1>2. Identity(w.id)
  BY DEF SolveShaped
<1>3. Identity(a.id) /\ Last(a.id.path) = "retry"
  BY <1>1, <1>2, SuffixFacts
<1> QED
  BY <1>1, <1>3 DEF SolveShaped, a

LEMMA RetrySound ==
    ASSUME NEW s, Sound(s), s.work.kind = "solve", Method # "lunar",
           NEW c, NEW e, Pictured(s, c, e), s.work.number < MaxAttempts
    PROVE  Sound(Advance(c, s.phase,
                         [s.work EXCEPT !.id = Suffixed(@, "retry"),
                                        !.number = @ + 1,
                                        !.purpose = "retry"],
                         NoProposal))
<1> DEFINE a == [s.work EXCEPT !.id = Suffixed(@, "retry"),
                               !.number = @ + 1, !.purpose = "retry"]
           t == Advance(c, s.phase, a, NoProposal)
<1>1. /\ SolveShaped(s.work) /\ Made(s.work.id, s.revision)
      /\ s.work.id \notin Ids(s, ImageKinds)
      /\ s.phase \in {"solving", "verifying"} /\ s.revision \in Nat
  BY SoundPhase, WorkIsAttempt DEF Sound, WorkFits, AttemptOf
<1>2. /\ a.kind = "solve" /\ SolveShaped(a)
      /\ a.id = Suffixed(s.work.id, "retry") /\ a.series = s.work.series
      /\ a.number = s.work.number + 1 /\ a.verifies = s.work.verifies
  BY <1>1, RetryFacts
<1> HIDE DEF a
<1>3. /\ Ground(t) /\ t.phase = s.phase /\ t.work = a
      /\ t.proposal = NoProposal /\ t.series # <<>>
      /\ t.series = c.series /\ t.revision = c.revision + 1
      /\ t.method = Method /\ Method # "polar" /\ ValidPolar(t)
      /\ Ids(t, {"slew"}) \subseteq Ids(t, ImageKinds)
      /\ \A kinds : Ids(t, kinds) = Ids(c, kinds)
  BY PicturedOn
<1> HIDE DEF t
<1>4. /\ Stem(a.id) = s.work.id /\ a.id # s.work.id
      /\ Last(a.id.path) = "retry" /\ Made(a.id, s.revision)
  BY <1>1, <1>2, StemFacts, SuffixFacts DEF Made
<1>5. Made(a.id, t.revision)
  <2>1. /\ c.revision >= s.revision /\ c.revision \in Nat
    BY DEF Pictured, Ground, Shaped
  <2>2. t.revision \in Nat /\ s.revision <= t.revision
    BY <1>1, <1>3, <2>1
  <2> QED
    BY <1>1, <1>4, <2>2, MadeLater
<1>6. ImageKinds = {"solve"}
  BY DEF ImageKinds
<1>7. /\ Ids(t, {"solve"}) = Ids(s, {"solve"}) \cup {s.work.id}
  BY <1>3, <1>6 DEF Pictured
<1>8. a.id \notin Ids(t, ImageKinds)
  <2>1. \A id \in Ids(s, {"solve"}) : SolveDerived(id, s)
    BY DEF Sound, Ground, Derived
  <2>2. a.id \notin Ids(s, {"solve"})
    BY <1>1, <1>4, <1>6, <2>1 DEF SolveDerived
  <2> QED
    BY <1>4, <1>6, <1>7, <2>2
<1>9. SolveDerived(a.id, t)
  BY <1>4, <1>7 DEF SolveDerived
<1>10. AttemptOf(t, a)
  <2>1. PICK k \in DOMAIN c.series :
          /\ c.series[k].id = s.work.series
          /\ c.series[k].verifies = s.work.verifies
          /\ Len(c.series[k].done) = s.work.number
    BY DEF Pictured
  <2> QED
    BY <1>2, <1>3, <1>8, <2>1 DEF AttemptOf
<1>11. a.number <= MaxAttempts
  <2>1. PICK k \in DOMAIN s.series :
          s.work.number = Len(s.series[k].done) + 1
    BY WorkIsAttempt DEF AttemptOf
  <2>2. Len(s.series[k].done) \in Nat
    BY <2>1, AppendFacts DEF Sound, Ground, Chained, SeriesShaped
  <2> QED
    BY <1>2, <2>1, <2>2, ConstantsAssumption
<1>12. Owes(t)
  BY <1>3 DEF Owes
<1>13. Sound(t)
  BY <1>1, <1>2, <1>3, <1>5, <1>9, <1>10, <1>11, <1>12, SoundSolving
<1> QED
  BY <1>13 DEF t, a

\* The image the correction or the proposal is based on.
Measures(e, w, x) ==
    /\ e.id = w.id /\ e.result \in Correctable
    /\ x.basedOn = w.id /\ x.vector = e.result

LEMMA MeasuresFacts ==
    ASSUME NEW s, NEW c, NEW e, Pictured(s, c, e), Method # "lunar",
           NEW t, \A kinds : Of(t, kinds) = Of(c, kinds),
           NEW x, Measures(e, s.work, x)
    PROVE  Measured(t, x)
<1>1. e \in Of(t, {"solve"})
  BY DEF Pictured, ImageKinds
<1>2. e.result \notin NoSolution
  BY DEF Measures, Correctable, NoSolution
<1> QED
  BY <1>1, <1>2 DEF Measured, Measures

LEMMA CorrectingSound ==
    ASSUME NEW s, Sound(s), s.work.kind = "solve", Method = "deepSky",
           NEW c, NEW e, Pictured(s, c, e),
           AcceptedCount(s) < MaxCorrections,
           NEW a, a.kind = "correct", Measures(e, s.work, a),
           a.id = Suffixed(s.work.id, "correction")
    PROVE  Sound(Advance(c, "correcting", a, NoProposal))
<1> DEFINE t == Advance(c, "correcting", a, NoProposal)
<1>1. /\ SolveShaped(s.work) /\ Made(s.work.id, s.revision)
      /\ s.work.id \notin Ids(s, ImageKinds) /\ s.revision \in Nat
  BY SoundPhase, WorkIsAttempt DEF Sound, WorkFits, AttemptOf
<1>2. /\ Ground(t) /\ t.phase = "correcting" /\ t.work = a
      /\ t.proposal = NoProposal /\ t.series # <<>>
      /\ t.revision = c.revision + 1
      /\ t.method = Method /\ Method # "polar" /\ ValidPolar(t)
      /\ Ids(t, {"slew"}) \subseteq Ids(t, ImageKinds)
      /\ AcceptedCount(t) = AcceptedCount(s)
      /\ \A kinds : Ids(t, kinds) = Ids(c, kinds)
      /\ \A kinds : Of(t, kinds) = Of(c, kinds)
  BY PicturedOn
<1> HIDE DEF t
<1>3. /\ Stem(a.id) = s.work.id /\ Identity(a.id)
      /\ Last(a.id.path) = "correction" /\ Made(a.id, s.revision)
      /\ Len(a.id.path) > 1
  <2>1. Identity(s.work.id) /\ Len(s.work.id.path) >= 1
    BY <1>1 DEF Made
  <2>2. /\ Stem(a.id) = s.work.id
        /\ Len(a.id.path) = Len(s.work.id.path) + 1
        /\ Len(s.work.id.path) \in Nat /\ Made(a.id, s.revision)
    BY <1>1, <2>1, StemFacts
  <2>3. Identity(a.id) /\ Last(a.id.path) = "correction"
    BY <2>1, SuffixFacts
  <2>4. Len(a.id.path) > 1
    BY <2>1, <2>2
  <2> QED
    BY <2>2, <2>3, <2>4
<1>4. Made(a.id, t.revision)
  <2>1. /\ c.revision >= s.revision /\ c.revision \in Nat
    BY DEF Pictured, Ground, Shaped
  <2>2. t.revision \in Nat /\ s.revision <= t.revision
    BY <1>1, <1>2, <2>1
  <2> QED
    BY <1>1, <1>3, <2>2, MadeLater
<1>5. /\ ImageKinds = {"solve"}
      /\ Ids(t, {"solve"}) = Ids(s, {"solve"}) \cup {s.work.id}
      /\ Ids(t, Corrections) = Ids(s, Corrections)
  <2>1. ImageKinds = {"solve"}
    BY DEF ImageKinds
  <2> QED
    BY <1>2, <2>1 DEF Pictured
<1>6. a.id \notin Ids(t, Corrections)
  <2>1. \A id \in Ids(s, Corrections) : CorrectionDerived(id, s)
    BY DEF Sound, Ground, Derived
  <2> QED
    BY <1>1, <1>3, <1>5, <2>1 DEF CorrectionDerived
<1>7. CorrectionShaped(a) /\ CorrectionDerived(a.id, t)
  BY <1>3, <1>5 DEF CorrectionShaped, CorrectionDerived
<1>8. Measured(t, a)
  BY <1>2, MeasuresFacts
<1>9. Owes(t)
  BY <1>2 DEF Owes
<1>10. Sound(t)
  BY <1>2, <1>4, <1>6, <1>7, <1>8, <1>9, SoundCorrecting
<1> QED
  BY <1>10 DEF t

LEMMA ProposedSound ==
    ASSUME NEW s, Sound(s), s.work.kind = "solve", Method = "deepSky",
           NEW c, NEW e, Pictured(s, c, e),
           AcceptedCount(s) < MaxCorrections,
           NEW p, p.revision = c.revision + 1, Measures(e, s.work, p)
    PROVE  Sound(Advance(c, "awaitingApproval", NoWork, p))
<1> DEFINE t == Advance(c, "awaitingApproval", NoWork, p)
<1>1. /\ Ground(t) /\ t.phase = "awaitingApproval" /\ t.work = NoWork
      /\ t.proposal = p /\ t.series # <<>>
      /\ t.revision = c.revision + 1
      /\ t.method = Method /\ Method # "polar" /\ ValidPolar(t)
      /\ Ids(t, {"slew"}) \subseteq Ids(t, ImageKinds)
      /\ AcceptedCount(t) = AcceptedCount(s)
      /\ \A kinds : Of(t, kinds) = Of(c, kinds)
  BY PicturedOn
<1> HIDE DEF t
<1>2. p # NoProposal
  <2>1. c.revision \in Nat
    BY DEF Pictured, Ground, Shaped
  <2>2. p.revision # 0
    BY <2>1
  <2> QED
    BY <2>2, RevisionNamed
<1>3. Measured(t, p)
  BY <1>1, MeasuresFacts
<1>4. Owes(t)
  BY <1>1 DEF Owes
<1>5. Sound(t)
  BY <1>1, <1>2, <1>3, <1>4, SoundProposing
<1> QED
  BY <1>5 DEF t

LEMMA SettledSound ==
    ASSUME NEW s, Sound(s), s.work.kind = "solve", Method # "lunar",
           NEW c, NEW e, Pictured(s, c, e),
           NEW phase \in {"completed", "paused"}
    PROVE  Sound(Advance(c, phase, NoWork, NoProposal))
<1> DEFINE t == Advance(c, phase, NoWork, NoProposal)
<1>1. /\ Ground(t) /\ t.phase = phase /\ t.work = NoWork
      /\ t.proposal = NoProposal /\ t.series # <<>>
      /\ t.method = Method /\ Method # "polar" /\ ValidPolar(t)
      /\ Ids(t, {"slew"}) \subseteq Ids(t, ImageKinds)
  BY PicturedOn
<1> HIDE DEF t
<1>2. Owes(t)
  BY <1>1 DEF Owes
<1>3. Sound(t)
  BY <1>1, <1>2, SoundAtRest
<1> QED
  BY <1>3 DEF t

LEMMA SolvedSound ==
    ASSUME NEW s, Sound(s), s.work.kind = "solve", Method # "lunar",
           NEW r, Slewed(s, r), NEW result, NEW at
    PROVE  Sound(AfterSolve(r, result, at))
<1> DEFINE w == s.work
           e == [kind |-> "solve", id |-> w.id,
                 series |-> w.series, verifies |-> w.verifies,
                 result |-> result]
           c == Completes(r, e)
           again == [w EXCEPT !.id = Suffixed(@, "retry"),
                              !.number = @ + 1, !.purpose = "retry"]
           correction == [kind |-> "correct",
                          id |-> Suffixed(w.id, "correction"),
                          basedOn |-> w.id, basis |-> "measuredInverse",
                          vector |-> result]
           proposal == [revision |-> r.revision + 1,
                        id |-> Suffixed(w.id, "proposal"),
                        basedOn |-> w.id, basis |-> "measuredInverse",
                        vector |-> result, expires |-> at + 1]
           spent == Cardinality(Places(r, {"accepted"})) >= MaxCorrections
           t == AfterSolve(r, result, at)
<1>1. /\ r.work = w /\ r.phase = s.phase /\ Shaped(r) /\ Shaped(s)
      /\ AcceptedCount(r) = AcceptedCount(s)
  BY SoundPhase DEF Slewed, Beside
<1>2. /\ r.policy.attempts = MaxAttempts
      /\ r.policy.corrections = MaxCorrections
  BY <1>1 DEF Shaped, Policy, PolicyOf
<1>3. Method = "deepSky"
  <2>1. /\ s.method = Method
        /\ (s.method = "polar") <=> (s.series = <<>>)
    BY SoundPhase
  <2>2. DOMAIN s.series # {}
    BY WorkIsAttempt DEF AttemptOf
  <2>3. DOMAIN <<>> = {}
    OBVIOUS
  <2>4. Method # "polar"
    BY <2>1, <2>2, <2>3
  <2>5. Method \in {"deepSky", "lunar", "polar"}
    BY ConstantsAssumption
  <2> QED
    BY <2>4, <2>5
<1>4. ImageOf(e, w) /\ e.id = w.id /\ e.result = result
  BY DEF ImageOf
<1>5. /\ correction.kind = "correct"
      /\ correction.id = Suffixed(w.id, "correction")
      /\ correction.basedOn = w.id /\ correction.vector = result
  OBVIOUS
<1>6. /\ proposal.revision = r.revision + 1
      /\ proposal.basedOn = w.id /\ proposal.vector = result
  OBVIOUS
<1>7. \/ t = Advance(c, "completed", NoWork, NoProposal)
      \/ /\ w.number < MaxAttempts
         /\ t = Advance(c, s.phase, again, NoProposal)
      \/ /\ result = "automatic" /\ ~spent
         /\ t = Advance(c, "correcting", correction, NoProposal)
      \/ /\ result = "approval" /\ ~spent
         /\ t = Advance(c, "awaitingApproval", NoWork, proposal)
      \/ t = Advance(c, "paused", NoWork, NoProposal)
  BY <1>1, <1>2 DEF AfterSolve
<1>8. ~spent => AcceptedCount(s) < MaxCorrections
  <2>1. AcceptedCount(r) \in Nat
    BY <1>1, PlacesFinite DEF AcceptedCount
  <2>2. MaxCorrections \in Nat
    BY ConstantsAssumption
  <2> QED
    BY <1>1, <2>1, <2>2 DEF AcceptedCount
<1> HIDE DEF e, spent, t, correction, proposal
<1>9. Pictured(s, c, e) /\ c.revision = r.revision
  BY <1>4, PicturedGround
<1> HIDE DEF c
<1>10. CASE t = Advance(c, "completed", NoWork, NoProposal)
  BY <1>9, <1>10, SettledSound DEF t
<1>11. CASE t = Advance(c, "paused", NoWork, NoProposal)
  BY <1>9, <1>11, SettledSound DEF t
<1>12. CASE /\ w.number < MaxAttempts
            /\ t = Advance(c, s.phase, again, NoProposal)
  BY <1>9, <1>12, RetrySound DEF t
<1> HIDE DEF w
<1>13. result \in Correctable => /\ Measures(e, w, correction)
                                 /\ Measures(e, w, proposal)
  BY <1>4, <1>5, <1>6 DEF Measures
<1> USE DEF w
<1>14. CASE /\ result = "automatic" /\ ~spent
            /\ t = Advance(c, "correcting", correction, NoProposal)
  <2>1. Measures(e, w, correction)
    BY <1>13, <1>14 DEF Correctable
  <2> QED
    BY <1>3, <1>5, <1>8, <1>9, <1>14, <2>1, CorrectingSound DEF t
<1>15. CASE /\ result = "approval" /\ ~spent
            /\ t = Advance(c, "awaitingApproval", NoWork, proposal)
  <2>1. Measures(e, w, proposal)
    BY <1>13, <1>15 DEF Correctable
  <2> QED
    BY <1>3, <1>6, <1>8, <1>9, <1>15, <2>1, ProposedSound DEF t
<1> QED
  BY <1>7, <1>10, <1>11, <1>12, <1>14, <1>15 DEF t

LEMMA CaptureSound ==
    ASSUME NEW s, Sound(s), s.work.kind = "solve", NEW result, NEW at
    PROVE  Sound(AfterCapture(s, result, at))
<1> DEFINE r == SlewAcknowledged(s)
           t == AfterCapture(s, result, at)
<1>1. Slewed(s, r)
  BY SlewedGround
<1>2. t = IF Method = "lunar" THEN AfterLimb(r, result)
                             ELSE AfterSolve(r, result, at)
  BY SoundPhase DEF AfterCapture
<1> HIDE DEF r, t
<1>3. CASE Method = "lunar"
  BY <1>1, <1>2, <1>3, LimbSound DEF t
<1>4. CASE Method # "lunar"
  BY <1>1, <1>2, <1>4, SolvedSound DEF t
<1> QED
  BY <1>3, <1>4

-----------------------------------------------------------------------------
(* What is stored is sound, and so is what is in flight.                   *)

LEMMA StoredSound ==
    ASSUME Solid, SoundNow, NEW s \in Slots, NEW t, Stored(s, t), Valid(t)
    PROVE  Sound(t)
<1> DEFINE f == flight[s]
           o == outcomes[f.base.work.id]
<1>1. f # Idle
  BY DEF Stored, Idle
<1>2. FlightSound(f) /\ FlightFits(f)
  BY DEF SoundNow, Solid
<1>3. Sound(f.base)
  BY <1>1, <1>2 DEF FlightSound
<1>4. CASE f.step = "capture" /\ t = Solved(s)
  <2>1. f.base.work.kind = "solve"
    BY <1>1, <1>2, <1>4 DEF FlightSound
  <2>2. Sound(AfterCapture(f.base, o.result, o.at))
    BY <1>3, <2>1, CaptureSound
  <2> QED
    BY <1>4, <2>2 DEF Solved
<1>5. CASE /\ f.step = "correct" /\ f.base.work.id \in DOMAIN outcomes
           /\ t = AfterCorrection(f.base, o.result)
  <2>1. f.base.work.kind = "correct" /\ CorrectionShaped(f.base.work)
    BY <1>1, <1>2, <1>5, CorrectionStored DEF FlightSound
  <2>2. o.result \in Corrections
    BY <1>5, <2>1 DEF Solid, CorrectionShaped
  <2>3. o.result = "accepted" \/ o.result = "rejected"
    BY <2>2 DEF Corrections
  <2> QED
    BY <1>3, <1>5, <2>1, <2>3, RejectedSound, AcceptedSound
<1>6. CASE /\ f.step = "frame"
           /\ \E frame, quality : t = AfterFrame(f.base, frame, quality)
  <2>1. f.base.work.kind = "none"
    BY <1>1, <1>2, <1>6 DEF FlightSound
  <2>2. f.base.phase # "paused"
    BY <1>1, <1>2, <1>6 DEF FlightFits
  <2> QED
    BY <1>3, <1>6, <2>1, <2>2, FrameSound
<1>7. CASE /\ f.step = "measure"
           /\ \E result : t = AfterMeasure(f.base, result)
  <2>1. f.base.work.kind = "measure"
    BY <1>1, <1>2, <1>7 DEF FlightSound
  <2> QED
    BY <1>3, <1>7, <2>1, MeasuredSound
<1> QED
  BY <1>4, <1>5, <1>6, <1>7 DEF Stored

LEMMA RequestsSound ==
    ASSUME SoundNow, NEW s \in Slots, NEW x, Requests(s, x)
    PROVE  FlightSound(x)
<1>1. Sound(session)
  BY DEF SoundNow
<1>2. CASE x.step = "capture" /\ x.base = session
             /\ session.work.kind = "solve"
  BY <1>1, <1>2 DEF FlightSound
<1>3. CASE x.step = "correct" /\ x.base = Approved(session)
             /\ session.phase = "awaitingApproval"
  BY <1>1, <1>3, ApprovedSound DEF FlightSound
<1>4. CASE x.step = "frame" /\ x.base = session
             /\ session.phase = "completed"
  <2>1. session.work.kind = "none"
    BY <1>1, <1>4 DEF Sound, ValidPhase
  <2> QED
    BY <1>1, <1>4, <2>1 DEF FlightSound
<1>5. CASE x.step = "measure" /\ x.base = Scheduled(session)
             /\ session.phase = "polarGuidance"
  BY <1>1, <1>5, ScheduledSound DEF FlightSound
<1> QED
  BY <1>2, <1>3, <1>4, <1>5 DEF Requests

LEMMA CorrectsSound ==
    ASSUME SoundNow, NEW s \in Slots, NEW x, Corrects(s, x)
    PROVE  FlightSound(x)
<1> DEFINE f == flight[s]
           o == outcomes[f.base.work.id]
<1>1. f # Idle
  BY DEF Corrects, Idle
<1>2. Sound(f.base) /\ f.base.work.kind = "solve"
  BY <1>1 DEF SoundNow, FlightSound, Corrects
<1>3. Sound(AfterCapture(f.base, o.result, o.at))
  BY <1>2, CaptureSound
<1> QED
  BY <1>3 DEF FlightSound, Corrects, Solved

LEMMA PutSound ==
    ASSUME SoundNow, NEW s \in Slots, NEW x, FlightSound(x), Put(s, x),
           Sound(session')
    PROVE  SoundNow'
BY DEF SoundNow, Put

LEMMA SoundStep ==
    ASSUME Solid, SoundNow, [Next]_vars
    PROVE  SoundNow'
<1>1. CASE SessionCommands
  BY <1>1, CommandSound, CommandKeeps DEF SoundNow
<1>2. CASE Around \/ UNCHANGED vars
  BY <1>2 DEF SoundNow, Around, vars
<1>3. ASSUME NEW s \in Slots, NEW c, RequestCommands(s, c)
      PROVE  SoundNow'
  <2>1. PICK x : Requests(s, x)
    BY <1>3, LeaveFacts
  <2>2. Put(s, x) /\ session' = session
    BY <1>3, <2>1, LeaveFacts DEF Requests
  <2>3. Sound(session')
    BY <2>2 DEF SoundNow
  <2> QED
    BY <2>1, <2>2, <2>3, RequestsSound, PutSound
<1>4. ASSUME NEW s \in Slots, ProviderCaptures(s) \/ ProviderCorrects(s)
      PROVE  SoundNow'
  <2>1. UNCHANGED <<session, flight>>
    BY <1>4 DEF ProviderCaptures, ProviderCorrects, Works
  <2> QED
    BY <2>1 DEF SoundNow
<1>5. ASSUME NEW s \in Slots, Lands(s)
      PROVE  SoundNow'
  <2>1. CASE \E t : Stored(s, t) /\ Store(s, t)
    <3>1. PICK t : Stored(s, t) /\ Store(s, t)
      BY <2>1
    <3>2. /\ Put(s, Idle)
          /\ \/ session' = t /\ Valid(t)
             \/ session' = session
      BY <3>1, StoredFits, StoreSolid
    <3>3. Sound(session')
      BY <3>1, <3>2, StoredSound DEF SoundNow
    <3> QED
      BY <3>2, <3>3, PutSound DEF FlightSound
  <2>2. CASE /\ \E x : Corrects(s, x)
             /\ UNCHANGED <<session, outcomes, moves, run>>
    <3>1. PICK x : Corrects(s, x)
      BY <2>2
    <3>2. Put(s, x) /\ Sound(session')
      BY <2>2, <3>1 DEF Corrects, SoundNow
    <3> QED
      BY <3>1, <3>2, CorrectsSound, PutSound
  <2> QED
    BY <1>5, <2>1, <2>2, ReturnsFacts
<1>6. ASSUME NEW s \in Slots, Put(s, Idle), UNCHANGED session
      PROVE  SoundNow'
  <2>1. Sound(session')
    BY <1>6 DEF SoundNow
  <2> QED
    BY <1>6, <2>1, PutSound DEF FlightSound
<1> QED
  BY <1>1, <1>2, <1>3, <1>4, <1>5, <1>6, StepCases

LEMMA BareFacts ==
    ASSUME NEW s, s.evidence = <<>>
    PROVE  /\ \A kinds : Places(s, kinds) = {} /\ Of(s, kinds) = {}
           /\ \A kinds : Ids(s, kinds) = {} /\ Newest(s, kinds) = {}
           /\ AcceptedCount(s) = 0
<1>1. DOMAIN s.evidence = {}
  OBVIOUS
<1>2. \A kinds : Places(s, kinds) = {} /\ Of(s, kinds) = {}
  BY <1>1 DEF Places, Of
<1>3. \A kinds : Ids(s, kinds) = {} /\ Newest(s, kinds) = {}
  BY <1>2 DEF Ids, Newest
<1> QED
  BY <1>2, <1>3, FS_EmptySet DEF AcceptedCount

\* A session with no evidence holds what it needs.
Bare(s) ==
    /\ Shaped(s) /\ s.evidence = <<>> /\ Chained(s.series)
    /\ Numbered(s.series)
    /\ \A i \in DOMAIN s.series :
         /\ Made(s.series[i].id, s.revision)
         /\ Last(s.series[i].id.path) # "verification"
         /\ s.series[i].done = <<>> /\ s.series[i].verifies = NoAttempt
         /\ s.series[i].purpose # "operatorRecovery"
    /\ Len(s.series) <= 1
    /\ Method = "lunar" => Len(s.series) = 1

LEMMA BareGround ==
    ASSUME NEW s, Bare(s)
    PROVE  Ground(s)
<1>1. /\ \A kinds : Places(s, kinds) = {} /\ Of(s, kinds) = {}
      /\ \A kinds : Ids(s, kinds) = {} /\ Newest(s, kinds) = {}
      /\ AcceptedCount(s) = 0 /\ DOMAIN s.evidence = {}
  BY BareFacts DEF Bare
<1>2. Rooted(s) /\ Derived(s) /\ Referred(s)
  BY <1>1 DEF Bare, Rooted, Derived, Referred
<1>3. Distinct(s)
  BY <1>1 DEF Distinct
<1>4. Indexed(s)
  <2>1. \A i \in DOMAIN s.series : Indexes(s.series[i], s)
    BY <1>1, IndexesNone DEF Bare
  <2> QED
    BY <2>1 DEF Indexed
<1>5. RecoveryCount(s.series) = 0
  <2>1. {i \in DOMAIN s.series : s.series[i].purpose = "operatorRecovery"}
          = {}
    BY DEF Bare
  <2> QED
    BY <2>1, FS_EmptySet DEF RecoveryCount
<1>6. Spent(s)
  <2>1. /\ MaxAttempts \in Nat /\ MaxRecoveries \in Nat
        /\ MaxCorrections \in Nat
    BY ConstantsAssumption
  <2>2. Len(<<>>) = 0
    OBVIOUS
  <2>3. Len(s.series) \in Nat
    BY ChainFacts DEF Bare
  <2>4. \A i \in DOMAIN s.series : Len(s.series[i].done) <= MaxAttempts
    BY <2>1, <2>2 DEF Bare
  <2>5. Len(s.series) <= 1 + RecoveryCount(s.series) + AcceptedCount(s)
    BY <1>1, <1>5, <2>3 DEF Bare
  <2> QED
    BY <1>1, <1>5, <2>1, <2>4, <2>5 DEF Bare, Spent
<1> QED
  BY <1>2, <1>3, <1>4, <1>6 DEF Ground, Bare

LEMMA InitialMade ==
    /\ \A n \in Nat : Made(Initial, n)
    /\ Last(Initial.path) = "initial-1" /\ Identity(Initial)
<1> DEFINE p == <<"initial-1">>
<1>1. p \in Seq({"initial-1"}) /\ Len(p) = 1 /\ p[1] = "initial-1"
      /\ DOMAIN p = {1}
  OBVIOUS
<1>2. Within(p) = {"initial-1"}
  BY <1>1 DEF Within
<1>3. Initial = [root |-> 0, path |-> p]
  BY DEF Initial
<1> HIDE DEF p
<1>4. Identity(Initial) /\ Last(Initial.path) = "initial-1"
  BY <1>1, <1>2, <1>3 DEF Identity, IdFields, IsSequence, Last
<1>5. Initial.root = 0 /\ Initial.path = p
  BY <1>3
<1>6. Len(Initial.path) >= 1
  BY <1>1, <1>5
<1> QED
  BY <1>4, <1>5, <1>6 DEF Made

LEMMA PolarInit ==
    ASSUME Init, Solid, Method = "polar"
    PROVE  Sound(session)
<1>1. session = PolarSession(Policy)
  BY DEF Init, Policy
<1>2. /\ session.evidence = <<>> /\ session.work = NoWork
      /\ session.phase = "polarGuidance"
      /\ session.series = <<>> /\ session.proposal = NoProposal
      /\ session.latest = NoAttempt /\ session.approved = NoAttempt
  BY <1>1 DEF PolarSession
<1>3. Shaped(session)
  BY DEF Solid, SessionFits
<1>4. DOMAIN session.series = {} /\ Len(session.series) = 0
  BY <1>2
<1>5. Chained(session.series)
  BY <1>2, <1>4 DEF Chained, IsSequence, Within
<1>6. Bare(session)
  BY <1>2, <1>3, <1>4, <1>5 DEF Bare, Numbered
<1>7. Ground(session)
  BY <1>6, BareGround
<1>8. Owes(session)
  BY <1>2, BareFacts DEF Owes
<1>9. ValidPolar(session)
  BY <1>2 DEF ValidPolar
<1> QED
  BY <1>2, <1>3, <1>7, <1>8, <1>9, SoundAtRest DEF Shaped

LEMMA TargetInit ==
    ASSUME Init, Solid, Method # "polar"
    PROVE  Sound(session)
<1> DEFINE x == Series(Initial, "initial", "asPlanned", NoAttempt)
           q == <<x>>
           w == SolveWork(Initial, Initial, "initial", NoAttempt)
<1>1. /\ SeriesShaped(x) /\ x.done = <<>> /\ Len(x.done) = 0
      /\ x.id = Initial /\ x.purpose = "initial"
      /\ x.verifies = NoAttempt
  BY NewSeries
<1>2. /\ SolveShaped(w) /\ w.kind = "solve" /\ w.id = Initial
      /\ w.series = Initial /\ w.number = 1 /\ w.verifies = NoAttempt
  BY InitialMade, NewAttempt
<1>3. session = [PolarSession(Policy) EXCEPT
                   !.method = Method, !.phase = "solving", !.series = q,
                   !.work = w]
  BY DEF Init, TargetAcquisitionSession, Policy
<1> HIDE DEF x, w
<1>4. /\ q \in Seq({x}) /\ Len(q) = 1 /\ DOMAIN q = {1} /\ q[1] = x
      /\ q # <<>>
  OBVIOUS
<1> HIDE DEF q
<1>5. /\ session.revision = 0 /\ session.evidence = <<>>
      /\ session.phase = "solving" /\ session.series = q
      /\ session.work = w /\ session.proposal = NoProposal
      /\ session.latest = NoAttempt /\ session.approved = NoAttempt
  BY <1>3 DEF PolarSession
<1>6. Shaped(session)
  BY DEF Solid, SessionFits
<1>7. Chained(session.series)
  <2>1. Within(q) = {x}
    BY <1>4 DEF Within
  <2> QED
    BY <1>1, <1>4, <1>5, <2>1 DEF Chained, IsSequence
<1>8. Made(Initial, session.revision)
  BY <1>5, InitialMade
<1>9. Bare(session)
  <2>1. \A i \in DOMAIN session.series : i = 1 /\ session.series[i] = x
    BY <1>4, <1>5
  <2>2. Numbered(session.series)
    BY <2>1 DEF Numbered
  <2>3. \A i \in DOMAIN session.series :
          /\ Made(session.series[i].id, session.revision)
          /\ Last(session.series[i].id.path) # "verification"
          /\ session.series[i].done = <<>>
          /\ session.series[i].verifies = NoAttempt
          /\ session.series[i].purpose # "operatorRecovery"
    BY <1>1, <1>8, <2>1, InitialMade
  <2>4. Len(session.series) = 1
    BY <1>4, <1>5
  <2> QED
    BY <1>5, <1>6, <1>7, <2>2, <2>3, <2>4 DEF Bare
<1>10. Ground(session)
  BY <1>9, BareGround
<1>11. /\ \A kinds : Ids(session, kinds) = {}
  BY <1>5, BareFacts
<1>12. Owes(session)
  BY <1>5, <1>11 DEF Owes
<1>13. ValidPolar(session)
  BY <1>5 DEF ValidPolar
<1>14. AttemptOf(session, w)
  <2>1. w.number = Len(x.done) + 1
    BY <1>1, <1>2
  <2>2. 1 \in DOMAIN session.series /\ session.series[1] = x
    BY <1>4, <1>5
  <2> QED
    BY <1>1, <1>2, <1>11, <2>1, <2>2 DEF AttemptOf
<1>15. w.number <= MaxAttempts
  BY <1>2, ConstantsAssumption
<1>16. SolveDerived(w.id, session)
  BY <1>2, InitialMade DEF SolveDerived
<1>17. session.method = Method /\ session.series # <<>>
  BY <1>4, <1>5, <1>6 DEF Shaped
<1> QED
  BY <1>2, <1>5, <1>8, <1>10, <1>12, <1>13, <1>14, <1>15, <1>16, <1>17,
     SoundSolving

LEMMA SoundInit ==
    ASSUME Init
    PROVE  SoundNow
<1>1. Sound(session)
  BY SolidInit, PolarInit, TargetInit
<1>2. \A r \in Slots : flight[r] = Idle
  BY DEF Init
<1> QED
  BY <1>1, <1>2 DEF SoundNow, FlightSound

-----------------------------------------------------------------------------
(* A sound session can record its next answer and open its recovery.       *)

LEMMA SoundRecords ==
    ASSUME Solid, SoundNow
    PROVE  AnswersAreRecordable
<1>1. DOMAIN flight = Slots
  BY DEF Solid
<1>2. ASSUME NEW s \in DOMAIN flight
      PROVE  LET base == flight[s].base
             IN CASE flight[s].step = "capture" ->
                       \A result \in AllResults :
                         Valid(AfterCapture(base, result, clock))
                  [] flight[s].step = "correct" ->
                       \A answer \in Corrections :
                         Valid(AfterCorrection(base, answer))
                  [] flight[s].step = "measure" ->
                       \A result \in AllResults :
                         Valid(AfterMeasure(base, result))
                  [] OTHER -> TRUE
  <2> DEFINE f == flight[s]
  <2>1. FlightSound(f)
    BY <1>1 DEF SoundNow
  <2>2. f.step # "idle" => f # Idle
    BY DEF Idle
  <2> HIDE DEF f
  <2>3. CASE f.step = "capture"
    <3>1. Sound(f.base) /\ f.base.work.kind = "solve"
      BY <2>1, <2>2, <2>3 DEF FlightSound
    <3>2. \A result : Valid(AfterCapture(f.base, result, clock))
      BY <3>1, CaptureSound, SoundValid
    <3> QED
      BY <2>3, <3>2 DEF f
  <2>4. CASE f.step = "correct"
    <3>1. Sound(f.base) /\ f.base.work.kind = "correct"
      BY <2>1, <2>2, <2>4 DEF FlightSound
    <3>2. /\ Valid(AfterCorrection(f.base, "accepted"))
          /\ Valid(AfterCorrection(f.base, "rejected"))
      BY <3>1, AcceptedSound, RejectedSound, SoundValid
    <3>3. \A answer \in Corrections : Valid(AfterCorrection(f.base, answer))
      BY <3>2 DEF Corrections
    <3> QED
      BY <2>4, <3>3 DEF f
  <2>5. CASE f.step = "measure"
    <3>1. Sound(f.base) /\ f.base.work.kind = "measure"
      BY <2>1, <2>2, <2>5 DEF FlightSound
    <3>2. \A result : Valid(AfterMeasure(f.base, result))
      BY <3>1, MeasuredSound, SoundValid
    <3> QED
      BY <2>5, <3>2 DEF f
  <2>6. CASE f.step \notin {"capture", "correct", "measure"}
    BY <2>6 DEF f
  <2> QED
    BY <2>3, <2>4, <2>5, <2>6 DEF f
<1> QED
  BY <1>2 DEF AnswersAreRecordable

LEMMA SoundOpens ==
    ASSUME SoundNow
    PROVE  RecoveryOpens
<1>1. Sound(session) /\ session.method = Method /\ Shaped(session)
  BY SoundPhase DEF SoundNow
<1>2. ASSUME NEW parameters, session.method = "deepSky",
             OpensRecovery(session, parameters)
      PROVE  Valid(Recovering(session, parameters))
  <2>1. /\ session.phase = "paused"
        /\ RecoveryCount(session.series) < MaxRecoveries
    BY <1>1, <1>2
    DEF OpensRecovery, RecoveryCount, Recoveries, Shaped, Policy, PolicyOf
  <2> QED
    BY <1>1, <1>2, <2>1, RecoveringSound, SoundValid
<1> QED
  BY <1>2 DEF RecoveryOpens

-----------------------------------------------------------------------------
(* With one request at a time, every image the rig took is one a session   *)
(* recorded or awaits; an aborted session may have left one behind, of a   *)
(* series that had an attempt left.                                        *)

Awaited(s) == IF s.work.kind = "solve" THEN {s.work.id} ELSE {}

Paid(s, images) == images \subseteq Ids(s, ImageKinds) \cup Awaited(s)

Overdrawn(s, images) ==
    /\ \E i \in DOMAIN s.series : Len(s.series[i].done) < MaxAttempts
    /\ \E id : images \subseteq Ids(s, ImageKinds) \cup {id}

Settles(s, images) ==
    Paid(s, images) \/ (s.phase = "aborted" /\ Overdrawn(s, images))

Afforded(s, fl, images) ==
    /\ Settles(s, images)
    /\ \A r \in Slots : Awaits(fl[r]) => Paid(fl[r].base, images)

LEMMA PaidKept ==
    ASSUME NEW s, NEW t, NEW images, Paid(s, images),
           s.work.kind # "solve",
           Ids(s, ImageKinds) \subseteq Ids(t, ImageKinds)
    PROVE  Paid(t, images)
BY DEF Paid, Awaited

LEMMA SolveAffords ==
    ASSUME NEW s, Sound(s), s.work.kind = "solve", NEW images,
           Paid(s, images)
    PROVE  Overdrawn(s, images)
<1>1. s.work.number <= MaxAttempts
  BY DEF Sound, WorkFits
<1>2. PICK i \in DOMAIN s.series : s.work.number = Len(s.series[i].done) + 1
  BY WorkIsAttempt DEF AttemptOf
<1>3. Len(s.series[i].done) \in Nat
  BY <1>2, AppendFacts DEF Sound, Ground, Chained, SeriesShaped
<1>4. Len(s.series[i].done) < MaxAttempts
  BY <1>1, <1>2, <1>3, ConstantsAssumption
<1> QED
  BY <1>4 DEF Overdrawn, Paid, Awaited

LEMMA CommandSeries ==
    ASSUME Shaped(session), SessionCommands
    PROVE  \/ session'.series = session.series
           \/ session.phase = "paused" /\ session'.phase = "solving"
<1>1. CASE RetryPlateSolveWithParameters
  <2>1. PICK p : session.phase = "paused" /\ Commit(Recovering(session, p))
    BY <1>1 DEF RetryPlateSolveWithParameters, OpensRecovery
  <2>2. session' = Recovering(session, p)
    BY <2>1 DEF Commit
  <2>3. Recovering(session, p).phase = "solving"
    BY RecoveryFacts DEF Moved
  <2> QED
    BY <2>1, <2>2, <2>3
<1>2. CASE SkipAcquireTarget \/ AbortAcquire
  <2>1. PICK phase : session' = Ended(phase)
    BY <1>2 DEF SkipAcquireTarget, AbortAcquire, Commit
  <2>2. Ended(phase).series = session.series
    BY AdvanceFacts DEF Ended
  <2> QED
    BY <2>1, <2>2
<1>3. CASE RevisePointingCorrection
  <2>1. PICK v : session' = Revised(session, v)
    BY <1>3 DEF RevisePointingCorrection, Commit
  <2>2. Revised(session, v).series = session.series
    BY AdvanceFacts DEF Revised
  <2> QED
    BY <2>1, <2>2
<1>4. CASE AcceptPolarAlignmentEvidence
  <2>1. session' = PolarAccepted(session)
    BY <1>4 DEF AcceptPolarAlignmentEvidence, Commit
  <2> QED
    BY <2>1, AcceptedHolds DEF Holds
<1>5. CASE \/ StartManagedCapture \/ PauseManagedCapture
           \/ StopManagedCapture \/ RecenterManagedCapture
  <2>1. PICK x : session' = Managed(session, x)
    BY <1>5, ManagedCommands DEF Commit
  <2> QED
    BY <2>1, ManagedHolds DEF Holds
<1> QED
  BY <1>1, <1>2, <1>3, <1>4, <1>5 DEF SessionCommands

LEMMA CommandAffords ==
    ASSUME Solid, Sound(session), SessionCommands, NEW images,
           Settles(session, images)
    PROVE  Settles(session', images)
<1>1. /\ Shaped(session) /\ session.phase \in Phases
      /\ SessionFits(session) /\ ValidPhase(session)
  BY DEF Solid, SessionFits
<1>2. SessionFits(session') /\ CommandStep(session, session')
  BY <1>1, CommandFits
<1>3. \/ session'.series = session.series
      \/ session.phase = "paused" /\ session'.phase = "solving"
  BY <1>1, CommandSeries
<1>4. session'.evidence = session.evidence
  BY <1>2 DEF CommandStep
<1>5. Ids(session', ImageKinds) = Ids(session, ImageKinds)
  BY <1>4, HoldsSame
<1>6. session.work.kind = "solve" <=> session.phase \in {"solving", "verifying"}
  BY SoundPhase
<1>7. session.phase # "aborted" => Paid(session, images)
  BY DEF Settles
<1>9. CASE session.phase \in {"paused", "awaitingApproval"}
  <2>1. Paid(session', images)
    BY <1>5, <1>6, <1>7, <1>9, PaidKept
  <2> QED
    BY <2>1 DEF Settles
<1>10. CASE session'.phase = "aborted"
  <2>1. Overdrawn(session, images) => Overdrawn(session', images)
    BY <1>3, <1>5, <1>10 DEF Overdrawn
  <2>2. CASE session.work.kind = "solve"
    <3>1. session.phase # "aborted"
      BY <1>6, <2>2
    <3> QED
      BY <1>7, <1>10, <2>1, <2>2, <3>1, SolveAffords DEF Settles
  <2>3. CASE session.work.kind # "solve"
    BY <1>5, <1>10, <2>1, <2>3, PaidKept DEF Settles
  <2> QED
    BY <2>2, <2>3
<1>11. CASE Method = "polar"
  <2>1. session.phase \in {"polarGuidance", "completed"}
    BY <1>1, <1>11 DEF Phases
  <2>2. Paid(session', images)
    BY <1>5, <1>6, <1>7, <2>1, PaidKept
  <2> QED
    BY <2>2 DEF Settles
<1>12. CASE session'.phase = session.phase /\ session'.work = session.work
  <2>1. CASE Paid(session, images)
    BY <1>5, <1>12, <2>1 DEF Paid, Awaited, Settles
  <2>2. CASE session.phase = "aborted"
    BY <1>10, <1>12, <2>2
  <2> QED
    BY <2>1, <2>2 DEF Settles
<1> QED
  BY <1>2, <1>9, <1>10, <1>11, <1>12 DEF CommandStep

LEMMA ImagesSame ==
    ASSUME UNCHANGED outcomes
    PROVE  Images' = Images
BY DEF Images

\* What a request computes from what it read, and its images.
LEMMA CaptureAffords ==
    ASSUME Solid, NEW s \in Slots, flight[s].step = "capture",
           NEW images, Paid(flight[s].base, images)
    PROVE  Paid(Solved(s), images)
<1> DEFINE f == flight[s]
<1>1. Ids(Solved(s), ImageKinds) =
        Ids(f.base, ImageKinds) \cup {f.base.work.id}
  BY CaptureStored DEF Imaged
<1> QED
  BY <1>1 DEF Paid, Awaited

LEMMA CorrectionAffords ==
    ASSUME Solid, NEW s \in Slots, flight[s].step = "correct",
           flight[s].base.work.id \in DOMAIN outcomes,
           NEW images, Paid(flight[s].base, images)
    PROVE  Paid(AfterCorrection(flight[s].base,
                  outcomes[flight[s].base.work.id].result), images)
<1> DEFINE f == flight[s]
           t == AfterCorrection(f.base, outcomes[f.base.work.id].result)
<1>1. /\ CorrectionShaped(f.base.work)
      /\ Ids(t, ImageKinds) = Ids(f.base, ImageKinds)
  BY CorrectionStored
<1> HIDE DEF t
<1>2. f.base.work.kind # "solve"
  BY <1>1 DEF CorrectionShaped
<1>3. Paid(t, images)
  BY <1>1, <1>2, PaidKept
<1> QED
  BY <1>3 DEF t

LEMMA StoredAffords ==
    ASSUME Solid, Ordered, SoundNow, NEW s \in Slots, NEW t, Stored(s, t),
           NEW images, Afforded(session, flight, images)
    PROVE  Paid(t, images)
<1> DEFINE f == flight[s]
<1>1. /\ RequestFits(f, session, outcomes, moves)
      /\ Awaits(f) => Paid(f.base, images)
      /\ Settles(session, images)
      /\ SessionFits(session) /\ ValidPhase(session)
      /\ session.phase \in Phases
  BY DEF Ordered, Orderly, Afforded, Solid, SessionFits
<1>2. CASE f.step = "capture" /\ t = Solved(s)
  BY <1>1, <1>2, CaptureAffords DEF Awaits
<1>3. CASE /\ f.step = "correct" /\ f.base.work.id \in DOMAIN outcomes
           /\ t = AfterCorrection(f.base, outcomes[f.base.work.id].result)
  BY <1>1, <1>3, CorrectionAffords DEF Awaits
<1>4. CASE /\ f.step = "frame"
           /\ \E frame, quality : t = AfterFrame(f.base, frame, quality)
  <2>1. session.phase = "completed" /\ f.base.evidence = session.evidence
    BY <1>1, <1>4 DEF RequestFits
  <2>2. Paid(session, images) /\ session.work.kind # "solve"
    BY <1>1, <2>1 DEF Settles, ValidPhase
  <2>3. Ids(t, ImageKinds) = Ids(f.base, ImageKinds)
    BY <1>4, FrameStored
  <2>4. Ids(session, ImageKinds) \subseteq Ids(t, ImageKinds)
    BY <2>1, <2>3, HoldsSame
  <2> QED
    BY <2>2, <2>4, PaidKept
<1>5. CASE /\ f.step = "measure"
           /\ \E result : t = AfterMeasure(f.base, result)
  <2>1. f.base.evidence = session.evidence
    BY <1>1, <1>5 DEF RequestFits
  <2>2. Method = "polar" /\ Extends(t.evidence, f.base.evidence)
    BY <1>5, MeasureStored
  <2>3. session.phase \in {"polarGuidance", "completed"}
    BY <1>1, <2>2 DEF Phases
  <2>4. Paid(session, images) /\ session.work.kind # "solve"
    BY <1>1, <2>3 DEF Settles, ValidPhase
  <2>5. Ids(session, ImageKinds) \subseteq Ids(t, ImageKinds)
    BY <2>1, <2>2, ExtendsFacts
  <2> QED
    BY <2>4, <2>5, PaidKept
<1> QED
  BY <1>2, <1>3, <1>4, <1>5 DEF Stored

LEMMA RequestsAfford ==
    ASSUME Solid, NEW s \in Slots, NEW x, Requests(s, x), Awaits(x),
           NEW images, Settles(session, images)
    PROVE  Paid(x.base, images)
<1>1. Shaped(session) /\ ValidPhase(session)
  BY DEF Solid, SessionFits
<1>2. CASE x.base = session /\ session.work.kind = "solve"
  <2>1. session.phase # "aborted"
    BY <1>1, <1>2 DEF ValidPhase
  <2> QED
    BY <1>2, <2>1 DEF Settles
<1>3. CASE x.base = Approved(session) /\ session.phase = "awaitingApproval"
  <2>1. Paid(session, images) /\ session.work.kind # "solve"
    BY <1>1, <1>3 DEF Settles, ValidPhase
  <2>2. Approved(session).evidence = session.evidence
    BY <1>1, ApprovalFacts DEF Moved
  <2>3. Ids(session, ImageKinds) \subseteq
          Ids(Approved(session), ImageKinds)
    BY <2>2, HoldsSame
  <2> QED
    BY <1>3, <2>1, <2>3, PaidKept
<1> QED
  BY <1>2, <1>3 DEF Requests, Awaits

LEMMA WorksAfford ==
    ASSUME One, Solid, NEW s \in Slots,
           ProviderCaptures(s) \/ ProviderCorrects(s),
           Afforded(session, flight, Images)
    PROVE  Afforded(session', flight', Images')
<1> DEFINE id == flight[s].base.work.id
<1>0. \A r \in Slots : r = s
  BY DEF One
<1>1. CASE ProviderCaptures(s)
  <2>1. /\ flight[s].step = "capture" /\ session.work = flight[s].base.work
        /\ id \notin DOMAIN outcomes
    BY <1>1 DEF ProviderCaptures
  <2>2. PICK result, moved : Works(id, result, moved)
    BY <1>1 DEF ProviderCaptures
  <2>3. Answers(id, moves + moved)
    BY <2>1, <2>2, WorksFacts
  <2>4. Images' \subseteq Images \cup {id}
    BY <2>3 DEF Answers, Images
  <2>5. flight[s].base.work.kind = "solve"
    BY <2>1, CaptureStored
  <2>6. session.phase # "aborted"
    BY <2>1, <2>5 DEF Solid, SessionFits, ValidPhase
  <2>7. Paid(session, Images) /\ Paid(flight[s].base, Images)
    BY <2>1, <2>6 DEF Afforded, Settles, Awaits
  <2>8. Paid(session, Images') /\ Paid(flight[s].base, Images')
    BY <2>1, <2>4, <2>5, <2>7 DEF Paid, Awaited
  <2>9. session' = session /\ flight' = flight
    BY <2>3 DEF Answers
  <2> QED
    BY <1>0, <2>8, <2>9 DEF Afforded, Settles
<1>2. CASE ProviderCorrects(s)
  <2>1. id \notin DOMAIN outcomes
    BY <1>2 DEF ProviderCorrects
  <2>2. Works(id, "accepted", 1) \/ Works(id, "rejected", 0)
    BY <1>2 DEF ProviderCorrects
  <2>3. PICK m : Answers(id, m) /\ outcomes'[id].result \notin AllResults
    <3>1. \/ Answers(id, moves + 1) /\ outcomes'[id].result = "accepted"
          \/ Answers(id, moves + 0) /\ outcomes'[id].result = "rejected"
      BY <2>1, <2>2, WorksFacts
    <3> QED
      BY <3>1 DEF AllResults, NoSolution, Correctable
  <2>4. Images' = Images
    BY <2>3 DEF Answers, Images
  <2>5. session' = session /\ flight' = flight
    BY <2>3 DEF Answers
  <2> QED
    BY <2>4, <2>5
<1> QED
  BY <1>1, <1>2

LEMMA PutAffords ==
    ASSUME One, NEW s \in Slots, NEW x, Put(s, x), NEW images,
           Settles(session', images), Awaits(x) => Paid(x.base, images)
    PROVE  Afforded(session', flight', images)
BY DEF One, Put, Afforded

LEMMA BudgetStep ==
    ASSUME One, Solid, Ordered, SoundNow, [Next]_vars,
           Afforded(session, flight, Images)
    PROVE  Afforded(session', flight', Images')
<1>0. ~Awaits(Idle) /\ Settles(session, Images)
  BY DEF Awaits, Idle, Afforded
<1>1. CASE SessionCommands
  <2>1. Settles(session', Images)
    BY <1>0, <1>1, CommandAffords DEF SoundNow
  <2> QED
    BY <1>1, <2>1, CommandKeeps, ImagesSame DEF Afforded
<1>2. CASE Around \/ UNCHANGED vars
  BY <1>2, ImagesSame DEF Around, vars
<1>3. ASSUME NEW s \in Slots, NEW c, RequestCommands(s, c)
      PROVE  Afforded(session', flight', Images')
  <2>1. PICK x : Requests(s, x)
    BY <1>3, LeaveFacts
  <2>2. /\ Put(s, x) /\ session' = session /\ Images' = Images
    BY <1>3, <2>1, LeaveFacts, ImagesSame DEF Requests
  <2>3. Awaits(x) => Paid(x.base, Images)
    BY <1>0, <2>1, RequestsAfford
  <2> QED
    BY <1>0, <2>2, <2>3, PutAffords
<1>4. ASSUME NEW s \in Slots, ProviderCaptures(s) \/ ProviderCorrects(s)
      PROVE  Afforded(session', flight', Images')
  BY <1>4, WorksAfford
<1>5. ASSUME NEW s \in Slots, Lands(s)
      PROVE  Afforded(session', flight', Images')
  <2>1. CASE \E t : Stored(s, t) /\ Store(s, t)
    <3>1. PICK t : Stored(s, t) /\ Store(s, t)
      BY <2>1
    <3>2. /\ Put(s, Idle)
          /\ UNCHANGED outcomes
          /\ \/ session' = t /\ Valid(t)
             \/ session' = session
      BY <3>1, StoredFits, StoreSolid
    <3>3. Paid(t, Images)
      BY <3>1, StoredAffords
    <3>4. Settles(session', Images)
      BY <1>0, <3>2, <3>3 DEF Settles
    <3> QED
      BY <1>0, <3>2, <3>4, PutAffords, ImagesSame
  <2>2. CASE /\ \E x : Corrects(s, x)
             /\ UNCHANGED <<session, outcomes, moves, run>>
    <3>1. PICK x : Corrects(s, x)
      BY <2>2
    <3>2. /\ Put(s, x) /\ session' = session /\ Images' = Images
          /\ flight[s].step = "capture" /\ x.base = Solved(s)
      BY <2>2, <3>1, ImagesSame DEF Corrects
    <3>3. Paid(x.base, Images)
      BY <3>2, CaptureAffords DEF Afforded, Awaits
    <3> QED
      BY <1>0, <3>2, <3>3, PutAffords
  <2> QED
    BY <1>5, <2>1, <2>2, ReturnsFacts
<1>6. ASSUME NEW s \in Slots, Put(s, Idle), UNCHANGED <<session, outcomes>>
      PROVE  Afforded(session', flight', Images')
  BY <1>0, <1>6, PutAffords, ImagesSame
<1> QED
  BY <1>1, <1>2, <1>3, <1>4, <1>5, <1>6, StepCases

LEMMA BudgetInit ==
    ASSUME Init
    PROVE  Afforded(session, flight, Images)
<1>1. Images = {}
  BY DEF Init, Images
<1>2. \A r \in Slots : ~Awaits(flight[r])
  BY DEF Init, Idle, Awaits
<1> QED
  BY <1>1, <1>2 DEF Afforded, Settles, Paid

-----------------------------------------------------------------------------
(* The images of a session are the places of its series, and no more than  *)
(* the policy gives it.                                                    *)

LEMMA ListedPlace ==
    ASSUME NEW s, Shaped(s), NEW x, Indexes(x, s), SeriesShaped(x),
           NEW p \in Listed(x, s)
    PROVE  \E k \in DOMAIN x.done : x.done[k] = s.evidence[p].id
<1> DEFINE L == Listed(x, s)
           U == Upto(L, p)
           k == Cardinality(U)
<1>1. DOMAIN s.evidence = 1 .. Len(s.evidence) /\ Len(s.evidence) \in Nat
  BY AppendFacts DEF Shaped
<1>2. IsFiniteSet(1 .. Len(s.evidence))
  BY <1>1, FS_Interval
<1>3. L \in SUBSET (1 .. Len(s.evidence))
  BY <1>1 DEF Listed
<1>4. p \in L /\ p \in Nat
  BY <1>1, <1>3
<1> HIDE DEF L
<1>5. IsFiniteSet(L) /\ U \in SUBSET L /\ p \in U
  <2>1. IsFiniteSet(L)
    BY <1>2, <1>3, FS_Subset
  <2>2. U \in SUBSET L
    BY DEF Upto
  <2>3. p \in U
    BY <1>4 DEF Upto
  <2> QED
    BY <2>1, <2>2, <2>3
<1> HIDE DEF U
<1>6. IsFiniteSet(U) /\ Cardinality(U) <= Cardinality(L) /\ U # {}
  BY <1>5, FS_Subset
<1>7. /\ Cardinality(U) \in Nat /\ Cardinality(L) \in Nat
      /\ Cardinality(U) # 0
  BY <1>5, <1>6, FS_CardinalityType, FS_EmptySet
<1>8. Len(x.done) = Cardinality(L) /\ x.done[k] = s.evidence[p].id
  BY <1>4, IndexesFacts DEF L, U
<1>9. DOMAIN x.done = 1 .. Len(x.done)
  BY AppendFacts DEF SeriesShaped
<1>10. k \in DOMAIN x.done
  BY <1>6, <1>7, <1>8, <1>9
<1> QED
  BY <1>8, <1>10

LEMMA ImagesAreListed ==
    ASSUME NEW s, Ground(s), NEW id \in Ids(s, ImageKinds)
    PROVE  \E i \in DOMAIN s.series :
             \E k \in DOMAIN s.series[i].done : s.series[i].done[k] = id
<1>1. PICK p \in Places(s, ImageKinds) : s.evidence[p].id = id
  BY DEF Ids, Of
<1>2. p \in DOMAIN s.evidence /\ s.evidence[p].kind \in ImageKinds
  BY DEF Places
<1>3. Shaped(s) /\ s.method = Method
  BY DEF Ground, Shaped
<1>4. \E i \in DOMAIN s.series : p \in Listed(s.series[i], s)
  <2>1. CASE Method = "lunar"
    <3>1. Len(s.series) = 1 /\ DOMAIN s.series = 1 .. Len(s.series)
      BY <2>1, ChainFacts DEF Ground, Spent
    <3>2. 1 \in DOMAIN s.series
      BY <3>1
    <3>3. p \in Listed(s.series[1], s)
      BY <1>2, <1>3, <2>1 DEF Listed, Counted, ImageKinds
    <3> QED
      BY <3>2, <3>3
  <2>2. CASE Method # "lunar"
    <3>1. s.evidence[p].kind = "solve"
      BY <1>2, <2>2 DEF ImageKinds
    <3>2. s.evidence[p] \in Of(s, {"solve"})
      BY <1>2, <3>1 DEF Of, Places
    <3>3. PICK i \in DOMAIN s.series :
            s.series[i].id = s.evidence[p].series
      BY <3>2 DEF Ground, Referred
    <3>4. p \in Listed(s.series[i], s)
      BY <1>2, <1>3, <2>2, <3>1, <3>3 DEF Listed, Counted
    <3> QED
      BY <3>4
  <2> QED
    BY <2>1, <2>2
<1>5. PICK i \in DOMAIN s.series : p \in Listed(s.series[i], s)
  BY <1>4
<1>6. Indexes(s.series[i], s) /\ SeriesShaped(s.series[i])
  BY DEF Ground, Indexed, Chained
<1>7. \E k \in DOMAIN s.series[i].done :
        s.series[i].done[k] = s.evidence[p].id
  BY <1>3, <1>5, <1>6, ListedPlace
<1> QED
  BY <1>1, <1>7

Budget == 1 + MaxRecoveries + MaxCorrections

LEMMA SeriesWithin ==
    ASSUME NEW s, Ground(s)
    PROVE  /\ Budget \in Nat /\ MaxAttempts \in Nat
           /\ DOMAIN s.series \subseteq 1 .. Budget
           /\ \A i \in DOMAIN s.series :
                /\ DOMAIN s.series[i].done = 1 .. Len(s.series[i].done)
                /\ Len(s.series[i].done) \in Nat
                /\ Len(s.series[i].done) <= MaxAttempts
<1>1. /\ MaxAttempts \in Nat /\ MaxRecoveries \in Nat
      /\ MaxCorrections \in Nat
  BY ConstantsAssumption
<1>2. /\ Len(s.series) \in Nat /\ DOMAIN s.series = 1 .. Len(s.series)
      /\ RecoveryCount(s.series) \in Nat
  BY ChainFacts DEF Ground
<1>3. AcceptedCount(s) \in Nat
  BY PlacesFinite DEF Ground, AcceptedCount
<1>4. /\ RecoveryCount(s.series) <= MaxRecoveries
      /\ AcceptedCount(s) <= MaxCorrections
      /\ Len(s.series) <= 1 + RecoveryCount(s.series) + AcceptedCount(s)
      /\ \A i \in DOMAIN s.series : Len(s.series[i].done) <= MaxAttempts
  BY DEF Ground, Spent
<1>5. Len(s.series) <= Budget /\ Budget \in Nat
  BY <1>1, <1>2, <1>3, <1>4 DEF Budget
<1>6. DOMAIN s.series \subseteq 1 .. Budget
  BY <1>2, <1>5
<1>7. ASSUME NEW i \in DOMAIN s.series
      PROVE  /\ DOMAIN s.series[i].done = 1 .. Len(s.series[i].done)
             /\ Len(s.series[i].done) \in Nat
  <2>1. IsSequence(s.series[i].done)
    BY DEF Ground, Chained, SeriesShaped
  <2> QED
    BY <2>1, AppendFacts
<1> QED
  BY <1>1, <1>4, <1>5, <1>6, <1>7

LEMMA WithinBudget ==
    ASSUME NEW s, Ground(s), NEW images, NEW y,
           images \subseteq Ids(s, ImageKinds) \cup {y},
           \/ images \subseteq Ids(s, ImageKinds)
           \/ \E i \in DOMAIN s.series :
                Len(s.series[i].done) < MaxAttempts
    PROVE  Cardinality(images) <= MaxAttempts * Budget
<1> DEFINE A == MaxAttempts
           B == Budget
           P == (1 .. A) \X (1 .. B)
           Told2(p) == p[2] \in DOMAIN s.series
                         /\ p[1] \in DOMAIN s.series[p[2]].done
           g == [p \in P |-> IF Told2(p) THEN s.series[p[2]].done[p[1]]
                                         ELSE y]
           T == {g[p] : p \in P}
<1>1. /\ B \in Nat /\ A \in Nat
      /\ DOMAIN s.series \subseteq 1 .. B
      /\ \A i \in DOMAIN s.series :
           /\ DOMAIN s.series[i].done = 1 .. Len(s.series[i].done)
           /\ Len(s.series[i].done) \in Nat
           /\ Len(s.series[i].done) <= A
  BY SeriesWithin
<1> HIDE DEF A, B
<1>2. IsFiniteSet(P) /\ Cardinality(P) = A * B
  <2>1. /\ IsFiniteSet(1 .. A) /\ Cardinality(1 .. A) = A
        /\ IsFiniteSet(1 .. B) /\ Cardinality(1 .. B) = B
    <3>1. ASSUME NEW n \in Nat
          PROVE  IsFiniteSet(1 .. n) /\ Cardinality(1 .. n) = n
      <4>1. /\ IsFiniteSet(1 .. n)
            /\ Cardinality(1 .. n) = IF 1 > n THEN 0 ELSE n - 1 + 1
        BY FS_Interval
      <4> QED
        BY <4>1
    <3> QED
      BY <1>1, <3>1
  <2> QED
    BY <2>1, FS_Product
<1>3. ASSUME NEW i \in DOMAIN s.series, NEW k \in DOMAIN s.series[i].done
      PROVE  s.series[i].done[k] \in T
  <2>1. <<k, i>> \in P
    BY <1>1
  <2>2. g[<<k, i>>] = s.series[i].done[k]
    BY <2>1
  <2> QED
    BY <2>1, <2>2
<1>4. ASSUME NEW i \in DOMAIN s.series, Len(s.series[i].done) < A
      PROVE  y \in T
  <2> DEFINE k == Len(s.series[i].done) + 1
  <2>1. k \in 1 .. A /\ i \in 1 .. B /\ k \notin DOMAIN s.series[i].done
    BY <1>1, <1>4
  <2>2. <<k, i>> \in P
    BY <2>1
  <2>3. g[<<k, i>>] = y
    BY <2>1, <2>2
  <2> QED
    BY <2>2, <2>3
<1>5. images \subseteq T
  <2>1. Ids(s, ImageKinds) \subseteq T
    BY <1>3, ImagesAreListed
  <2> QED
    BY <1>4, <2>1 DEF A
<1>6. g \in Surjection(P, T)
  BY DEF Surjection
<1> HIDE DEF P, g, T
<1>7. IsFiniteSet(T) /\ Cardinality(T) <= A * B
  BY <1>2, <1>6, FS_Surjection
<1>8. /\ IsFiniteSet(images) /\ Cardinality(images) <= Cardinality(T)
      /\ Cardinality(images) \in Nat /\ Cardinality(T) \in Nat
  BY <1>5, <1>7, FS_Subset, FS_CardinalityType
<1>9. A * B \in Nat
  BY <1>1
<1>10. Cardinality(images) <= A * B
  BY <1>7, <1>8, <1>9
<1> QED
  BY <1>10 DEF A, B

LEMMA AffordedWithin ==
    ASSUME Sound(session), Settles(session, Images)
    PROVE  ImagesWithinBudget
<1>1. Ground(session) /\ Shaped(session)
  BY DEF Sound, Ground
<1>2. \/ \E y : Images \subseteq Ids(session, ImageKinds) \cup {y}
           /\ Images \subseteq Ids(session, ImageKinds)
      \/ Overdrawn(session, Images)
  <2>1. CASE Paid(session, Images) /\ session.work.kind = "solve"
    BY <2>1, SolveAffords
  <2>2. CASE Paid(session, Images) /\ session.work.kind # "solve"
    BY <2>2 DEF Paid, Awaited
  <2> QED
    BY <2>1, <2>2 DEF Settles
<1>3. Cardinality(Images) <= MaxAttempts * Budget
  BY <1>1, <1>2, WithinBudget DEF Overdrawn
<1>4. /\ session.policy.attempts = MaxAttempts
      /\ session.policy.recoveries = MaxRecoveries
      /\ session.policy.corrections = MaxCorrections
  BY <1>1 DEF Shaped, Policy, PolicyOf
<1> QED
  BY <1>3, <1>4 DEF ImagesWithinBudget, Budget

-----------------------------------------------------------------------------
(* The variables around the session keep their shape.                      *)

OutcomeKinds == {"pending", "accepted", "denied"}

Rest ==
    /\ moves \in Nat /\ clock \in Nat
    /\ receipts \in Seq(OutcomeKinds)
    /\ run \in {"acquire", "capture", "stopped"}
    /\ holder \in STRING

LEMMA EntryReplaced ==
    ASSUME NEW S, NEW q \in Seq(S), NEW key, NEW x \in S
    PROVE  [q EXCEPT ![key] = x] \in Seq(S)
<1> DEFINE r == [q EXCEPT ![key] = x]
           n == Len(q)
<1>1. n \in Nat /\ DOMAIN q = 1 .. n /\ \A i \in 1 .. n : q[i] \in S
  OBVIOUS
<1>2. r = [i \in DOMAIN q |-> IF i = key THEN x ELSE q[i]]
  OBVIOUS
<1>3. r = [i \in 1 .. n |-> IF i = key THEN x ELSE q[i]]
  BY <1>1, <1>2
<1> HIDE DEF r, n
<1>4. r \in [1 .. n -> S]
  BY <1>1, <1>3
<1>5. r \in Seq(S)
  BY <1>1, <1>4
<1> QED
  BY <1>5 DEF r

LEMMA AnswerKept ==
    ASSUME receipts \in Seq(OutcomeKinds), NEW key,
           NEW outcome \in OutcomeKinds, Answer(key, outcome)
    PROVE  receipts' \in Seq(OutcomeKinds)
<1>1. Append(receipts, outcome) \in Seq(OutcomeKinds)
  OBVIOUS
<1>2. [receipts EXCEPT ![key] = outcome] \in Seq(OutcomeKinds)
  BY EntryReplaced
<1> QED
  BY <1>1, <1>2 DEF Answer

LEMMA CommitRests ==
    ASSUME Rest, NEW next, Commit(next)
    PROVE  Rest'
<1>1. receipts' \in Seq(OutcomeKinds)
  BY AnswerKept DEF Commit, Rest, OutcomeKinds
<1> QED
  BY <1>1 DEF Commit, Rest

LEMMA CommandRests ==
    ASSUME Rest, SessionCommands \/ DenyOuterTransition
    PROVE  Rest'
<1>1. CASE DenyOuterTransition
  <2>1. receipts' \in Seq(OutcomeKinds)
    BY <1>1, AnswerKept DEF DenyOuterTransition, Rest, OutcomeKinds
  <2> QED
    BY <1>1, <2>1 DEF DenyOuterTransition, Rest
<1>2. CASE SessionCommands
  <2>1. PICK next : Commit(next)
    BY <1>2 DEF SessionCommands, RetryPlateSolveWithParameters,
       SkipAcquireTarget, AbortAcquire, RevisePointingCorrection,
       AcceptPolarAlignmentEvidence, StartManagedCapture,
       PauseManagedCapture, StopManagedCapture, RecenterManagedCapture
  <2> QED
    BY <2>1, CommitRests
<1> QED
  BY <1>1, <1>2

LEMMA LeaveRests ==
    ASSUME Rest, NEW s, NEW c, RequestCommands(s, c)
    PROVE  Rest'
<1>1. /\ UNCHANGED <<moves, run, holder, clock>>
      /\ receipts' = receipts \/ Answer(Len(receipts) + 1, "pending")
  BY DEF RequestCommands, CaptureTargetAcquisitionEvidence,
     ApprovePointingCorrection, RecordLiveFrameEvidence,
     CapturePolarAlignmentMeasurement, Leave
<1>2. receipts' \in Seq(OutcomeKinds)
  BY <1>1, AnswerKept DEF Rest, OutcomeKinds
<1> QED
  BY <1>1, <1>2 DEF Rest

LEMMA StoreRests ==
    ASSUME Rest, NEW s, NEW next, Store(s, next)
    PROVE  Rest'
<1>1. /\ UNCHANGED <<moves, run, holder, clock>>
      /\ receipts' = receipts \/ Answer(flight[s].key, "accepted")
  BY DEF Store
<1>2. receipts' \in Seq(OutcomeKinds)
  BY <1>1, AnswerKept DEF Rest, OutcomeKinds
<1> QED
  BY <1>1, <1>2 DEF Rest

LEMMA ProgressRests ==
    ASSUME Rest, NEW s, Progress(s) \/ RequestEnds(s)
    PROVE  Rest'
<1>1. ASSUME NEW id, NEW result, NEW moved \in Nat, Works(id, result, moved)
      PROVE  Rest'
  BY <1>1 DEF Works, Rest
<1>2. CASE ProviderCaptures(s)
  <2>1. PICK id, result : Works(id, result, 1) \/ Works(id, result, 0)
    BY <1>2 DEF ProviderCaptures
  <2> QED
    BY <1>1, <2>1
<1>3. CASE ProviderCorrects(s)
  BY <1>1, <1>3 DEF ProviderCorrects
<1>4. CASE Lands(s)
  <2>1. \/ \E next : Store(s, next)
        \/ UNCHANGED <<receipts, moves, run, holder, clock>>
    BY <1>4 DEF Lands, CaptureReturns, CorrectionReturns, FrameReturns,
                MeasureReturns
  <2> QED
    BY <2>1, StoreRests DEF Rest
<1>5. CASE RequestEnds(s)
  BY <1>5 DEF RequestEnds, Rest
<1> QED
  BY <1>2, <1>3, <1>4, <1>5 DEF Progress, Lands

LEMMA RestStep ==
    ASSUME Rest, [Next]_vars
    PROVE  Rest'
<1>1. CASE Commands
  BY <1>1, CommandRests, LeaveRests
  DEF Commands, SessionCommands, RequestCommands
<1>2. CASE \E s \in Slots : Progress(s) \/ RequestEnds(s)
  BY <1>2, ProgressRests
<1>3. CASE ContinueCompletedAcquire \/ StopRun
  BY <1>3 DEF ContinueCompletedAcquire, StopRun, Rest
<1>4. CASE TakeControl
  BY <1>4, ConstantsAssumption DEF TakeControl, Rest
<1>5. CASE Tick
  BY <1>5 DEF Tick, Rest
<1>6. CASE UNCHANGED vars
  BY <1>6 DEF vars, Rest
<1> QED
  BY <1>1, <1>2, <1>3, <1>4, <1>5, <1>6 DEF Next

LEMMA RestInit ==
    ASSUME Init
    PROVE  Rest
BY ConstantsAssumption DEF Init, Rest

LEMMA RestTyped ==
    ASSUME Solid, Rest
    PROVE  TypeOK
<1>1. /\ session.revision \in Nat /\ session.phase \in Phases
  BY DEF Solid, SessionFits, Shaped
<1>2. session.phase \in
        {"solving", "correcting", "verifying", "awaitingApproval",
         "polarGuidance", "paused", "skipped", "aborted", "completed"}
  BY <1>1 DEF Phases
<1>3. \A s \in DOMAIN flight : flight[s].step \in
        {"idle", "capture", "correct", "frame", "measure"}
  BY DEF Solid, FlightFits, Idle
<1>4. Within(receipts) \subseteq OutcomeKinds
  BY DEF Rest, Within
<1> QED
  BY <1>1, <1>2, <1>3, <1>4 DEF Rest, TypeOK, OutcomeKinds

-----------------------------------------------------------------------------
(* What the session keeps, whoever is at it.                               *)

SoundInv ==
    /\ Inv /\ SoundNow /\ Rest
    /\ One => Afforded(session, flight, Images)

LEMMA SoundInductive ==
    /\ Init => SoundInv
    /\ SoundInv /\ [Next]_vars => SoundInv'
<1>1. Init => SoundInv
  BY InvInductive, SoundInit, RestInit, BudgetInit DEF SoundInv
<1>2. ASSUME SoundInv, [Next]_vars
      PROVE  SoundInv'
  <2>1. Inv' /\ Solid
    BY <1>2, InvInductive DEF SoundInv, Inv
  <2>2. SoundNow' /\ Rest'
    BY <1>2, <2>1, SoundStep, RestStep DEF SoundInv
  <2>3. ASSUME One
        PROVE  Afforded(session', flight', Images')
    <3>1. Ordered /\ SoundNow /\ Afforded(session, flight, Images)
      BY <1>2, <2>3 DEF SoundInv, Inv, Ordered
    <3> QED
      BY <1>2, <2>1, <2>3, <3>1, BudgetStep
  <2> QED
    BY <2>1, <2>2, <2>3 DEF SoundInv, One, Afforded, Settles
<1> QED
  BY <1>1, <1>2

LEMMA SoundKeeps ==
    ASSUME SoundInv
    PROVE  SessionSound
<1>1. Solid /\ SoundNow /\ Sound(session) /\ Rest
  BY DEF SoundInv, Inv, SoundNow
<1>2. TypeOK /\ AnswersAreRecordable /\ RecoveryOpens
  BY <1>1, RestTyped, SoundRecords, SoundOpens
<1>3. Alone => ImagesWithinBudget
  BY <1>1, AloneIsOne, AffordedWithin DEF SoundInv, Afforded
<1> QED
  BY <1>2, <1>3 DEF SessionSound

(* Whatever the images prove and with any number of requests in flight, no *)
(* sequence of retries, corrections, approvals, recoveries and measurements *)
(* leads to a session that cannot store what its provider answers next     *)
(* (validateAcquireSession), so nothing the rig did is ever refused by the *)
(* schema; a recovery that is offered opens; and a run that serves one      *)
(* request at a time takes no more images than its policy allows.          *)
THEOREM SessionsAreSound == Spec => []SessionSound
BY SoundInductive, SoundKeeps, PTL DEF Spec

-----------------------------------------------------------------------------
(* The page keeps its shape beside a sound session.                        *)

LEMMA ViewOffers ==
    /\ View.offers \subseteq TargetActions
    /\ Unknown.offers \subseteq TargetActions
BY DEF View, Unknown

LEMMA PageTyped ==
    ASSUME PageTypeOK, [ObserveNext]_observeVars
    PROVE  PageTypeOK'
<1>0. MaxLease \in Nat /\ MaxTurns \in Nat /\ MaxLost \in Nat
  BY PageAssumption
<1>1. CASE Deliver \/ Breaks
  BY <1>1, ViewOffers DEF Deliver, Breaks, PageTypeOK, window
<1>2. CASE Render
  BY <1>2 DEF Render, PageTypeOK, AtRest, window
<1>3. CASE Turn
  BY <1>0, <1>3 DEF Turn, PageTypeOK, AtRest, copies
<1>4. CASE Returns
  BY <1>4, ViewOffers DEF Returns, PageTypeOK, AtRest, window
<1>5. CASE Loses
  BY <1>0, <1>5, ViewOffers DEF Loses, PageTypeOK, AtRest, window
<1>6. CASE \E action \in Actions : Press(action)
  BY <1>6 DEF Press, Sent, PageTypeOK, window, copies
<1>7. CASE Reaches
  <2>1. pending'.at \in {"taken", "refused"}
    BY <1>7 DEF Reaches, Taken
  <2> QED
    BY <1>7, <2>1 DEF Reaches, PageTypeOK, window, copies
<1>8. CASE Elsewhere \/ UNCHANGED observeVars
  BY <1>8 DEF Elsewhere, observeVars, pageVars, window, copies, PageTypeOK
<1>9. CASE PassControl
  BY <1>0, <1>9 DEF PassControl, window, copies, PageTypeOK
<1> QED
  BY <1>1, <1>2, <1>3, <1>4, <1>5, <1>6, <1>7, <1>8, <1>9 DEF ObserveNext

LEMMA PageTypedInit ==
    ASSUME ObserveInit
    PROVE  PageTypeOK
<1>1. /\ lease = 0 /\ turns = 0 /\ lost = 0 /\ phone = FALSE
      /\ pending = AtRest /\ snap = View /\ shown = View
  BY DEF ObserveInit
<1>2. MaxLease \in Nat /\ MaxTurns \in Nat /\ MaxLost \in Nat
  BY PageAssumption
<1>3. pending.at = "none"
  BY <1>1 DEF AtRest
<1>4. /\ snap.offers \subseteq TargetActions
      /\ shown.offers \subseteq TargetActions
  BY <1>1, ViewOffers
<1>5. phone \in BOOLEAN
  BY <1>1
<1>6. /\ lease \in 0 .. MaxLease
      /\ turns \in 0 .. MaxTurns /\ lost \in 0 .. MaxLost
  BY <1>1, <1>2
<1> QED
  BY <1>3, <1>4, <1>5, <1>6 DEF PageTypeOK

LEMMA ObserverSteps ==
    ASSUME Solid, [ObserveNext]_observeVars
    PROVE  [Next]_vars
BY ObserveCases DEF PageMoves, OriginMoves, vars

(* Whatever is pressed on the Observe page, by the other client and on     *)
(* other pages, however its snapshots lag and its requests are lost, the   *)
(* session stays one that its schema accepts with whatever its provider     *)
(* answers next, that opens its recovery and that keeps within the budgets *)
(* of its policy, and the page keeps its shape.                            *)
THEOREM ObservedSessionsAreSound == ObserveSpec => []SessionIsSound
<1> DEFINE I == SoundInv /\ PageTypeOK
<1>1. ObserveInit => I
  BY SoundInductive, PageTypedInit DEF ObserveInit
<1>2. ASSUME I, [ObserveNext]_observeVars
      PROVE  I'
  <2>1. [Next]_vars
    BY <1>2, ObserverSteps DEF SoundInv, Inv
  <2> QED
    BY <1>2, <2>1, SoundInductive, PageTyped
<1>3. I => SessionIsSound
  BY SoundKeeps DEF SessionIsSound
<1> QED
  BY <1>1, <1>2, <1>3, PTL DEF ObserveSpec

-----------------------------------------------------------------------------
(* What a page is offered its commands' handlers accept.                   *)

Known(s) == \A kinds : Ids(s, kinds) # {} => Newest(s, kinds) # {}

Lasts(p) == p # NoProposal => "expires" \in DOMAIN p /\ p.expires \in Nat

\* What the offers of a session rest on.
Tended(s) ==
    /\ Known(s) /\ Lasts(s.proposal)
    /\ Method = "polar" =>
         /\ s.work.kind = "none" => s.work = NoWork
         /\ Ids(s, {"polar"}) # {} => s.latest # NoAttempt

TendedNow ==
    /\ Tended(session)
    /\ \A r \in Slots : flight[r] # Idle => Tended(flight[r].base)
    /\ \A id \in DOMAIN outcomes : outcomes[id].at \in Nat

LEMMA KnownSame ==
    ASSUME NEW s, Known(s), NEW t, t.evidence = s.evidence
    PROVE  Known(t)
BY SameEvidence DEF Known

LEMMA KnownGrown ==
    ASSUME NEW s, Shaped(s), Known(s), NEW t, NEW e, Grown(s, t, e)
    PROVE  Known(t)
<1>1. t.evidence = Append(s.evidence, e)
  BY DEF Grown
<1>2. ASSUME NEW kinds, Ids(t, kinds) # {}
      PROVE  Newest(t, kinds) # {}
  <2>1. CASE e.kind \in kinds
    <3>1. e \in Newest(t, kinds)
      BY <1>1, <2>1, NewRecorded
    <3> QED
      BY <3>1
  <2>2. CASE e.kind \notin kinds
    <3>1. Newest(t, kinds) = Newest(s, kinds) /\ Ids(t, kinds) = Ids(s, kinds)
      BY <1>1, <2>2, OtherRecorded
    <3> QED
      BY <1>2, <3>1 DEF Known
  <2> QED
    BY <2>1, <2>2
<1> QED
  BY <1>2 DEF Known

LEMMA NoneLasts == Lasts(NoProposal)
BY DEF Lasts

\* A transition by Advance keeps what was known.
LEMMA AdvanceTends ==
    ASSUME NEW s, Shaped(s), Known(s), NEW phase, NEW work, NEW p,
           Lasts(p), Method # "polar"
    PROVE  Tended(Advance(s, phase, work, p))
<1> DEFINE t == Advance(s, phase, work, p)
<1>1. t.evidence = s.evidence /\ t.proposal = p
  BY AdvanceAll DEF Holds
<1> HIDE DEF t
<1>2. Known(t)
  BY <1>1, KnownSame
<1> QED
  BY <1>1, <1>2 DEF Tended, t

\* A polar session that keeps its measurements.
LEMMA HoldsTends ==
    ASSUME NEW s, Tended(s), NEW t, t.evidence = s.evidence,
           t.latest = s.latest, Lasts(t.proposal),
           t.work \in {NoWork, s.work}
    PROVE  Tended(t)
<1>1. Known(t)
  BY KnownSame DEF Tended
<1>2. Ids(t, {"polar"}) = Ids(s, {"polar"})
  BY SameEvidence
<1> QED
  BY <1>1, <1>2 DEF Tended

LEMMA ManagedLeaves ==
    ASSUME NEW s, Shaped(s), NEW x
    PROVE  LET t == Managed(s, x)
           IN /\ t.evidence = s.evidence /\ t.latest = s.latest
              /\ t.proposal = s.proposal /\ t.work = s.work
              /\ t.phase = s.phase /\ t.approved = s.approved
              /\ t.revision = s.revision + 1
BY DEF Managed, Shaped, Fields

LEMMA AcceptedRest ==
    ASSUME NEW s, Shaped(s)
    PROVE  LET t == PolarAccepted(s)
           IN /\ t.latest = s.latest /\ t.approved = s.latest
              /\ t.revision = s.revision + 1
<1> DEFINE r == Advance(s, "completed", NoWork, NoProposal)
           t == [r EXCEPT !.approved = s.latest]
<1>1. PolarAccepted(s) = t
  BY DEF PolarAccepted
<1>2. /\ Shaped(r) /\ r.latest = s.latest
      /\ r.revision = s.revision + 1
  BY AdvanceAll DEF Holds
<1> HIDE DEF r
<1>3. /\ t.latest = r.latest /\ t.approved = s.latest
      /\ t.revision = r.revision
  BY <1>2 DEF Shaped, Fields
<1> HIDE DEF t
<1> QED
  BY <1>1, <1>2, <1>3

LEMMA CommandTends ==
    ASSUME Shaped(session), Tended(session), SessionCommands
    PROVE  Tended(session')
<1>0. Known(session) /\ Lasts(session.proposal)
  BY DEF Tended
<1>1. CASE RetryPlateSolveWithParameters
  <2>1. PICK p : /\ session.method # "polar"
                 /\ session' = Recovering(session, p)
    BY <1>1 DEF RetryPlateSolveWithParameters, Commit
  <2> DEFINE id == Minted(session, "recovery")
             q == Append(session.series,
                         Series(id, "operatorRecovery", p, NoAttempt))
             r == [session EXCEPT !.series = q]
             w == SolveWork(Minted(session, "recovery-solve"), id,
                            "initial", NoAttempt)
  <2>2. Recovering(session, p) = Advance(r, "solving", w, NoProposal)
    BY DEF Recovering
  <2> HIDE DEF q, w
  <2>3. Shaped(r) /\ r.evidence = session.evidence
    BY SeriesAll DEF Beside
  <2> HIDE DEF r
  <2>4. Known(r)
    BY <1>0, <2>3, KnownSame
  <2>5. Method # "polar"
    BY <2>1 DEF Shaped
  <2> QED
    BY <2>1, <2>2, <2>3, <2>4, <2>5, AdvanceTends, NoneLasts
<1>2. CASE SkipAcquireTarget \/ AbortAcquire
  <2>1. PICK phase : session' = Ended(phase)
    BY <1>2 DEF SkipAcquireTarget, AbortAcquire, Commit
  <2>2. /\ session'.evidence = session.evidence
        /\ session'.latest = session.latest
        /\ session'.proposal = NoProposal /\ session'.work = NoWork
    BY <2>1, AdvanceAll DEF Ended, Holds
  <2> QED
    BY <2>2, NoneLasts, HoldsTends
<1>3. CASE RevisePointingCorrection
  <2>1. PICK v : /\ session.proposal # NoProposal
                 /\ session' = Revised(session, v)
    BY <1>3 DEF RevisePointingCorrection, Commit, Approvable
  <2> DEFINE p == [session.proposal EXCEPT
                     !.revision = session.revision + 1,
                     !.id = Suffixed(@, "revision"),
                     !.basis = "operatorRevision",
                     !.vector = v, !.expires = NowEpochMs + 1]
  <2>2. "expires" \in DOMAIN session.proposal
    BY <1>0, <2>1 DEF Lasts
  <2>3. "expires" \in DOMAIN p /\ p.expires = 1
    BY <2>2 DEF NowEpochMs
  <2>4. Revised(session, v) =
          Advance(session, "awaitingApproval", NoWork, p)
    BY DEF Revised
  <2>5. Lasts(p)
    BY <2>3 DEF Lasts
  <2> HIDE DEF p
  <2>6. /\ session'.evidence = session.evidence
        /\ session'.latest = session.latest
        /\ session'.proposal = p /\ session'.work = NoWork
    BY <2>1, <2>4, AdvanceAll DEF Holds
  <2> QED
    BY <2>5, <2>6, HoldsTends
<1>4. CASE AcceptPolarAlignmentEvidence
  <2>1. session' = PolarAccepted(session)
    BY <1>4 DEF AcceptPolarAlignmentEvidence, Commit
  <2>2. /\ session'.evidence = session.evidence
        /\ session'.latest = session.latest
        /\ session'.proposal = NoProposal /\ session'.work = NoWork
    BY <2>1, AcceptedHolds, AcceptedRest DEF Holds
  <2> QED
    BY <2>2, NoneLasts, HoldsTends
<1>5. CASE \/ StartManagedCapture \/ PauseManagedCapture
           \/ StopManagedCapture \/ RecenterManagedCapture
  <2>1. PICK x : session' = Managed(session, x)
    BY <1>5, ManagedCommands DEF Commit
  <2>2. /\ session'.evidence = session.evidence
        /\ session'.latest = session.latest
        /\ session'.proposal = session.proposal
        /\ session'.work = session.work
    BY <2>1, ManagedLeaves
  <2> QED
    BY <1>0, <2>2, HoldsTends
<1> QED
  BY <1>1, <1>2, <1>3, <1>4, <1>5 DEF SessionCommands

\* A solve that is recorded leaves a proposal that lasts.
LEMMA SolveTends ==
    ASSUME NEW s, Shaped(s), Known(s), NEW result, NEW at \in Nat,
           Method # "polar"
    PROVE  Tended(AfterSolve(s, result, at))
<1> DEFINE e == [kind |-> "solve", id |-> s.work.id,
                 series |-> s.work.series, verifies |-> s.work.verifies,
                 result |-> result]
           d == Completes(s, e)
           p == [revision |-> s.revision + 1,
                 id |-> Suffixed(s.work.id, "proposal"),
                 basedOn |-> s.work.id, basis |-> "measuredInverse",
                 vector |-> result, expires |-> at + 1]
           t == AfterSolve(s, result, at)
<1>1. \E phase, work :
        \/ t = Advance(d, phase, work, NoProposal)
        \/ t = Advance(d, phase, work, p)
  BY DEF AfterSolve
<1>2. Lasts(p)
  <2>1. "expires" \in DOMAIN p /\ p.expires = at + 1
    OBVIOUS
  <2> HIDE DEF p
  <2> QED
    BY <2>1 DEF Lasts
<1> HIDE DEF e, p, t
<1>3. Beside(s, d) /\ Grown(s, d, e)
  BY CompletesAll
<1> HIDE DEF d
<1>4. Shaped(d) /\ Known(d)
  BY <1>3, KnownGrown DEF Beside
<1> QED
  BY <1>1, <1>2, <1>4, AdvanceTends, NoneLasts DEF t

LEMMA LimbTends ==
    ASSUME NEW s, Shaped(s), Known(s), NEW result, Method # "polar"
    PROVE  Tended(AfterLimb(s, result))
<1> DEFINE e == [kind |-> "lunar", id |-> s.work.id, result |-> result]
           d == Completes(s, e)
           t == AfterLimb(s, result)
<1>1. \E phase : t = Advance(d, phase, NoWork, NoProposal)
  BY DEF AfterLimb
<1> HIDE DEF e, t
<1>2. Beside(s, d) /\ Grown(s, d, e)
  BY CompletesAll
<1> HIDE DEF d
<1>3. Shaped(d) /\ Known(d)
  BY <1>2, KnownGrown DEF Beside
<1> QED
  BY <1>1, <1>3, AdvanceTends, NoneLasts DEF t

LEMMA CaptureTends ==
    ASSUME NEW s, Shaped(s), Known(s), NEW result, NEW at \in Nat,
           Method # "polar"
    PROVE  Tended(AfterCapture(s, result, at))
<1> DEFINE r == SlewAcknowledged(s)
           e == [kind |-> "slew", id |-> s.work.id]
<1>1. Beside(s, r) /\ (r = s \/ Grown(s, r, e))
  BY SlewAll
<1>2. Shaped(r) /\ Known(r)
  BY <1>1, KnownGrown DEF Beside
<1> HIDE DEF r
<1>3. Tended(AfterLimb(r, result)) /\ Tended(AfterSolve(r, result, at))
  BY <1>2, LimbTends, SolveTends
<1> QED
  BY <1>3 DEF AfterCapture, r

LEMMA CorrectionTends ==
    ASSUME NEW s, Shaped(s), Known(s), NEW answer, Method # "polar"
    PROVE  Tended(AfterCorrection(s, answer))
<1> DEFINE e == [kind |-> answer, id |-> s.work.id,
                 basedOn |-> s.work.basedOn]
           d == Recorded(s, e)
           id == Suffixed(s.work.id, "verification")
           q == Append(d.series,
                       Series(id, "correctionVerification",
                              Last(s.series).parameters, s.work.id))
           r == [d EXCEPT !.series = q]
           w == SolveWork(Suffixed(s.work.id, "verification-1"), id,
                          "verification", s.work.id)
           t == AfterCorrection(s, answer)
<1>1. \/ t = Advance(d, "paused", NoWork, NoProposal)
      \/ t = Advance(r, "verifying", w, NoProposal)
  BY DEF AfterCorrection
<1> HIDE DEF t, e, q, w
<1>2. Beside(s, d) /\ Grown(s, d, e)
  BY RecordAll
<1> HIDE DEF d
<1>3. Shaped(d) /\ Known(d)
  BY <1>2, KnownGrown DEF Beside
<1>4. Shaped(r) /\ r.evidence = d.evidence
  BY <1>3, SeriesAll DEF Beside
<1> HIDE DEF r
<1>5. Known(r)
  BY <1>3, <1>4, KnownSame
<1> QED
  BY <1>1, <1>3, <1>4, <1>5, AdvanceTends, NoneLasts DEF t

LEMMA FrameTends ==
    ASSUME NEW s, Shaped(s), Tended(s), NEW frame, NEW quality,
           Method # "polar"
    PROVE  Tended(AfterFrame(s, frame, quality))
<1> DEFINE e == [kind |-> "frame", id |-> frame, quality |-> quality]
           r == Recorded(s, e)
           t == [r EXCEPT !.revision = @ + 1]
<1>1. AfterFrame(s, frame, quality) = t
  BY DEF AfterFrame
<1> HIDE DEF e
<1>2. Beside(s, r) /\ Grown(s, r, e)
  BY RecordAll
<1> HIDE DEF r
<1>3. Known(r) /\ Shaped(r)
  BY <1>2, KnownGrown DEF Beside, Tended
<1>4. t.evidence = r.evidence /\ t.proposal = r.proposal
  BY <1>3 DEF Shaped, Fields
<1> HIDE DEF t
<1>5. Known(t) /\ t.proposal = s.proposal
  BY <1>2, <1>3, <1>4, KnownSame DEF Beside
<1> QED
  BY <1>1, <1>5 DEF Tended

LEMMA MeasureTends ==
    ASSUME NEW s, Shaped(s), Known(s), Made(s.work.id, s.revision),
           NEW result
    PROVE  Tended(AfterMeasure(s, result))
<1> DEFINE e == [kind |-> "polar", id |-> s.work.id, result |-> result]
           q == Recorded(s, e)
           r == Advance(q, "polarGuidance", NoWork, NoProposal)
           t == [r EXCEPT !.latest = s.work.id]
<1>1. AfterMeasure(s, result) = t
  BY DEF AfterMeasure
<1> HIDE DEF e
<1>2. Beside(s, q) /\ Grown(s, q, e)
  BY RecordAll
<1> HIDE DEF q
<1>3. Known(q) /\ Shaped(q)
  BY <1>2, KnownGrown DEF Beside
<1>4. /\ Shaped(r) /\ r.evidence = q.evidence
      /\ r.work = NoWork /\ r.proposal = NoProposal
  BY <1>3, AdvanceAll DEF Holds
<1> HIDE DEF r
<1>5. /\ t.evidence = r.evidence /\ t.latest = s.work.id
      /\ t.work = r.work /\ t.proposal = r.proposal
  BY <1>4 DEF Shaped, Fields
<1> HIDE DEF t
<1>6. Known(t)
  BY <1>3, <1>4, <1>5, KnownSame
<1>7. s.work.id # NoAttempt
  <2>1. Len(s.work.id.path) >= 1
    BY DEF Made
  <2>2. NoAttempt.path = <<>> /\ Len(<<>>) = 0
    BY DEF NoAttempt
  <2> QED
    BY <2>1, <2>2
<1> QED
  BY <1>1, <1>4, <1>5, <1>6, <1>7, NoneLasts DEF Tended

LEMMA StoredTends ==
    ASSUME Solid, SoundNow, TendedNow, NEW s \in Slots, NEW t, Stored(s, t)
    PROVE  Tended(t)
<1> DEFINE f == flight[s]
           o == outcomes[f.base.work.id]
<1>1. f # Idle
  BY DEF Stored, Idle
<1>2. FlightSound(f) /\ FlightFits(f) /\ Tended(f.base)
  BY <1>1 DEF SoundNow, Solid, TendedNow
<1>3. Sound(f.base) /\ Shaped(f.base) /\ Known(f.base)
  BY <1>1, <1>2, SoundPhase DEF FlightSound, Tended
<1>4. CASE /\ f.step = "capture" /\ f.base.work.id \in DOMAIN outcomes
           /\ t = Solved(s)
  <2>1. o.at \in Nat
    BY <1>4 DEF TendedNow
  <2>2. Method # "polar"
    BY <1>4, CaptureStored
  <2>3. Tended(AfterCapture(f.base, o.result, o.at))
    BY <1>3, <2>1, <2>2, CaptureTends
  <2> QED
    BY <1>4, <2>3 DEF Solved
<1>5. CASE /\ f.step = "correct" /\ f.base.work.id \in DOMAIN outcomes
           /\ t = AfterCorrection(f.base, o.result)
  <2>1. Method # "polar"
    BY <1>5, CorrectionStored
  <2> QED
    BY <1>3, <1>5, <2>1, CorrectionTends
<1>6. CASE /\ f.step = "frame"
           /\ \E frame, quality : t = AfterFrame(f.base, frame, quality)
  <2>1. Method # "polar"
    BY <1>1, <1>2, <1>6 DEF FlightFits
  <2> QED
    BY <1>2, <1>3, <1>6, <2>1, FrameTends
<1>7. CASE /\ f.step = "measure"
           /\ \E result : t = AfterMeasure(f.base, result)
  <2>1. f.base.work.kind = "measure"
    BY <1>1, <1>2, <1>7 DEF FlightSound
  <2>2. Made(f.base.work.id, f.base.revision)
    BY <1>3, <2>1 DEF Sound, WorkFits
  <2> QED
    BY <1>3, <1>7, <2>2, MeasureTends
<1> QED
  BY <1>4, <1>5, <1>6, <1>7 DEF Stored

LEMMA RequestsTend ==
    ASSUME Shaped(session), Tended(session), NEW s \in Slots, NEW x,
           Requests(s, x)
    PROVE  Tended(x.base)
<1>1. CASE x.base = session
  BY <1>1
<1>2. CASE x.base = Approved(session) /\ session.phase = "awaitingApproval"
  <2> DEFINE w == [kind |-> "correct", id |-> Minted(session, "correction"),
                   basedOn |-> session.proposal.basedOn,
                   basis |-> session.proposal.basis,
                   vector |-> session.proposal.vector]
             t == Approved(session)
  <2>1. t = Advance(session, "correcting", w, NoProposal)
    BY DEF Approved
  <2>2. w.kind = "correct"
    OBVIOUS
  <2> HIDE DEF w, t
  <2>3. /\ t.evidence = session.evidence /\ t.latest = session.latest
        /\ t.proposal = NoProposal /\ t.work = w
    BY <2>1, AdvanceAll DEF Holds
  <2>4. Known(t)
    BY <2>3, KnownSame DEF Tended
  <2>5. Ids(t, {"polar"}) = Ids(session, {"polar"})
    BY <2>3, SameEvidence
  <2>6. Tended(t)
    BY <2>2, <2>3, <2>4, <2>5, NoneLasts DEF Tended
  <2> QED
    BY <1>2, <2>6 DEF t
<1>3. CASE x.base = Scheduled(session)
  <2> DEFINE w == [kind |-> "measure", id |-> Minted(session, "polar")]
             t == Scheduled(session)
  <2>1. t = Advance(session, "polarMeasuring", w, NoProposal)
    BY DEF Scheduled
  <2>2. w.kind = "measure"
    OBVIOUS
  <2> HIDE DEF w, t
  <2>3. /\ t.evidence = session.evidence /\ t.latest = session.latest
        /\ t.proposal = NoProposal /\ t.work = w
    BY <2>1, AdvanceAll DEF Holds
  <2>4. Known(t)
    BY <2>3, KnownSame DEF Tended
  <2>5. Ids(t, {"polar"}) = Ids(session, {"polar"})
    BY <2>3, SameEvidence
  <2>6. Tended(t)
    BY <2>2, <2>3, <2>4, <2>5, NoneLasts DEF Tended
  <2> QED
    BY <1>3, <2>6 DEF t
<1> QED
  BY <1>1, <1>2, <1>3 DEF Requests

LEMMA CorrectsTends ==
    ASSUME Solid, SoundNow, TendedNow, NEW s \in Slots, NEW x,
           Corrects(s, x)
    PROVE  Tended(x.base)
<1> DEFINE f == flight[s]
           o == outcomes[f.base.work.id]
<1>1. f # Idle
  BY DEF Corrects, Idle
<1>2. Sound(f.base) /\ Tended(f.base)
  BY <1>1 DEF SoundNow, FlightSound, TendedNow
<1>3. Shaped(f.base) /\ Known(f.base)
  BY <1>2, SoundPhase DEF Tended
<1>4. o.at \in Nat /\ Method # "polar"
  BY CaptureStored DEF Corrects, TendedNow
<1>5. Tended(AfterCapture(f.base, o.result, o.at))
  BY <1>3, <1>4, CaptureTends
<1> QED
  BY <1>5 DEF Corrects, Solved

LEMMA PutTends ==
    ASSUME TendedNow, NEW s \in Slots, NEW x,
           x # Idle => Tended(x.base), Put(s, x), Tended(session'),
           UNCHANGED outcomes
    PROVE  TendedNow'
BY DEF TendedNow, Put

LEMMA WorksTend ==
    ASSUME TendedNow, clock \in Nat, NEW s \in Slots,
           ProviderCaptures(s) \/ ProviderCorrects(s)
    PROVE  TendedNow'
<1>1. ASSUME NEW id, NEW result, NEW moved, Works(id, result, moved)
      PROVE  TendedNow'
  <2>1. UNCHANGED <<session, flight>>
    BY <1>1 DEF Works
  <2>2. \A a \in DOMAIN outcomes' : outcomes'[a].at \in Nat
    BY <1>1 DEF Works, TendedNow
  <2> QED
    BY <2>1, <2>2 DEF TendedNow
<1> QED
  BY <1>1 DEF ProviderCaptures, ProviderCorrects

LEMMA TendedStep ==
    ASSUME Solid, SoundNow, Rest, TendedNow, [Next]_vars
    PROVE  TendedNow'
<1>0. Sound(session) /\ Shaped(session) /\ Tended(session)
  BY SoundPhase DEF SoundNow, TendedNow
<1>1. CASE SessionCommands
  <2>1. Tended(session')
    BY <1>0, <1>1, CommandTends
  <2>2. UNCHANGED <<flight, outcomes>>
    BY <1>1, CommandKeeps
  <2> QED
    BY <2>1, <2>2 DEF TendedNow
<1>2. CASE Around \/ UNCHANGED vars
  BY <1>2 DEF TendedNow, Around, vars
<1>3. ASSUME NEW s \in Slots, NEW c, RequestCommands(s, c)
      PROVE  TendedNow'
  <2>1. PICK x : Requests(s, x)
    BY <1>3, LeaveFacts
  <2>2. Put(s, x) /\ UNCHANGED <<session, outcomes>>
    BY <1>3, <2>1, LeaveFacts DEF Requests
  <2>3. Tended(x.base)
    BY <1>0, <2>1, RequestsTend
  <2> QED
    BY <1>0, <2>2, <2>3, PutTends
<1>4. ASSUME NEW s \in Slots, ProviderCaptures(s) \/ ProviderCorrects(s)
      PROVE  TendedNow'
  BY <1>4, WorksTend DEF Rest
<1>5. ASSUME NEW s \in Slots, Lands(s)
      PROVE  TendedNow'
  <2>1. CASE \E t : Stored(s, t) /\ Store(s, t)
    <3>1. PICK t : Stored(s, t) /\ Store(s, t)
      BY <2>1
    <3>2. /\ Put(s, Idle) /\ UNCHANGED outcomes
          /\ session' = t \/ session' = session
      BY <3>1, StoredFits, StoreSolid
    <3>3. Tended(session')
      BY <1>0, <3>1, <3>2, StoredTends
    <3> QED
      BY <3>2, <3>3, PutTends
  <2>2. CASE /\ \E x : Corrects(s, x)
             /\ UNCHANGED <<session, outcomes, moves, run>>
    <3>1. PICK x : Corrects(s, x)
      BY <2>2
    <3>2. Put(s, x) /\ Tended(x.base)
      BY <3>1, CorrectsTends DEF Corrects
    <3> QED
      BY <1>0, <2>2, <3>2, PutTends
  <2> QED
    BY <1>5, <2>1, <2>2, ReturnsFacts
<1>6. ASSUME NEW s \in Slots, Put(s, Idle), UNCHANGED <<session, outcomes>>
      PROVE  TendedNow'
  BY <1>0, <1>6, PutTends
<1> QED
  BY <1>1, <1>2, <1>3, <1>4, <1>5, <1>6, StepCases

LEMMA TendedInit ==
    ASSUME Init
    PROVE  TendedNow
<1>1. /\ session.evidence = <<>> /\ session.proposal = NoProposal
      /\ Method = "polar" => session.work = NoWork
  BY DEF Init, PolarSession, TargetAcquisitionSession
<1>2. \A kinds : Ids(session, kinds) = {}
  BY <1>1, BareFacts
<1>3. Tended(session)
  BY <1>1, <1>2, NoneLasts DEF Tended, Known
<1>4. /\ \A r \in Slots : flight[r] = Idle
      /\ DOMAIN outcomes = {}
  BY DEF Init
<1> QED
  BY <1>3, <1>4 DEF TendedNow

-----------------------------------------------------------------------------
(* The offers of a session that is sound and tended.                       *)

LEMMA SoundIdle ==
    ASSUME NEW t, Ground(t), t.work.kind = "none", t.proposal = NoProposal,
           t.phase \in {"paused", "skipped", "aborted", "completed",
                        "polarGuidance"},
           (t.method = "polar") <=> (t.series = <<>>),
           ValidPolar(t), Owes(t)
    PROVE  Sound(t)
<1>1. ValidPhase(t)
  BY DEF ValidPhase
<1>2. ValidWork(t)
  BY DEF ValidWork
<1>3. ValidProposal(t)
  BY DEF ValidProposal
<1>4. WorkFits(t)
  BY DEF WorkFits
<1> QED
  BY <1>1, <1>2, <1>3, <1>4 DEF Sound, Owes

\* A session that is set aside is valid.
LEMMA EndedValid ==
    ASSUME NEW s, Sound(s), Method # "polar",
           NEW phase \in {"skipped", "aborted"}
    PROVE  Valid(Advance(s, phase, NoWork, NoProposal))
<1> DEFINE t == Advance(s, phase, NoWork, NoProposal)
<1>1. /\ Ground(s) /\ Shaped(s) /\ s.method = Method
      /\ (s.method = "polar") <=> (s.series = <<>>)
      /\ s.approved = NoAttempt /\ ValidPolar(s)
  BY SoundPhase DEF Sound
<1>2. /\ Holds(s, t) /\ t.phase = phase /\ t.work = NoWork
      /\ t.proposal = NoProposal
      /\ t.latest = s.latest /\ t.approved = s.approved
  BY <1>1, AdvanceAll
<1> HIDE DEF t
<1>3. t.method = Method /\ t.series = s.series
  BY <1>2 DEF Holds, Shaped
<1>4. Ground(t)
  BY <1>1, <1>2, GroundKept
<1>5. /\ \A kinds : Ids(t, kinds) = Ids(s, kinds)
      /\ \A kinds : Newest(t, kinds) = Newest(s, kinds)
  BY <1>2, HoldsSame DEF Holds
<1>6. Owes(t)
  BY <1>2, <1>5 DEF Owes, Sound
<1>7. ValidPolar(t)
  BY <1>1, <1>2, <1>3, <1>5, PolarKept
<1>8. t.work.kind = "none"
  BY <1>2 DEF NoWork
<1>9. Sound(t)
  BY <1>1, <1>2, <1>3, <1>4, <1>6, <1>7, <1>8, SoundIdle
<1> QED
  BY <1>9, SoundValid DEF t

\* A completed session whose capture is managed is valid.
LEMMA ManagedValid ==
    ASSUME NEW s, Sound(s), s.phase = "completed", Method # "polar", NEW x
    PROVE  Valid(Managed(s, x))
<1> DEFINE t == Managed(s, x)
<1>1. /\ Ground(s) /\ Shaped(s) /\ s.method = Method
      /\ (s.method = "polar") <=> (s.series = <<>>)
      /\ s.approved = NoAttempt /\ ValidPolar(s)
      /\ s.proposal = NoProposal
  BY SoundPhase DEF Sound
<1>2. s.work.kind = "none"
  BY DEF Sound, ValidPhase
<1>3. /\ Holds(s, t) /\ t.phase = s.phase /\ t.work = s.work
      /\ t.proposal = s.proposal
      /\ t.latest = s.latest /\ t.approved = s.approved
  BY <1>1, ManagedHolds, ManagedLeaves
<1> HIDE DEF t
<1>4. t.method = Method /\ t.series = s.series
  BY <1>3 DEF Holds, Shaped
<1>5. Ground(t)
  BY <1>1, <1>3, GroundKept
<1>6. /\ \A kinds : Ids(t, kinds) = Ids(s, kinds)
      /\ \A kinds : Newest(t, kinds) = Newest(s, kinds)
  BY <1>3, HoldsSame DEF Holds
<1>7. Owes(t)
  BY <1>3, <1>6 DEF Owes, Sound
<1>8. ValidPolar(t)
  BY <1>1, <1>3, <1>4, <1>6, PolarKept
<1>9. Sound(t)
  BY <1>1, <1>2, <1>3, <1>4, <1>5, <1>7, <1>8, SoundIdle
<1> QED
  BY <1>9, SoundValid DEF t

\* A polar measurement that is centred can be accepted.
LEMMA AcceptedValid ==
    ASSUME NEW s, Sound(s), Method = "polar", s.latest # NoAttempt,
           \E e \in Newest(s, {"polar"}) : e.result = "centered"
    PROVE  Valid(PolarAccepted(s))
<1> DEFINE t == PolarAccepted(s)
<1>1. /\ Ground(s) /\ Shaped(s) /\ s.method = Method
      /\ (s.method = "polar") <=> (s.series = <<>>)
      /\ ValidPolar(s)
  BY SoundPhase DEF Sound
<1>2. /\ Holds(s, t) /\ t.phase = "completed" /\ t.work = NoWork
      /\ t.proposal = NoProposal
      /\ t.latest = s.latest /\ t.approved = s.latest
  BY <1>1, AcceptedHolds, AcceptedRest
<1> HIDE DEF t
<1>3. t.method = Method /\ t.series = s.series
  BY <1>2 DEF Holds, Shaped
<1>4. Ground(t)
  BY <1>1, <1>2, GroundKept
<1>5. /\ \A kinds : Ids(t, kinds) = Ids(s, kinds)
      /\ \A kinds : Newest(t, kinds) = Newest(s, kinds)
  BY <1>2, HoldsSame DEF Holds
<1>6. Owes(t)
  BY <1>2, <1>5 DEF Owes, Sound
<1>7. ValidPolar(t)
  BY <1>1, <1>2, <1>3, <1>5 DEF ValidPolar
<1>8. t.work.kind = "none"
  BY <1>2 DEF NoWork
<1>9. Sound(t)
  BY <1>1, <1>2, <1>3, <1>4, <1>6, <1>7, <1>8, SoundIdle
<1> QED
  BY <1>9, SoundValid DEF t

\* A paused session opens a recovery as long as its policy has one.
LEMMA RetryOffered ==
    ASSUME NEW s, Sound(s), Method = "deepSky", s.phase = "paused"
    PROVE  (\E p \in SolveParameters :
              OpensRecovery(s, p) /\ Valid(Recovering(s, p)))
           <=> Cardinality(Recoveries(s)) # s.policy.recoveries
<1> DEFINE n == Cardinality(Recoveries(s))
<1>1. Ground(s) /\ Shaped(s) /\ s.policy.recoveries = MaxRecoveries
  BY SoundPhase DEF Shaped, Policy, PolicyOf
<1>2. n = RecoveryCount(s.series)
  BY DEF RecoveryCount, Recoveries
<1>3. n \in Nat /\ n <= MaxRecoveries /\ MaxRecoveries \in Nat
  <2>1. Recoveries(s) \in SUBSET (1 .. Len(s.series))
        /\ Len(s.series) \in Nat
    BY <1>1, ChainFacts, AppendFacts DEF Recoveries, Ground, Chained
  <2>2. IsFiniteSet(Recoveries(s))
    <3>1. IsFiniteSet(1 .. Len(s.series))
      BY <2>1, FS_Interval
    <3> QED
      BY <2>1, <3>1, FS_Subset
  <2>3. RecoveryCount(s.series) <= MaxRecoveries
    BY <1>1 DEF Ground, Spent
  <2> QED
    BY <1>2, <2>2, <2>3, FS_CardinalityType, ConstantsAssumption
<1> HIDE DEF n
<1>4. ASSUME NEW p \in SolveParameters, OpensRecovery(s, p)
      PROVE  n # MaxRecoveries
  <2>1. n < MaxRecoveries
    BY <1>1, <1>4 DEF OpensRecovery, n
  <2> QED
    BY <1>3, <2>1
<1>5. ASSUME n # MaxRecoveries
      PROVE  \E p \in SolveParameters :
               OpensRecovery(s, p) /\ Valid(Recovering(s, p))
  <2>1. n < MaxRecoveries
    BY <1>3, <1>5
  <2>2. PICK p \in SolveParameters : Last(s.series).parameters # p
    BY DEF SolveParameters
  <2>3. OpensRecovery(s, p)
    BY <1>1, <2>1, <2>2 DEF OpensRecovery, n
  <2>4. RecoveryCount(s.series) < MaxRecoveries
    BY <1>2, <2>1
  <2>5. Valid(Recovering(s, p))
    BY <2>4, RecoveringSound, SoundValid
  <2> QED
    BY <2>3, <2>5
<1> QED
  BY <1>1, <1>4, <1>5 DEF n

LEMMA HandledOffers ==
    /\ Handled("measure") <=> MayMeasure
    /\ Handled("acceptPolar") <=>
         MayAcceptPolar /\ Valid(PolarAccepted(session))
    /\ Handled("capture") <=> session.work.kind = "solve"
    /\ Handled("approve") <=> Approvable(session)
    /\ Handled("retry") <=>
         \E p \in SolveParameters :
           OpensRecovery(session, p) /\ Valid(Recovering(session, p))
    /\ Handled("skip") <=> MaySkip /\ Valid(Ended("skipped"))
    /\ Handled("abort") <=> MayAbort /\ Valid(Ended("aborted"))
    /\ Handled("frame") <=> MayRecord
    /\ Handled("start") <=>
         MayStart /\ \E frame \in Newest(session, {"frame"}) :
                       Valid(Started(frame))
    /\ Handled("pause") <=> MayPause /\ Valid(Turned("paused"))
    /\ Handled("stop") <=> MayStop /\ Valid(Turned("stopped"))
    /\ Handled("recenter") <=> MayRecenter /\ Valid(Recentered)
BY DEF Handled

LEMMA RefusedOffers ==
    /\ Refused("retry") <=>
         Cardinality(Recoveries(session)) = session.policy.recoveries
    /\ Refused("acceptPolar") <=>
         \A e \in Newest(session, {"polar"}) : e.result # "centered"
    /\ \A offer : offer \notin {"retry", "acceptPolar"} => ~Refused(offer)
BY DEF Refused

LEMMA PolarOffersHold ==
    ASSUME Sound(session), Tended(session), Method = "polar",
           NEW offer \in Offers
    PROVE  Handled(offer) <=> ~Refused(offer)
<1>1. session.method = "polar"
  BY SoundPhase
<1>2. session.phase = "polarGuidance"
  BY <1>1 DEF Offers, PolarOffers
<1>3. session.work = NoWork
  BY <1>2 DEF Sound, ValidPhase, Tended
<1>4. CASE Of(session, {"polar"}) = {}
  <2>1. offer = "measure"
    BY <1>1, <1>2, <1>4 DEF Offers, PolarOffers
  <2>2. MayMeasure
    BY <1>2, <1>3 DEF MayMeasure
  <2> QED
    BY <2>1, <2>2, HandledOffers, RefusedOffers
<1>5. CASE Of(session, {"polar"}) # {}
  <2>1. offer = "acceptPolar"
    BY <1>1, <1>2, <1>5 DEF Offers, PolarOffers
  <2>2. session.latest # NoAttempt
    BY <1>5 DEF Tended, Ids
  <2>3. ASSUME \E e \in Newest(session, {"polar"}) : e.result = "centered"
        PROVE  MayAcceptPolar /\ Valid(PolarAccepted(session))
    BY <1>1, <1>3, <2>2, <2>3, AcceptedValid DEF MayAcceptPolar
  <2>4. MayAcceptPolar =>
          \E e \in Newest(session, {"polar"}) : e.result = "centered"
    BY DEF MayAcceptPolar
  <2> QED
    BY <2>1, <2>3, <2>4, HandledOffers, RefusedOffers
<1> QED
  BY <1>4, <1>5

\* A session that still seeks its target.
LEMMA SeekingOffersHold ==
    ASSUME Solid, Sound(session), Tended(session), Method # "polar",
           session.phase # "completed", NEW offer \in Offers
    PROVE  Handled(offer) <=> ~Refused(offer)
<1>1. session.method = Method
  BY SoundPhase
<1>2. offer \in TargetOffers
  BY <1>1 DEF Offers
<1>3. CASE session.phase \in {"solving", "verifying"}
  <2>1. offer = "capture"
    BY <1>2, <1>3 DEF TargetOffers
  <2>2. session.work.kind = "solve"
    BY <1>3, SoundPhase
  <2> QED
    BY <2>1, <2>2, HandledOffers, RefusedOffers
<1>4. CASE session.phase = "awaitingApproval"
  <2>1. offer = "approve"
    BY <1>2, <1>4 DEF TargetOffers
  <2>2. Approvable(session)
    BY <1>4, SoundPhase DEF Tended, Lasts, Approvable, NowEpochMs
  <2> QED
    BY <2>1, <2>2, HandledOffers, RefusedOffers
<1>5. CASE session.phase \in {"paused", "correcting"}
  <2>1. session.phase = "paused"
    BY <1>5 DEF Solid, SessionFits, Phases
  <2>2. /\ offer \in {"retry", "skip", "abort"}
        /\ offer = "retry" => Method = "deepSky"
        /\ offer \in {"skip", "abort"} => ~DenyOuter
    BY <1>1, <1>2, <2>1 DEF TargetOffers
  <2>3. CASE offer = "retry"
    BY <2>1, <2>2, <2>3, RetryOffered, HandledOffers, RefusedOffers
  <2>4. CASE offer = "skip"
    <3>1. MaySkip
      BY <2>1, <2>2, <2>4 DEF MaySkip
    <3>2. Valid(Ended("skipped"))
      BY EndedValid DEF Ended
    <3> QED
      BY <2>4, <3>1, <3>2, HandledOffers, RefusedOffers
  <2>5. CASE offer = "abort"
    <3>1. MayAbort
      BY <1>1, <2>1, <2>2, <2>5 DEF MayAbort
    <3>2. Valid(Ended("aborted"))
      BY EndedValid DEF Ended
    <3> QED
      BY <2>5, <3>1, <3>2, HandledOffers, RefusedOffers
  <2> QED
    BY <2>2, <2>3, <2>4, <2>5
<1> QED
  BY <1>2, <1>3, <1>4, <1>5 DEF TargetOffers

\* A session whose target is centred.
LEMMA CompletedOffersHold ==
    ASSUME Sound(session), Tended(session), Method # "polar",
           session.phase = "completed", NEW offer \in Offers
    PROVE  Handled(offer) <=> ~Refused(offer)
<1>1. session.method # "polar"
  BY SoundPhase
<1>2. /\ offer \in {"frame", "start", "pause", "stop", "recenter"}
      /\ offer = "start" => Unmanaged /\ Of(session, {"frame"}) # {}
      /\ offer = "stop" => session.managed.state \in {"active", "paused"}
      /\ offer \in {"pause", "recenter"} => session.managed.state = "active"
      /\ offer = "recenter" => session.managed.quality = "attention"
  BY <1>1 DEF Offers, TargetOffers
<1>3. \A x : Valid(Managed(session, x))
  BY ManagedValid
<1>4. CASE offer = "frame"
  <2>1. MayRecord
    BY <1>1 DEF MayRecord
  <2> QED
    BY <1>4, <2>1, HandledOffers, RefusedOffers
<1>5. CASE offer = "start"
  <2>1. MayStart
    BY <1>2, <1>5 DEF MayStart, Unmanaged
  <2>2. PICK frame \in Newest(session, {"frame"}) : TRUE
    BY <1>2, <1>5 DEF Tended, Known, Ids
  <2>3. Valid(Started(frame))
    BY <1>3 DEF Started
  <2> QED
    BY <1>5, <2>1, <2>2, <2>3, HandledOffers, RefusedOffers
<1>6. CASE offer = "pause"
  <2>1. MayPause /\ Valid(Turned("paused"))
    BY <1>2, <1>3, <1>6 DEF MayPause, Turned
  <2> QED
    BY <1>6, <2>1, HandledOffers, RefusedOffers
<1>7. CASE offer = "stop"
  <2>1. MayStop /\ Valid(Turned("stopped"))
    BY <1>2, <1>3, <1>7 DEF MayStop, Turned
  <2> QED
    BY <1>7, <2>1, HandledOffers, RefusedOffers
<1>8. CASE offer = "recenter"
  <2>1. MayRecenter /\ Valid(Recentered)
    BY <1>2, <1>3, <1>8 DEF MayRecenter, MayPause, Recentered
  <2> QED
    BY <1>8, <2>1, HandledOffers, RefusedOffers
<1> QED
  BY <1>2, <1>4, <1>5, <1>6, <1>7, <1>8

OfferInv == SoundInv /\ TendedNow

LEMMA OffersHold ==
    ASSUME OfferInv
    PROVE  OfferedIsAccepted
<1>1. Solid /\ Sound(session) /\ Tended(session)
  BY DEF OfferInv, SoundInv, Inv, SoundNow, TendedNow
<1> QED
  BY <1>1, PolarOffersHold, SeekingOffersHold, CompletedOffersHold
     DEF OfferedIsAccepted

LEMMA OffersInductive ==
    /\ Init => OfferInv
    /\ OfferInv /\ [Next]_vars => OfferInv'
<1>1. Init => OfferInv
  BY SoundInductive, TendedInit DEF OfferInv
<1>2. ASSUME OfferInv, [Next]_vars
      PROVE  OfferInv'
  <2>1. Solid /\ SoundNow /\ Rest /\ TendedNow
    BY <1>2 DEF OfferInv, SoundInv, Inv
  <2>2. TendedNow'
    BY <1>2, <2>1, TendedStep
  <2> QED
    BY <1>2, <2>2, SoundInductive DEF OfferInv
<1> QED
  BY <1>1, <1>2

(* Whatever other requests are under way, the origin accepts what a page   *)
(* is offered: a retry opens a series the schema accepts, an approval finds *)
(* a proposal that lasts, a capture starts from the frame that made it     *)
(* possible.  Always refused are a recovery the policy has no series for   *)
(* and a polar measurement that is out of tolerance (acquireSnapshot, the  *)
(* guards of the commands' handlers, validateAcquireSession).              *)
THEOREM OffersStayGood == Spec => []OfferedIsAccepted
BY OffersInductive, OffersHold, PTL DEF Spec

(* The same for a session whose Observe page is used, by whoever controls  *)
(* it and whatever of its snapshots and requests is late or lost.          *)
THEOREM ObservedOffersStayGood == ObserveSpec => []OfferedIsAccepted
<1>1. ObserveInit => OfferInv
  BY OffersInductive DEF ObserveInit
<1>2. ASSUME OfferInv, [ObserveNext]_observeVars
      PROVE  OfferInv'
  <2>1. [Next]_vars
    BY <1>2, ObserverSteps DEF OfferInv, SoundInv, Inv
  <2> QED
    BY <1>2, <2>1, OffersInductive
<1> QED
  BY <1>1, <1>2, OffersHold, PTL DEF ObserveSpec

=============================================================================
