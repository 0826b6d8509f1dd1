-------------------------- MODULE AccessAdmission --------------------------
(***************************************************************************)
(* Admission of a request that carries an Access assertion: the signing    *)
(* keys are fetched and cached, the membership file is read again from     *)
(* time to time, and the admitted subject is bound to its membership.      *)
(* One listener: each has resolvers of its own, and they share only the    *)
(* memberships table, which every admission writes before it reads it.     *)
(* Time passes in ticks; an age stops counting where nothing can tell it   *)
(* from a greater one, so time itself is not bounded.                      *)
(***************************************************************************)
EXTENDS FiniteSets, Integers, TLC

CONSTANTS
  Kids,          \* the key ids the identity provider ever signs with
  Requests,      \* assertions presented again and again
  KidOf,         \* the key id in the header of each
  Context,       \* "desktop" or "phone": the listener's clientContext
  None,
  Ttl,           \* cacheTtlMs, in ticks
  FetchLimit,    \* the five seconds a fetch may take, in ticks
  Interval,      \* reloadIntervalMs, in ticks
  MaxUnknown,    \* 64: the ids remembered as unknown
  MaxRotations,  \* bound: changes of the provider's keys
  MaxEdits,      \* bound: changes of the membership file
  MaxFailures    \* bound: fetches that fail

VARIABLES
  keys,       \* the document the provider serves, {} an unusable one
  keyAge,     \* ticks since the provider last served each id
  cached, expiresIn, unknownKids,                 \* createJwksKeyResolver
  pending,    \* where each request's resolve is, and the fetch it awaits
  file,       \* the role the membership file gives, "none", or "broken"
  roleAge,    \* ticks since the file last gave each role
  seen,       \* mtimeMs is the file's
  checked,    \* ticks since checkedAt
  policy,     \* createMembershipBootstrapResolver
  membership, \* the role in the subject's memberships row
  grant,      \* the last identity admitted, where, and the ages it had then
  answered,   \* what each request was answered last
  rotations, edits, failures

provider == <<keys, keyAge, rotations>>
resolver == <<cached, expiresIn, unknownKids>>
members == <<file, roleAge, seen, checked, policy, edits>>
outcome == <<membership, grant, answered>>
vars == <<provider, resolver, pending, members, outcome, failures>>

Roles == {"owner", "viewer"}

AccessOK ==
  /\ None \notin Roles
  /\ Context \in {"desktop", "phone"}
  /\ KidOf \in [Requests -> Kids]
  /\ {Ttl, FetchLimit, Interval, MaxUnknown} \subseteq Nat \ {0}
  /\ {MaxRotations, MaxEdits, MaxFailures} \subseteq Nat

ASSUME AccessAssumption == AccessOK

KeyHorizon == Ttl + FetchLimit + 1
RoleHorizon == Interval + 1
Idle == [at |-> "idle", served |-> None, left |-> 0]
\* The start of a fetch: nothing is served yet, and the time-out runs.
Fetching(for) == [at |-> for, served |-> None, left |-> FetchLimit]

TypeOK ==
  /\ keys \subseteq Kids /\ keyAge \in [Kids -> 0 .. KeyHorizon]
  /\ cached \in {None} \cup ((SUBSET Kids) \ {{}})
  /\ expiresIn \in 0 .. Ttl /\ unknownKids \subseteq Kids
  /\ pending \in [Requests ->
       [at : {"idle", "expired", "unfamiliar"},
        served : {None} \cup SUBSET Kids, left : 0 .. FetchLimit]]
  /\ file \in Roles \cup {"none", "broken"}
  /\ roleAge \in [Roles -> 0 .. RoleHorizon]
  /\ seen \in BOOLEAN /\ checked \in 0 .. Interval
  /\ policy \in Roles \cup {"none", None}
  /\ membership \in Roles \cup {None}
  /\ answered \in [Requests -> {None, "admitted", "refused"}]

Init ==
  /\ keys \in SUBSET Kids
  /\ keyAge = [k \in Kids |-> IF k \in keys THEN 0 ELSE KeyHorizon]
  /\ cached = None /\ expiresIn = 0 /\ unknownKids = {}
  /\ pending = [r \in Requests |-> Idle]
  /\ file \in Roles \cup {"none"}
  /\ roleAge = [r \in Roles |-> IF r = file THEN 0 ELSE RoleHorizon]
  /\ seen = FALSE /\ checked = Interval /\ policy = None
  /\ membership = None /\ grant = None
  /\ answered = [r \in Requests |-> None]
  /\ rotations = 0 /\ edits = 0 /\ failures = 0

-----------------------------------------------------------------------------
\* The membership file.

Checks == checked = Interval

\* Mutant: a policy once read is not read again.
LoadedOnce ==
  IF policy # None THEN policy
  ELSE IF file = "broken" THEN None ELSE file

\* What load answers: the policy it holds until the interval has passed, and
\* then the file, read unless its modification time is the one it has.
Loaded ==
  CASE ~Checks                        -> policy
    [] Checks /\ seen /\ policy # None -> policy
    [] OTHER -> IF file = "broken" THEN None ELSE file

Load ==
  /\ policy' = Loaded
  /\ checked' = IF Checks THEN 0 ELSE checked
  /\ seen' = IF Checks THEN Loaded # None ELSE seen
  /\ UNCHANGED <<file, roleAge, edits>>

\* The person keeping the file writes it, or an unreadable one.
Edit ==
  /\ edits < MaxEdits
  /\ \E f \in (Roles \cup {"none", "broken"}) \ {file} :
       /\ file' = f
       /\ roleAge' = [r \in Roles |-> IF r = f THEN 0 ELSE roleAge[r]]
  /\ seen' = FALSE /\ edits' = edits + 1
  /\ UNCHANGED <<checked, policy, provider, resolver, pending, outcome,
                 failures>>

-----------------------------------------------------------------------------
\* The signing keys.

Rotate ==
  /\ rotations < MaxRotations
  /\ \E ks \in (SUBSET Kids) \ {keys} :
       /\ keys' = ks
       /\ keyAge' = [k \in Kids |-> IF k \in ks THEN 0 ELSE keyAge[k]]
  /\ rotations' = rotations + 1
  /\ UNCHANGED <<resolver, pending, members, outcome, failures>>

\* The provider answers a fetch with the document it has at that moment.
Serve(r) ==
  /\ pending[r].at # "idle" /\ pending[r].served = None
  /\ pending' = [pending EXCEPT ![r].served = keys]
  /\ UNCHANGED <<provider, resolver, members, outcome, failures>>

Expired == cached = None \/ expiresIn = 0

\* The cache a fetched document makes.
Refreshed(ks) == cached' = ks /\ expiresIn' = Ttl

\* A kid the fresh document does not name is remembered; a full memory is
\* emptied first.
Remembered(known, k) ==
  IF Cardinality(known) >= MaxUnknown THEN {k} ELSE known \cup {k}

Answer(r, is) ==
  /\ pending' = [pending EXCEPT ![r] = Idle]
  /\ answered' = [answered EXCEPT ![r] = is]

Refused(r) ==
  /\ Answer(r, "refused")
  /\ UNCHANGED <<members, membership, grant>>

\* The key is found: the signature holds, the policy is loaded, the subject
\* is bound to its entry and the identity made, without another await.
Admitted(r) ==
  /\ Load
  /\ IF Loaded \in Roles
     THEN /\ membership' = Loaded
          /\ grant' =
               [key |-> keyAge[KidOf[r]], role |-> Loaded,
                since |-> roleAge[Loaded], at |-> Context,
                capability |-> IF Loaded = "owner" /\ Context = "desktop"
                               THEN "controlCapable" ELSE "readOnly"]
          /\ Answer(r, "admitted")
     ELSE /\ Answer(r, "refused")
          /\ UNCHANGED <<membership, grant>>

\* Mutant: a cache that has expired is used when it names the kid.
AskStale(r) ==
  /\ pending[r].at = "idle"
  /\ UNCHANGED <<provider, resolver, failures>>
  /\ CASE cached # None /\ KidOf[r] \in cached -> Admitted(r)
       [] cached # None /\ KidOf[r] \in unknownKids \ cached -> Refused(r)
       [] OTHER ->
            /\ pending' = [pending EXCEPT ![r] = Fetching("unfamiliar")]
            /\ UNCHANGED <<members, outcome>>

\* resolve, from the lookup on: the cache has the kid, or it is known to be
\* unknown, or one more fetch is made for it.
Ask(r) ==
  /\ pending[r].at = "idle"
  /\ UNCHANGED <<provider, resolver, failures>>
  /\ CASE Expired ->
            /\ pending' = [pending EXCEPT ![r] = Fetching("expired")]
            /\ UNCHANGED <<members, outcome>>
       [] ~Expired /\ KidOf[r] \in cached -> Admitted(r)
       [] ~Expired /\ KidOf[r] \in unknownKids \ cached -> Refused(r)
       [] OTHER ->
            /\ pending' = [pending EXCEPT ![r] = Fetching("unfamiliar")]
            /\ UNCHANGED <<members, outcome>>

\* The document arrives and replaces the cache and what was unknown,
\* whichever fetch it belongs to; then this request looks its kid up.
Arrive(r) ==
  LET doc == pending[r].served
      k   == KidOf[r]
  IN /\ pending[r].at # "idle" /\ doc \notin {None, {}}
     /\ Refreshed(doc)
     /\ CASE k \in doc -> unknownKids' = {} /\ Admitted(r)
          [] k \notin doc /\ pending[r].at = "expired" ->
               /\ unknownKids' = {}
               /\ pending' = [pending EXCEPT ![r] = Fetching("unfamiliar")]
               /\ UNCHANGED <<members, outcome>>
          [] OTHER -> unknownKids' = Remembered({}, k) /\ Refused(r)
     /\ UNCHANGED <<provider, failures>>

\* The document is unusable: the request is refused, the cache stays.
Unusable(r) ==
  /\ pending[r].at # "idle" /\ pending[r].served = {}
  /\ Refused(r)
  /\ UNCHANGED <<provider, resolver, failures>>

\* A fetch fails by its time-out or its status, with the same end.
Fail(r) ==
  /\ pending[r].at # "idle" /\ failures < MaxFailures
  /\ failures' = failures + 1
  /\ Refused(r)
  /\ UNCHANGED <<provider, resolver>>

\* A tick, which no fetch outlives its limit by.
Tick ==
  /\ \A r \in Requests : pending[r].at = "idle" \/ pending[r].left > 0
  /\ pending' = [r \in Requests |->
       IF pending[r].at = "idle" THEN Idle
       ELSE [pending[r] EXCEPT !.left = @ - 1]]
  /\ expiresIn' = IF expiresIn = 0 THEN 0 ELSE expiresIn - 1
  /\ checked' = IF Checks THEN Interval ELSE checked + 1
  /\ keyAge' = [k \in Kids |->
       IF k \in keys THEN 0
       ELSE IF keyAge[k] = KeyHorizon THEN KeyHorizon ELSE keyAge[k] + 1]
  /\ roleAge' = [r \in Roles |->
       IF r = file THEN 0
       ELSE IF roleAge[r] = RoleHorizon THEN RoleHorizon ELSE roleAge[r] + 1]
  /\ UNCHANGED <<keys, rotations, cached, unknownKids, file, seen, policy,
                 edits, outcome, failures>>

Next ==
  \/ Edit \/ Rotate \/ Tick
  \/ \E r \in Requests :
       Ask(r) \/ Serve(r) \/ Arrive(r) \/ Unusable(r) \/ Fail(r)

\* Assertions are presented again, fetches end and time passes.
Fairness ==
  /\ WF_vars(Tick)
  /\ \A r \in Requests : /\ WF_vars(Ask(r)) /\ WF_vars(Serve(r))
                         /\ WF_vars(Arrive(r)) /\ WF_vars(Unusable(r))

Spec == Init /\ [][Next]_vars
FairSpec == Spec /\ Fairness

-----------------------------------------------------------------------------
\* Whoever is admitted holds a key the provider served within the life of
\* the cache and the time a fetch takes, and a role the membership file gave
\* within its interval; control only as an owner at the desktop listener.
GrantIsRecent ==
  grant # None =>
    /\ grant.key <= Ttl + FetchLimit
    /\ grant.since <= Interval
    /\ grant.capability = "controlCapable" =>
         grant.role = "owner" /\ grant.at = "desktop"
    /\ membership = grant.role

\* What is remembered as unknown is not in the cache, and is bounded.
UnknownIsUnknown ==
  /\ cached # None => unknownKids \cap cached = {}
  /\ Cardinality(unknownKids) <= MaxUnknown

\* Admission (createJwksKeyResolver, createMembershipBootstrapResolver,
\* createProductionAccessAdmission) keeps its shape, admits on what is recent
\* and remembers as unknown what is.
AdmissionIsSound == TypeOK /\ GrantIsRecent /\ UnknownIsUnknown

\* A member whose key the provider serves is admitted again and again once
\* keys and file rest, and nobody else is: no memory of an unknown key and no
\* cached document outlives the cache's life.
AdmissionCatchesUp ==
  \A r \in Requests :
    <>[](keys # {}) =>
      /\ <>[](KidOf[r] \in keys /\ file \in Roles)
           => []<>(answered[r] = "admitted")
      /\ <>[](KidOf[r] \notin keys \/ file \notin Roles)
           => <>[](answered[r] # "admitted")
=============================================================================
